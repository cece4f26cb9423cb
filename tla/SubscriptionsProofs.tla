-------------------------- MODULE SubscriptionsProofs -------------------------
(***************************************************************************)
(* The services of the stream engine, proved for any number of             *)
(* applications, instances and allocations.                                *)
(***************************************************************************)
EXTENDS Subscriptions, FiniteSetTheorems, SequenceTheorems, WellFoundedInduction, TLAPS

-----------------------------------------------------------------------------
(* The inductive invariant. *)

Requests == [callid : {"FTA_LOOKUP"}, from : App, stream : {None}, reusable : {0, 1}]
Reports  == [callid : {"FTA_REGISTER", "FTA_UNREGISTER"}, from : {"rts"}, stream : Stream, reusable : {0, 1}]
Orders   == [callid : Allocating \cup {"FTA_FREE_INSTANCE"}, from : App,
             stream : Stream \cup {None}, reusable : {0, 1}]
Results  == [result : {0, -1}, stream : Stream \cup {None}]
Messages == Requests \cup Reports \cup Orders
Work     == [op : {"register", "print", "unregister"}, from : App, stream : Stream, reusable : {0, 1}]
Entries  == [stream : Stream, reusable : {0, 1}]

TypesOK ==
    /\ inbox \in [{"ch", "rts"} -> Seq(Messages)]
    /\ result \in [App \cup {"rts"} -> Seq(Results)] /\ flookup \in Seq(Entries)
    /\ shm \subseteq App /\ busy \in Work \cup {Idle}
    /\ pc \in [App -> {"idle", "find", "alloc", "subscribed", "free", "print", "printing", "exited"}]
    /\ sub \in [App -> Stream \cup {None}]
    /\ allocs \in 0 .. MaxAllocs /\ astray \in BOOLEAN

\* The registries agree: an instance is there as long as it has a reference,
\* runs as long as it has a subscriber, and has a reference for each.
RegistriesOK ==
    /\ created \subseteq Stream /\ process \subseteq Stream
    /\ refcnt \in [Stream -> Nat] /\ runrefcnt \in [Stream -> Nat]
    /\ fstreamid \in [App -> [Stream -> Nat]]
    /\ \A s \in Stream : /\ s \in created <=> refcnt[s] > 0
                         /\ s \in process <=> runrefcnt[s] > 0
                         /\ runrefcnt[s] <= refcnt[s]

-------------------------------------------------------------------------------
(* Who waits for what.  A call is in one place: in an inbox, in the hands of   *)
(* the process that serves it, or answered.                                    *)

Elems(q)    == {q[i] : i \in 1 .. Len(q)}
Asked(p, a) == \E m \in Elems(inbox[p]) : m.from = a

Once(q) == \A i, j \in 1 .. Len(q) : q[i].from = q[j].from => i = j

\* A request to the clearinghouse, of an application or of the process.
ChOK(m) ==
    \/ m \in Requests /\ pc[m.from] = "find" /\ result[m.from] = <<>>
    \/ /\ m \in Reports /\ result["rts"] = <<>> /\ busy # Idle /\ m.stream = busy.stream
       /\ m.callid = "FTA_REGISTER" <=> busy.op \in {"register", "print"}

\* A request to the process that runs the query.
RtsOK(m) ==
    /\ m \in Orders /\ result[m.from] = <<>> /\ (busy # Idle => busy.from # m.from)
    /\ m.callid = "FTA_ALLOC_INSTANCE" => pc[m.from] = "alloc"
    /\ m.callid = "FTA_ALLOC_PRINT_INSTANCE" => pc[m.from] = "print"
    /\ m.callid = "FTA_FREE_INSTANCE"  => pc[m.from] = "free" /\ m.stream = sub[m.from]

\* What the application behind the work in hand waits for.
Caller(op) == IF op = "register" THEN "alloc" ELSE IF op = "print" THEN "print" ELSE "free"

CallsOK ==
    /\ Once(inbox["ch"]) /\ Once(inbox["rts"])
    /\ \A m \in Elems(inbox["ch"])  : ChOK(m)
    /\ \A m \in Elems(inbox["rts"]) : RtsOK(m)
    /\ busy # Idle => result[busy.from] = <<>> /\ pc[busy.from] = Caller(busy.op)

ResultsOK ==
    /\ Len(result["rts"]) <= 1
    /\ \A a \in App : Len(result[a]) <= 1 \/ pc[a] = "exited" \/ (pc[a] = "print" /\ Head(result[a]).result = -1)
    /\ result["rts"] # <<>> => busy # Idle
    /\ \A a \in App : result[a] # <<>> =>
          /\ pc[a] \in {"find", "alloc", "free", "print", "exited"}
          /\ pc[a] \in {"alloc", "print"} /\ Head(result[a]).result = 0 => Head(result[a]).stream \in Stream
    /\ \A a \in App : pc[a] \in {"subscribed", "printing", "free"} => sub[a] \in Stream

-------------------------------------------------------------------------------
(* The counts. *)

\* An application that has a share in instance s: it was allocated for it, and
\* its request to free it has not been served.
Holds(a, s) ==
    \/ pc[a] \in {"subscribed", "printing"} /\ sub[a] = s
    \/ pc[a] = "free" /\ sub[a] = s /\ Asked("rts", a)
    \/ pc[a] \in {"alloc", "print"} /\ busy.op \in {"register", "print"} /\ busy.from = a /\ busy.stream = s
    \/ pc[a] \in {"alloc", "print"} /\ result[a] # <<>> /\ Head(result[a]) = Result(0, s)

Holders(s) == {a \in App : Holds(a, s)}

\* The applications whose allocation has not been served.
Hoping == {a \in App : pc[a] = "find" \/ (pc[a] \in {"alloc", "print"} /\ Asked("rts", a))}

\* Its instance prints, or is to.
Prints(a) == pc[a] \in {"print", "printing"}

CountsOK ==
    /\ IsFiniteSet(Hoping)
    /\ \A s \in Stream :
        /\ IsFiniteSet(Holders(s))
        /\ refcnt[s] + Cardinality(Hoping) <= allocs
        /\ Cardinality(Holders(s)) <= refcnt[s]
        /\ ~astray => Cardinality(Holders(s)) <= runrefcnt[s]
    /\ ~astray => \A a \in App, s \in Stream : Holds(a, s) => Prints(a) \/ fstreamid[a][s] > 0

SubscriptionInv == TypesOK /\ RegistriesOK /\ CallsOK /\ ResultsOK /\ CountsOK

-----------------------------------------------------------------------------
(* Inboxes. *)

(* A message that joins the others. *)
LEMMA ElemsAppend ==
  ASSUME NEW M, NEW q \in Seq(M), NEW m \in M
  PROVE  /\ Append(q, m) \in Seq(M) /\ Elems(Append(q, m)) = Elems(q) \cup {m}
         /\ Once(q) /\ (\A o \in Elems(q) : o.from # m.from) => Once(Append(q, m))
<1> DEFINE u == Append(q, m)
<1>1. /\ u \in Seq(M) /\ Len(u) = Len(q) + 1 /\ Len(q) \in Nat
      /\ \A i \in 1 .. Len(q) : u[i] = q[i]
      /\ u[Len(q) + 1] = m
  BY AppendProperties, LenProperties
<1>2. \A i \in 1 .. Len(q) + 1 : i \in 1 .. Len(q) \/ i = Len(q) + 1
  BY <1>1
<1>3. Len(q) + 1 \in 1 .. Len(q) + 1 /\ \A i \in 1 .. Len(q) : i \in 1 .. Len(q) + 1
  BY <1>1
<1> HIDE DEF u
<1>4. Elems(u) = Elems(q) \cup {m}
  BY <1>1, <1>2, <1>3 DEF Elems
<1>5. ASSUME Once(q), \A o \in Elems(q) : o.from # m.from PROVE Once(u)
  <2>1. \A i \in 1 .. Len(q) : q[i].from # m.from
    BY <1>5 DEF Elems
  <2> QED
    BY <1>1, <1>2, <1>5, <2>1 DEF Once
<1> QED
  BY <1>1, <1>4, <1>5 DEF u

(* The first message is taken out. *)
LEMMA ElemsTail ==
  ASSUME NEW M, NEW q \in Seq(M), q # <<>>, Once(q)
  PROVE  /\ Tail(q) \in Seq(M) /\ Once(Tail(q)) /\ Head(q) \in Elems(q) /\ Head(q) \in M
         /\ Elems(Tail(q)) = Elems(q) \ {Head(q)}
         /\ \A o \in Elems(Tail(q)) : o.from # Head(q).from
<1> DEFINE u == Tail(q)
<1>1. /\ u \in Seq(M) /\ Len(q) \in Nat /\ Len(q) >= 1 /\ Len(u) = Len(q) - 1
      /\ \A i \in 1 .. Len(q) - 1 : u[i] = q[i + 1]
      /\ Head(q) = q[1] /\ q[1] \in M
  BY HeadTailProperties, LenProperties, EmptySeq
<1> HIDE DEF u
<1>2. \A i \in 1 .. Len(q) - 1 : i + 1 \in 1 .. Len(q) /\ i + 1 # 1
  BY <1>1
<1>3. \A i \in 1 .. Len(q) : i = 1 \/ \E j \in 1 .. Len(q) - 1 : i = j + 1
  <2> SUFFICES ASSUME NEW i \in 1 .. Len(q), i # 1 PROVE \E j \in 1 .. Len(q) - 1 : i = j + 1
    OBVIOUS
  <2>1. i - 1 \in 1 .. Len(q) - 1 /\ i = (i - 1) + 1
    BY <1>1
  <2> QED
    BY <2>1
<1>4. 1 \in 1 .. Len(q)
  BY <1>1
<1>5. Once(u)
  <2>1. \A i, j \in 1 .. Len(q) - 1 : i + 1 = j + 1 => i = j
    BY <1>1
  <2> QED
    BY <1>1, <1>2, <2>1 DEF Once
<1>6. Head(q) \in Elems(q)
  BY <1>1, <1>4 DEF Elems
<1>7. \A i \in 1 .. Len(q) - 1 : u[i].from # Head(q).from
  BY <1>1, <1>2, <1>4 DEF Once
<1>8. \A o \in Elems(u) : o.from # Head(q).from
  BY <1>1, <1>7 DEF Elems
<1>9. Elems(u) = Elems(q) \ {Head(q)}
  <2>1. Elems(u) \subseteq Elems(q) \ {Head(q)}
    BY <1>1, <1>2, <1>7 DEF Elems
  <2>2. ASSUME NEW i \in 1 .. Len(q), q[i] # Head(q) PROVE q[i] \in Elems(u)
    <3>1. PICK j \in 1 .. Len(q) - 1 : i = j + 1
      BY <1>1, <1>3, <2>2
    <3>2. q[i] = u[j]
      BY <1>1, <3>1
    <3> QED
      BY <1>1, <3>2 DEF Elems
  <2>3. Elems(q) \ {Head(q)} \subseteq Elems(u)
    BY <2>2 DEF Elems
  <2> QED
    BY <2>1, <2>3
<1> QED
  BY <1>1, <1>5, <1>6, <1>8, <1>9 DEF u

(* A list of no more than one. *)
LEMMA OneResult ==
  ASSUME NEW M, NEW q \in Seq(M), Len(q) <= 1, q # <<>>
  PROVE  Tail(q) = <<>> /\ Head(q) \in M /\ q = <<Head(q)>>
<1>1. Len(q) \in Nat /\ Len(q) # 0
  BY LenProperties, EmptySeq
<1>2. \A x \in Nat : x # 0 /\ x <= 1 => x = 1
  OBVIOUS
<1>3. Len(q) = 1
  BY <1>1, <1>2, Zenon
<1>4. Head(q) \in M /\ Tail(q) \in Seq(M) /\ Len(Tail(q)) = Len(q) - 1 /\ Head(q) = q[1]
  BY HeadTailProperties
<1>5. Len(Tail(q)) = 0
  BY <1>3, <1>4
<1>6. Tail(q) = <<>>
  BY <1>4, <1>5, EmptySeq
<1>7. q = <<Head(q)>>
  <2>1. <<Head(q)>> \in Seq(M) /\ Len(<<Head(q)>>) = 1 /\ <<Head(q)>>[1] = Head(q)
    BY <1>4
  <2>2. \A i \in 1 .. 1 : q[i] = <<Head(q)>>[i]
    BY <1>4, <2>1
  <2> QED
    BY <1>3, <2>1, <2>2, SeqEqual
<1> QED
  BY <1>4, <1>6, <1>7

-----------------------------------------------------------------------------
(* Counting. *)

(* One more. *)
LEMMA CountAdd ==
  ASSUME NEW S, IsFiniteSet(S), NEW a, a \notin S
  PROVE  IsFiniteSet(S \cup {a}) /\ Cardinality(S \cup {a}) = Cardinality(S) + 1 /\ Cardinality(S) \in Nat
  BY FS_AddElement, FS_CardinalityType

(* One less. *)
LEMMA CountRemove ==
  ASSUME NEW S, IsFiniteSet(S), NEW a, a \in S
  PROVE  /\ IsFiniteSet(S \ {a}) /\ Cardinality(S \ {a}) = Cardinality(S) - 1
         /\ Cardinality(S) \in Nat /\ Cardinality(S) >= 1
<1>1. IsFiniteSet(S \ {a}) /\ Cardinality(S \ {a}) = Cardinality(S) - 1
  BY FS_RemoveElement
<1>2. Cardinality(S) \in Nat /\ Cardinality(S \ {a}) \in Nat
  BY <1>1, FS_CardinalityType
<1> QED
  BY <1>1, <1>2

-----------------------------------------------------------------------------
(* The registries. *)

Registries(c, r, p, u, f) ==
  [created |-> c, refcnt |-> r, process |-> p, runrefcnt |-> u, fstreamid |-> f]

(* One count of a registry is replaced. *)
Put(r, s, v)     == [r EXCEPT ![s] = v]
Put2(f, a, s, v) == [f EXCEPT ![a][s] = v]

(* A record of registries. *)
IsReg(x) == x = Registries(x.created, x.refcnt, x.process, x.runrefcnt, x.fstreamid)

(* The fields of one. *)
LEMMA FieldsOf ==
  ASSUME NEW c, NEW r, NEW p, NEW u, NEW f, NEW x, x = Registries(c, r, p, u, f)
  PROVE  /\ IsReg(x) /\ x.created = c /\ x.refcnt = r /\ x.process = p /\ x.runrefcnt = u
         /\ x.fstreamid = f
<1>1. x.created = c /\ x.refcnt = r /\ x.process = p /\ x.runrefcnt = u /\ x.fstreamid = f
  BY DEF Registries
<1> QED
  BY <1>1 DEF IsReg

(* ftaexec_alloc_instance counts a reference. *)
LEMMA AllocIs ==
  ASSUME NEW x, IsReg(x), NEW s
  PROVE  LET y == AllocInstance(x, s) IN
         /\ IsReg(y) /\ y.created = x.created \cup {s}
         /\ y.refcnt = Put(x.refcnt, s, IF s \in x.created THEN x.refcnt[s] + 1 ELSE 1)
         /\ y.process = x.process /\ y.runrefcnt = x.runrefcnt /\ y.fstreamid = x.fstreamid
<1> DEFINE nc == x.created \cup {s}
           nr == Put(x.refcnt, s, IF s \in x.created THEN x.refcnt[s] + 1 ELSE 1)
<1>1. AllocInstance(x, s) = [x EXCEPT !.created = nc, !.refcnt = nr]
  BY DEF AllocInstance, Put
<1> HIDE DEF nc, nr
<1>2. AllocInstance(x, s) = Registries(nc, nr, x.process, x.runrefcnt, x.fstreamid)
  BY <1>1 DEF IsReg, Registries
<1> QED
  BY <1>2, FieldsOf DEF nc, nr

(* ftaexec_insert runs it. *)
LEMMA InsertIs ==
  ASSUME NEW x, IsReg(x), NEW s
  PROVE  LET y == Insert(x, s) IN
         /\ IsReg(y) /\ y.created = x.created /\ y.refcnt = x.refcnt
         /\ y.process = x.process \cup {s} /\ y.runrefcnt = Put(x.runrefcnt, s, x.runrefcnt[s] + 1)
         /\ y.fstreamid = x.fstreamid
<1> DEFINE np == x.process \cup {s}
           nu == Put(x.runrefcnt, s, x.runrefcnt[s] + 1)
<1>1. Insert(x, s) = [x EXCEPT !.process = np, !.runrefcnt = nu]
  BY DEF Insert, Put
<1> HIDE DEF np, nu
<1>2. Insert(x, s) = Registries(x.created, x.refcnt, np, nu, x.fstreamid)
  BY <1>1 DEF IsReg, Registries
<1> QED
  BY <1>2, FieldsOf DEF np, nu

(* ftaexec_remove stops it for one subscriber. *)
LEMMA RemoveIs ==
  ASSUME NEW x, IsReg(x), NEW s
  PROVE  LET y == Remove(x, s) IN
         /\ IsReg(y) /\ y.created = x.created /\ y.refcnt = x.refcnt /\ y.fstreamid = x.fstreamid
         /\ s \notin x.process => y.process = x.process /\ y.runrefcnt = x.runrefcnt
         /\ s \in x.process => /\ y.process = IF x.runrefcnt[s] <= 1 THEN x.process \ {s} ELSE x.process
                              /\ y.runrefcnt = Put(x.runrefcnt, s, x.runrefcnt[s] - 1)
<1> DEFINE np == IF x.runrefcnt[s] <= 1 THEN x.process \ {s} ELSE x.process
           nu == Put(x.runrefcnt, s, x.runrefcnt[s] - 1)
<1>1. CASE s \in x.process
  <2>1. Remove(x, s) = [x EXCEPT !.runrefcnt = nu, !.process = np]
    BY <1>1 DEF Remove, Put
  <2> HIDE DEF np, nu
  <2>2. Remove(x, s) = Registries(x.created, x.refcnt, np, nu, x.fstreamid)
    BY <2>1 DEF IsReg, Registries
  <2> QED
    BY <1>1, <2>2, FieldsOf DEF np, nu
<1>2. CASE s \notin x.process
  BY <1>2 DEF Remove
<1> QED
  BY <1>1, <1>2

(* ftacallback_add_streamid maps a ring buffer. *)
LEMMA AddIs ==
  ASSUME NEW x, IsReg(x), NEW a, NEW s
  PROVE  LET y == AddStreamid(x, a, s) IN
         /\ IsReg(y) /\ y.created = x.created /\ y.refcnt = x.refcnt
         /\ y.process = x.process /\ y.runrefcnt = x.runrefcnt
         /\ y.fstreamid = Put2(x.fstreamid, a, s, x.fstreamid[a][s] + 1)
<1> DEFINE nf == Put2(x.fstreamid, a, s, x.fstreamid[a][s] + 1)
<1>1. AddStreamid(x, a, s) = [x EXCEPT !.fstreamid = nf]
  BY DEF AddStreamid, Put2
<1> HIDE DEF nf
<1>2. AddStreamid(x, a, s) = Registries(x.created, x.refcnt, x.process, x.runrefcnt, nf)
  BY <1>1 DEF IsReg, Registries
<1> QED
  BY <1>2, FieldsOf DEF nf

(* ftacallback_rm_streamid takes it off. *)
LEMMA RmIs ==
  ASSUME NEW x, IsReg(x), NEW a, NEW s
  PROVE  LET y == RmStreamid(x, a, s) IN
         /\ IsReg(y) /\ y.created = x.created /\ y.refcnt = x.refcnt
         /\ y.process = x.process /\ y.runrefcnt = x.runrefcnt
         /\ y.fstreamid = Put2(x.fstreamid, a, s, IF x.fstreamid[a][s] > 0 THEN x.fstreamid[a][s] - 1 ELSE 0)
<1> DEFINE nf == Put2(x.fstreamid, a, s, IF x.fstreamid[a][s] > 0 THEN x.fstreamid[a][s] - 1 ELSE 0)
<1>1. RmStreamid(x, a, s) = [x EXCEPT !.fstreamid = nf]
  BY DEF RmStreamid, Put2
<1> HIDE DEF nf
<1>2. RmStreamid(x, a, s) = Registries(x.created, x.refcnt, x.process, x.runrefcnt, nf)
  BY <1>1 DEF IsReg, Registries
<1> QED
  BY <1>2, FieldsOf DEF nf

(* ftaexec_free_instance drops a reference, and the instance with the last. *)
LEMMA FreeIs ==
  ASSUME NEW x, IsReg(x), NEW s
  PROVE  LET y == FreeInstance(x, s) IN
         /\ IsReg(y) /\ y.created = IF x.refcnt[s] = 1 THEN x.created \ {s} ELSE x.created
         /\ y.refcnt = Put(x.refcnt, s, x.refcnt[s] - 1)
         /\ y.process = IF x.refcnt[s] = 1 THEN x.process \ {s} ELSE x.process
         /\ y.runrefcnt = x.runrefcnt /\ y.fstreamid = x.fstreamid
<1> DEFINE nc == IF x.refcnt[s] = 1 THEN x.created \ {s} ELSE x.created
           nr == Put(x.refcnt, s, x.refcnt[s] - 1)
           np == IF x.refcnt[s] = 1 THEN x.process \ {s} ELSE x.process
<1>1. FreeInstance(x, s) = [x EXCEPT !.refcnt = nr, !.created = nc, !.process = np]
  BY DEF FreeInstance, Put
<1> HIDE DEF nc, nr, np
<1>2. FreeInstance(x, s) = Registries(nc, nr, np, x.runrefcnt, x.fstreamid)
  BY <1>1 DEF IsReg, Registries
<1> QED
  BY <1>2, FieldsOf DEF nc, nr, np

(* The registries before a step. *)
LEMMA ExecIs ==
  /\ IsReg(Exec) /\ Exec.created = created /\ Exec.refcnt = refcnt /\ Exec.process = process
  /\ Exec.runrefcnt = runrefcnt /\ Exec.fstreamid = fstreamid
  BY DEF Exec, IsReg, Registries

(* The references and the subscribers of an instance, counted by a step. *)
Counts(s, r, u) ==
  /\ refcnt'[s] = r /\ runrefcnt'[s] = u
  /\ \A t \in Stream \ {s} : refcnt'[t] = refcnt[t] /\ runrefcnt'[t] = runrefcnt[t]

(* An instance that runs has one subscriber less, others none. *)
OneLess(s) == IF s \in process THEN runrefcnt[s] - 1 ELSE runrefcnt[s]

(* Registries that count like that. *)
LEMMA CountsKeep ==
  ASSUME RegistriesOK, NEW s \in Stream, NEW r \in Nat, NEW u \in Nat, u <= r,
         refcnt' = Put(refcnt, s, r), runrefcnt' = Put(runrefcnt, s, u),
         created' \subseteq Stream, process' \subseteq Stream,
         \A t \in Stream \ {s} : (t \in created' <=> t \in created) /\ (t \in process' <=> t \in process),
         s \in created' <=> r > 0, s \in process' <=> u > 0,
         fstreamid' \in [App -> [Stream -> Nat]]
  PROVE  RegistriesOK' /\ Counts(s, r, u)
<1>1. /\ refcnt' \in [Stream -> Nat] /\ runrefcnt' \in [Stream -> Nat]
      /\ refcnt'[s] = r /\ runrefcnt'[s] = u
      /\ \A t \in Stream \ {s} : refcnt'[t] = refcnt[t] /\ runrefcnt'[t] = runrefcnt[t]
  BY DEF RegistriesOK, Put
<1> QED
  BY <1>1 DEF RegistriesOK, Counts

(* The registries' facts about one instance. *)
LEMMA InstanceFacts ==
  ASSUME RegistriesOK, NEW s \in Stream
  PROVE  /\ refcnt[s] \in Nat /\ runrefcnt[s] \in Nat /\ runrefcnt[s] <= refcnt[s]
         /\ (s \in created <=> refcnt[s] > 0) /\ (s \in process <=> runrefcnt[s] > 0)
         /\ created \subseteq Stream /\ process \subseteq Stream
         /\ fstreamid \in [App -> [Stream -> Nat]]
  BY DEF RegistriesOK

(* Counts that stay, and a new instance's first reference. *)
LEMMA PutFacts ==
  ASSUME RegistriesOK, NEW s \in Stream
  PROVE  /\ runrefcnt = Put(runrefcnt, s, runrefcnt[s]) /\ refcnt = Put(refcnt, s, refcnt[s])
         /\ (IF s \in created THEN refcnt[s] + 1 ELSE 1) = refcnt[s] + 1
<1>1. refcnt \in [Stream -> Nat] /\ runrefcnt \in [Stream -> Nat]
  BY DEF RegistriesOK
<1>2. refcnt[s] \in Nat /\ (s \in created <=> refcnt[s] > 0)
  BY DEF RegistriesOK
<1>3. runrefcnt = Put(runrefcnt, s, runrefcnt[s]) /\ refcnt = Put(refcnt, s, refcnt[s])
  BY <1>1 DEF Put
<1>4. (IF s \in created THEN refcnt[s] + 1 ELSE 1) = refcnt[s] + 1
  BY <1>2
<1> QED
  BY <1>3, <1>4

(* FTA_ALLOC_INSTANCE, up to the registration. *)
LEMMA InsertEffect ==
  ASSUME RegistriesOK, NEW s \in Stream, NEW a \in App,
         SetExec(Insert(AddStreamid(AllocInstance(Exec, s), a, s), s))
  PROVE  /\ RegistriesOK' /\ Counts(s, refcnt[s] + 1, runrefcnt[s] + 1)
         /\ \A b \in App, t \in Stream : fstreamid[b][t] > 0 => fstreamid'[b][t] > 0
         /\ fstreamid'[a][s] > 0
<1> DEFINE f == Put2(fstreamid, a, s, fstreamid[a][s] + 1)
           x == AllocInstance(Exec, s)
           y == AddStreamid(x, a, s)
           z == Insert(y, s)
<1>1. /\ IsReg(x) /\ x.created = created \cup {s} /\ x.refcnt = Put(refcnt, s, refcnt[s] + 1)
      /\ x.process = process /\ x.runrefcnt = runrefcnt /\ x.fstreamid = fstreamid
  BY ExecIs, AllocIs, PutFacts
<1> HIDE DEF x
<1>2. /\ IsReg(y) /\ y.created = x.created /\ y.refcnt = x.refcnt
      /\ y.process = process /\ y.runrefcnt = runrefcnt /\ y.fstreamid = f
  BY <1>1, AddIs
<1> HIDE DEF y
<1>3. /\ z.created = x.created /\ z.refcnt = x.refcnt /\ z.process = process \cup {s}
      /\ z.runrefcnt = Put(runrefcnt, s, runrefcnt[s] + 1) /\ z.fstreamid = f
  BY <1>2, InsertIs
<1> HIDE DEF z
<1>4. SetExec(z)
  BY DEF z, y, x
<1> HIDE DEF f
<1>5. /\ created' = created \cup {s} /\ refcnt' = Put(refcnt, s, refcnt[s] + 1)
      /\ process' = process \cup {s} /\ runrefcnt' = Put(runrefcnt, s, runrefcnt[s] + 1)
      /\ fstreamid' = f
  BY <1>1, <1>3, <1>4 DEF SetExec
<1>6. /\ f \in [App -> [Stream -> Nat]]
      /\ \A b \in App, t \in Stream : /\ fstreamid[b][t] \in Nat
                                      /\ f[b][t] = IF b = a /\ t = s THEN fstreamid[b][t] + 1 ELSE fstreamid[b][t]
  BY DEF RegistriesOK, f, Put2
<1>7. RegistriesOK' /\ Counts(s, refcnt[s] + 1, runrefcnt[s] + 1)
  <2>1. /\ refcnt[s] + 1 \in Nat /\ runrefcnt[s] + 1 \in Nat /\ runrefcnt[s] + 1 <= refcnt[s] + 1
        /\ refcnt[s] + 1 > 0 /\ runrefcnt[s] + 1 > 0 /\ created \subseteq Stream /\ process \subseteq Stream
    BY InstanceFacts
  <2> QED
    BY <1>5, <1>6, <2>1, CountsKeep
<1>8. fstreamid'[a][s] > 0 /\ \A b \in App, t \in Stream : fstreamid[b][t] > 0 => fstreamid'[b][t] > 0
  BY <1>5, <1>6
<1> QED
  BY <1>7, <1>8

(* FTA_ALLOC_PRINT_INSTANCE, up to the registration. *)
LEMMA InsertPrintEffect ==
  ASSUME RegistriesOK, NEW s \in Stream, SetExec(Insert(AllocInstance(Exec, s), s))
  PROVE  /\ RegistriesOK' /\ Counts(s, refcnt[s] + 1, runrefcnt[s] + 1)
         /\ fstreamid' = fstreamid
<1> DEFINE x == AllocInstance(Exec, s)
           z == Insert(x, s)
<1>1. /\ IsReg(x) /\ x.created = created \cup {s} /\ x.refcnt = Put(refcnt, s, refcnt[s] + 1)
      /\ x.process = process /\ x.runrefcnt = runrefcnt /\ x.fstreamid = fstreamid
  BY ExecIs, AllocIs, PutFacts
<1> HIDE DEF x
<1>2. /\ z.created = x.created /\ z.refcnt = x.refcnt /\ z.process = process \cup {s}
      /\ z.runrefcnt = Put(runrefcnt, s, runrefcnt[s] + 1) /\ z.fstreamid = fstreamid
  BY <1>1, InsertIs
<1> HIDE DEF z
<1>3. SetExec(z)
  BY DEF z, x
<1>4. /\ created' = created \cup {s} /\ refcnt' = Put(refcnt, s, refcnt[s] + 1)
      /\ process' = process \cup {s} /\ runrefcnt' = Put(runrefcnt, s, runrefcnt[s] + 1)
      /\ fstreamid' = fstreamid
  BY <1>1, <1>2, <1>3 DEF SetExec
<1>5. /\ refcnt[s] + 1 \in Nat /\ runrefcnt[s] + 1 \in Nat /\ runrefcnt[s] + 1 <= refcnt[s] + 1
      /\ refcnt[s] + 1 > 0 /\ runrefcnt[s] + 1 > 0 /\ created \subseteq Stream /\ process \subseteq Stream
      /\ fstreamid \in [App -> [Stream -> Nat]]
  BY InstanceFacts
<1> QED
  BY <1>4, <1>5, CountsKeep

(* One subscriber less, in numbers. *)
LEMMA OneLessFacts ==
  ASSUME RegistriesOK, NEW s \in Stream
  PROVE  /\ OneLess(s) \in Nat /\ OneLess(s) <= runrefcnt[s] /\ OneLess(s) <= refcnt[s]
         /\ refcnt[s] > 0 => OneLess(s) <= refcnt[s] - 1
         /\ OneLess(s) >= runrefcnt[s] - 1
         /\ runrefcnt[s] > 0 => OneLess(s) = runrefcnt[s] - 1
  BY InstanceFacts DEF OneLess

(* ftaexec_remove of registries that have these subscribers. *)
LEMMA RemoveFacts ==
  ASSUME RegistriesOK, NEW s \in Stream,
         NEW x, IsReg(x), x.process = process, x.runrefcnt = runrefcnt
  PROVE  LET y == Remove(x, s) IN
         /\ IsReg(y) /\ y.created = x.created /\ y.refcnt = x.refcnt /\ y.fstreamid = x.fstreamid
         /\ y.runrefcnt = Put(runrefcnt, s, OneLess(s)) /\ y.process \subseteq Stream
         /\ (s \in y.process <=> OneLess(s) > 0)
         /\ \A t \in Stream \ {s} : t \in y.process <=> t \in process
<1> DEFINE y == Remove(x, s)
<1>1. IsReg(y) /\ y.created = x.created /\ y.refcnt = x.refcnt /\ y.fstreamid = x.fstreamid
  BY RemoveIs
<1>2. CASE s \in process
  <2>1. /\ y.process = IF runrefcnt[s] <= 1 THEN process \ {s} ELSE process
        /\ y.runrefcnt = Put(runrefcnt, s, runrefcnt[s] - 1)
    BY <1>2, RemoveIs
  <2> HIDE DEF y
  <2>2. OneLess(s) = runrefcnt[s] - 1
    BY <1>2 DEF OneLess
  <2>3. runrefcnt[s] <= 1 <=> ~(runrefcnt[s] - 1 > 0)
    BY <1>2, InstanceFacts
  <2> QED
    BY <1>1, <1>2, <2>1, <2>2, <2>3, InstanceFacts DEF y
<1>3. CASE s \notin process
  <2>1. y.process = process /\ y.runrefcnt = runrefcnt
    BY <1>3, RemoveIs
  <2> HIDE DEF y
  <2>2. OneLess(s) = runrefcnt[s]
    BY <1>3 DEF OneLess
  <2> QED
    BY <1>1, <1>3, <2>1, <2>2, InstanceFacts, PutFacts DEF y
<1> QED
  BY <1>2, <1>3

(* ftaexec_remove by itself. *)
LEMMA RemoveEffect ==
  ASSUME RegistriesOK, NEW s \in Stream, SetExec(Remove(Exec, s))
  PROVE  RegistriesOK' /\ Counts(s, refcnt[s], OneLess(s)) /\ fstreamid' = fstreamid
<1> DEFINE y == Remove(Exec, s)
<1>1. /\ y.created = created /\ y.refcnt = refcnt /\ y.fstreamid = fstreamid
      /\ y.runrefcnt = Put(runrefcnt, s, OneLess(s)) /\ y.process \subseteq Stream
      /\ (s \in y.process <=> OneLess(s) > 0)
      /\ \A t \in Stream \ {s} : t \in y.process <=> t \in process
  BY ExecIs, RemoveFacts
<1> HIDE DEF y
<1>2. /\ created' = created /\ refcnt' = refcnt /\ fstreamid' = fstreamid
      /\ runrefcnt' = y.runrefcnt /\ process' = y.process
  BY <1>1 DEF SetExec, y
<1> QED
  BY <1>1, <1>2, OneLessFacts, InstanceFacts, PutFacts, CountsKeep

(* FTA_ALLOC_INSTANCE of a caller without shared memory. *)
LEMMA RefuseEffect ==
  ASSUME RegistriesOK, NEW s \in Stream, SetExec(Remove(AllocInstance(Exec, s), s))
  PROVE  RegistriesOK' /\ Counts(s, refcnt[s] + 1, OneLess(s)) /\ fstreamid' = fstreamid
<1> DEFINE x == AllocInstance(Exec, s)
           y == Remove(x, s)
<1>1. /\ IsReg(x) /\ x.created = created \cup {s} /\ x.refcnt = Put(refcnt, s, refcnt[s] + 1)
      /\ x.process = process /\ x.runrefcnt = runrefcnt /\ x.fstreamid = fstreamid
  BY ExecIs, AllocIs, PutFacts
<1> HIDE DEF x
<1>2. /\ y.created = x.created /\ y.refcnt = x.refcnt /\ y.fstreamid = x.fstreamid
      /\ y.runrefcnt = Put(runrefcnt, s, OneLess(s)) /\ y.process \subseteq Stream
      /\ (s \in y.process <=> OneLess(s) > 0)
      /\ \A t \in Stream \ {s} : t \in y.process <=> t \in process
  BY <1>1, RemoveFacts
<1> HIDE DEF y
<1>3. SetExec(y)
  BY DEF x, y
<1>4. /\ created' = created \cup {s} /\ refcnt' = Put(refcnt, s, refcnt[s] + 1)
      /\ fstreamid' = fstreamid /\ runrefcnt' = y.runrefcnt /\ process' = y.process
  BY <1>1, <1>2, <1>3 DEF SetExec
<1>5. /\ refcnt[s] + 1 \in Nat /\ refcnt[s] + 1 > 0 /\ OneLess(s) \in Nat /\ OneLess(s) <= refcnt[s] + 1
      /\ created \subseteq Stream /\ fstreamid \in [App -> [Stream -> Nat]]
  BY OneLessFacts, InstanceFacts
<1> QED
  BY <1>2, <1>4, <1>5, CountsKeep

(* ftaexec_free_instance after ftaexec_remove, whatever becomes of the mappings. *)
LEMMA FreeEffect ==
  ASSUME RegistriesOK, NEW s \in Stream, refcnt[s] > 0,
         NEW x, x = Remove(Exec, s), NEW f \in [App -> [Stream -> Nat]],
         NEW y, IsReg(y), y.created = x.created, y.refcnt = x.refcnt, y.process = x.process,
         y.runrefcnt = x.runrefcnt, y.fstreamid = f, SetExec(FreeInstance(y, s))
  PROVE  RegistriesOK' /\ Counts(s, refcnt[s] - 1, OneLess(s)) /\ fstreamid' = f
<1> DEFINE z == FreeInstance(y, s)
<1>1. /\ IsReg(x) /\ x.created = created /\ x.refcnt = refcnt
      /\ x.runrefcnt = Put(runrefcnt, s, OneLess(s)) /\ x.process \subseteq Stream
      /\ (s \in x.process <=> OneLess(s) > 0)
      /\ \A t \in Stream \ {s} : t \in x.process <=> t \in process
  BY ExecIs, RemoveFacts
<1>2. /\ z.created = (IF refcnt[s] = 1 THEN created \ {s} ELSE created)
      /\ z.refcnt = Put(refcnt, s, refcnt[s] - 1)
      /\ z.process = (IF refcnt[s] = 1 THEN x.process \ {s} ELSE x.process)
      /\ z.runrefcnt = x.runrefcnt /\ z.fstreamid = f
  <2>1. /\ z.created = IF y.refcnt[s] = 1 THEN y.created \ {s} ELSE y.created
        /\ z.refcnt = Put(y.refcnt, s, y.refcnt[s] - 1)
        /\ z.process = IF y.refcnt[s] = 1 THEN y.process \ {s} ELSE y.process
        /\ z.runrefcnt = y.runrefcnt /\ z.fstreamid = y.fstreamid
    BY FreeIs
  <2> HIDE DEF z
  <2> QED
    BY <1>1, <2>1
<1>3. SetExec(z)
  OBVIOUS
<1> HIDE DEF z
<1>4. /\ created' = z.created /\ refcnt' = z.refcnt /\ process' = z.process
      /\ runrefcnt' = x.runrefcnt /\ fstreamid' = f
  BY <1>2, <1>3 DEF SetExec
<1>5. /\ refcnt[s] - 1 \in Nat /\ OneLess(s) \in Nat /\ OneLess(s) <= refcnt[s] - 1
      /\ (refcnt[s] = 1 <=> ~(refcnt[s] - 1 > 0)) /\ (refcnt[s] = 1 => ~(OneLess(s) > 0))
      /\ created \subseteq Stream /\ s \in created
  BY OneLessFacts, InstanceFacts
<1>6. /\ created' \subseteq Stream /\ process' \subseteq Stream
      /\ (s \in created' <=> refcnt[s] - 1 > 0) /\ (s \in process' <=> OneLess(s) > 0)
      /\ \A t \in Stream \ {s} : (t \in created' <=> t \in created) /\ (t \in process' <=> t \in process)
  BY <1>1, <1>2, <1>4, <1>5
<1> QED
  BY <1>1, <1>2, <1>4, <1>5, <1>6, CountsKeep

(* An instance is given up with a mapping: after a registration that failed, or
   by FTA_FREE_INSTANCE. *)
LEMMA GiveUpEffect ==
  ASSUME RegistriesOK, NEW s \in Stream, NEW a \in App, refcnt[s] > 0,
         SetExec(FreeInstance(RmStreamid(Remove(Exec, s), a, s), s))
  PROVE  /\ RegistriesOK' /\ Counts(s, refcnt[s] - 1, OneLess(s))
         /\ \A b \in App, t \in Stream : b # a \/ t # s => fstreamid'[b][t] = fstreamid[b][t]
<1> DEFINE f == Put2(fstreamid, a, s, IF fstreamid[a][s] > 0 THEN fstreamid[a][s] - 1 ELSE 0)
<1>1. PICK x : x = Remove(Exec, s)
  OBVIOUS
<1>2. PICK y : y = RmStreamid(x, a, s)
  OBVIOUS
<1>3. IsReg(x) /\ x.fstreamid = fstreamid
  BY <1>1, ExecIs, RemoveFacts
<1>4. /\ IsReg(y) /\ y.created = x.created /\ y.refcnt = x.refcnt /\ y.process = x.process
      /\ y.runrefcnt = x.runrefcnt /\ y.fstreamid = f
  BY <1>2, <1>3, RmIs
<1>5. SetExec(FreeInstance(y, s))
  BY <1>1, <1>2
<1> HIDE DEF f
<1>6. /\ f \in [App -> [Stream -> Nat]]
      /\ \A b \in App, t \in Stream : b # a \/ t # s => f[b][t] = fstreamid[b][t]
  <2>1. fstreamid \in [App -> [Stream -> Nat]] /\ fstreamid[a][s] \in Nat
    BY DEF RegistriesOK
  <2>2. (IF fstreamid[a][s] > 0 THEN fstreamid[a][s] - 1 ELSE 0) \in Nat
    BY <2>1
  <2> QED
    BY <2>1, <2>2 DEF f, Put2
<1>7. RegistriesOK' /\ Counts(s, refcnt[s] - 1, OneLess(s)) /\ fstreamid' = f
  BY <1>1, <1>4, <1>5, <1>6, FreeEffect
<1> QED
  BY <1>6, <1>7

(* ... and without one: an instance that was to print. *)
LEMMA GiveUpPrinting ==
  ASSUME RegistriesOK, NEW s \in Stream, refcnt[s] > 0, SetExec(FreeInstance(Remove(Exec, s), s))
  PROVE  RegistriesOK' /\ Counts(s, refcnt[s] - 1, OneLess(s)) /\ fstreamid' = fstreamid
<1>1. PICK x : x = Remove(Exec, s)
  OBVIOUS
<1>2. IsReg(x) /\ x.fstreamid = fstreamid
  BY <1>1, ExecIs, RemoveFacts
<1>3. SetExec(FreeInstance(x, s)) /\ fstreamid \in [App -> [Stream -> Nat]]
  BY <1>1 DEF RegistriesOK
<1> QED
  BY <1>1, <1>2, <1>3, FreeEffect

-----------------------------------------------------------------------------
(* Calls and results. *)

(* The result that a caller waits for is taken. *)
LEMMA TakeFacts ==
  ASSUME TypesOK, NEW a \in App, Len(result[a]) <= 1, Take(a)
  PROVE  /\ result[a] # <<>> /\ Head(result[a]) \in Results /\ result[a] = <<Head(result[a])>>
         /\ result'[a] = <<>> /\ \A b \in (App \cup {"rts"}) \ {a} : result'[b] = result[b]
         /\ result' \in [App \cup {"rts"} -> Seq(Results)]
<1>1. result \in [App \cup {"rts"} -> Seq(Results)]
  BY DEF TypesOK
<1>2. result[a] # <<>> /\ result' = [result EXCEPT ![a] = Tail(result[a])]
  BY DEF Take
<1>3. result[a] \in Seq(Results)
  BY <1>1
<1>4. Tail(result[a]) = <<>> /\ Head(result[a]) \in Results /\ result[a] = <<Head(result[a])>>
  BY <1>1, <1>2, <1>3, OneResult
<1>5. result' = [result EXCEPT ![a] = <<>>]
  BY <1>2, <1>4
<1> QED
  BY <1>1, <1>2, <1>4, <1>5

(* A caller that waits is answered. *)
LEMMA AnswerFacts ==
  ASSUME TypesOK, NEW a \in App \cup {"rts"}, result[a] = <<>>, NEW r \in Results, Answer(a, <<r>>)
  PROVE  /\ result'[a] = <<r>> /\ \A b \in (App \cup {"rts"}) \ {a} : result'[b] = result[b]
         /\ result' \in [App \cup {"rts"} -> Seq(Results)]
<1>1. result \in [App \cup {"rts"} -> Seq(Results)]
  BY DEF TypesOK
<1>2. result' = [result EXCEPT ![a] = result[a] \o <<r>>]
  BY DEF Answer
<1>3. <<r>> \in Seq(Results)
  OBVIOUS
<1>4. result[a] \o <<r>> = <<r>>
  BY <1>3, ConcatEmptySeq
<1>5. result' = [result EXCEPT ![a] = <<r>>]
  BY <1>2, <1>4
<1> QED
  BY <1>1, <1>3, <1>5

(* A call joins the inbox of process p. *)
LEMMA CallFacts ==
  ASSUME TypesOK, CallsOK, NEW p \in {"ch", "rts"}, NEW m \in Messages, ~Asked(p, m.from),
         inbox' = [inbox EXCEPT ![p] = Append(@, m)]
  PROVE  /\ inbox' \in [{"ch", "rts"} -> Seq(Messages)] /\ Once(inbox'[p])
         /\ Elems(inbox'[p]) = Elems(inbox[p]) \cup {m}
         /\ \A o \in {"ch", "rts"} \ {p} : inbox'[o] = inbox[o]
<1>1. inbox \in [{"ch", "rts"} -> Seq(Messages)] /\ Once(inbox[p])
  BY DEF TypesOK, CallsOK
<1>2. inbox[p] \in Seq(Messages)
  BY <1>1
<1>3. \A o \in Elems(inbox[p]) : o.from # m.from
  BY DEF Asked
<1> DEFINE u == Append(inbox[p], m)
<1>4. u \in Seq(Messages) /\ Elems(u) = Elems(inbox[p]) \cup {m} /\ Once(u)
  BY <1>1, <1>2, <1>3, ElemsAppend
<1>5. inbox' = [inbox EXCEPT ![p] = u]
  OBVIOUS
<1> HIDE DEF u
<1> QED
  BY <1>1, <1>4, <1>5

(* The first message of process p is served. *)
LEMMA ServeFacts ==
  ASSUME TypesOK, CallsOK, NEW p \in {"ch", "rts"}, inbox[p] # <<>>,
         inbox' = [inbox EXCEPT ![p] = Tail(@)]
  PROVE  /\ inbox' \in [{"ch", "rts"} -> Seq(Messages)] /\ Once(inbox'[p])
         /\ Head(inbox[p]) \in Elems(inbox[p]) /\ Head(inbox[p]) \in Messages
         /\ Elems(inbox'[p]) = Elems(inbox[p]) \ {Head(inbox[p])}
         /\ \A m \in Elems(inbox'[p]) : m.from # Head(inbox[p]).from
         /\ \A o \in {"ch", "rts"} \ {p} : inbox'[o] = inbox[o]
<1>1. inbox \in [{"ch", "rts"} -> Seq(Messages)] /\ Once(inbox[p])
  BY DEF TypesOK, CallsOK
<1>2. inbox[p] \in Seq(Messages)
  BY <1>1
<1> DEFINE u == Tail(inbox[p])
<1>3. /\ u \in Seq(Messages) /\ Once(u) /\ Head(inbox[p]) \in Elems(inbox[p])
      /\ Head(inbox[p]) \in Messages /\ Elems(u) = Elems(inbox[p]) \ {Head(inbox[p])}
      /\ \A m \in Elems(u) : m.from # Head(inbox[p]).from
  BY <1>1, <1>2, ElemsTail
<1>4. inbox' = [inbox EXCEPT ![p] = u]
  OBVIOUS
<1> HIDE DEF u
<1> QED
  BY <1>1, <1>3, <1>4

(* The places in which the call of an application can be exclude each other. *)
LEMMA CallerFacts ==
  ASSUME TypesOK, CallsOK, NEW a \in App
  PROVE  /\ Asked("ch", a) => pc[a] = "find" /\ result[a] = <<>>
         /\ Asked("rts", a) => /\ pc[a] \in {"alloc", "print", "free"} /\ result[a] = <<>>
                               /\ ~(busy # Idle /\ busy.from = a)
         /\ busy # Idle /\ busy.from = a => pc[a] \in {"alloc", "print", "free"} /\ result[a] = <<>>
<1>0. a # "rts"
  BY SubscriptionAssumption
<1>1. ASSUME Asked("ch", a) PROVE pc[a] = "find" /\ result[a] = <<>>
  <2>1. PICK m \in Elems(inbox["ch"]) : m.from = a
    BY <1>1 DEF Asked
  <2>2. ChOK(m)
    BY <2>1 DEF CallsOK
  <2> QED
    BY <1>0, <2>1, <2>2 DEF ChOK, Reports
<1>2. ASSUME Asked("rts", a)
      PROVE  pc[a] \in {"alloc", "print", "free"} /\ result[a] = <<>> /\ ~(busy # Idle /\ busy.from = a)
  <2>1. PICK m \in Elems(inbox["rts"]) : m.from = a
    BY <1>2 DEF Asked
  <2>2. RtsOK(m)
    BY <2>1 DEF CallsOK
  <2> QED
    BY <2>1, <2>2 DEF RtsOK, Orders, Allocating
<1>3. busy # Idle /\ busy.from = a => pc[a] \in {"alloc", "print", "free"} /\ result[a] = <<>>
  BY DEF CallsOK, Caller
<1> QED
  BY <1>1, <1>2, <1>3

(* The process asks the clearinghouse only while it waits for it. *)
LEMMA ReportFacts ==
  ASSUME TypesOK, CallsOK
  PROVE  Asked("ch", "rts") => busy # Idle /\ result["rts"] = <<>>
<1> SUFFICES ASSUME Asked("ch", "rts") PROVE busy # Idle /\ result["rts"] = <<>>
  OBVIOUS
<1>1. PICK m \in Elems(inbox["ch"]) : m.from = "rts"
  BY DEF Asked
<1>2. ChOK(m)
  BY <1>1 DEF CallsOK
<1> QED
  BY <1>1, <1>2, SubscriptionAssumption DEF ChOK, Requests

(* What the process is doing. *)
LEMMA WorkFacts ==
  ASSUME busy \in Work \cup {Idle}
  PROVE  /\ busy # Idle <=> busy.op \in {"register", "print", "unregister"}
         /\ busy # Idle => busy \in Work /\ busy.from \in App /\ busy.stream \in Stream /\ busy.reusable \in {0, 1}
         /\ busy = Idle => busy.op = "idle"
  BY DEF Work, Idle

(* Whether an application holds an instance, or hopes for one, depends on its
   own state alone. *)
LEMMA HoldsSame ==
  ASSUME NEW b \in App, pc'[b] = pc[b], sub'[b] = sub[b], result'[b] = result[b],
         Asked("rts", b)' <=> Asked("rts", b),
         busy.op \in {"register", "print"} /\ busy.from = b
           <=> busy'.op \in {"register", "print"} /\ busy'.from = b,
         busy.op \in {"register", "print"} /\ busy.from = b => busy'.stream = busy.stream
  PROVE  /\ \A s \in Stream : Holds(b, s)' <=> Holds(b, s)
         /\ (b \in Hoping)' <=> b \in Hoping
<1>1. \A s \in Stream : Holds(b, s)' <=> Holds(b, s)
  BY DEF Holds
<1>2. (b \in Hoping)' <=> b \in Hoping
  BY DEF Hoping
<1> QED
  BY <1>1, <1>2

(* The calls of the others stay what they are. *)
LEMMA OthersCalls ==
  ASSUME NEW a \in App, busy' = busy, result'["rts"] = result["rts"],
         \A b \in App \ {a} : pc'[b] = pc[b] /\ sub'[b] = sub[b] /\ result'[b] = result[b],
         NEW m, m.from # a
  PROVE  (ChOK(m) => ChOK(m)') /\ (RtsOK(m) => RtsOK(m)')
<1>1. ChOK(m) => ChOK(m)'
  <2>1. CASE m \in Requests
    BY <2>1 DEF ChOK, Requests
  <2>2. CASE m \in Reports
    BY <2>2, SubscriptionAssumption DEF ChOK, Reports, Requests
  <2> QED
    BY <2>1, <2>2 DEF ChOK
<1>2. RtsOK(m) => RtsOK(m)'
  BY DEF RtsOK, Orders
<1> QED
  BY <1>1, <1>2

(* The counts do not change with who holds what. *)
LEMMA CountsSame ==
  ASSUME CountsOK, \A b \in App, s \in Stream : Holds(b, s)' <=> Holds(b, s),
         \A b \in App : (b \in Hoping)' <=> b \in Hoping,
         refcnt' = refcnt, runrefcnt' = runrefcnt, fstreamid' = fstreamid, allocs' = allocs,
         astray' = astray, \A b \in App, s \in Stream : Holds(b, s)' /\ Prints(b) => Prints(b)'
  PROVE  CountsOK'
<1>1. Hoping' = Hoping
  BY DEF Hoping
<1>2. \A s \in Stream : Holders(s)' = Holders(s)
  BY DEF Holders
<1> QED
  BY <1>1, <1>2 DEF CountsOK

-----------------------------------------------------------------------------
(* The applications. *)

(* No call of application a is under way. *)
NoCall(a) == ~Asked("ch", a) /\ ~Asked("rts", a) /\ ~(busy # Idle /\ busy.from = a)

(* Only application a moves. *)
OnlyOf(a) ==
  /\ busy' = busy /\ astray' = astray /\ flookup' = flookup
  /\ UNCHANGED exec
  /\ \A b \in App \ {a} : pc'[b] = pc[b] /\ sub'[b] = sub[b] /\ result'[b] = result[b]
  /\ result'["rts"] = result["rts"]

(* An application makes a call. *)
LEMMA AppCalls ==
  ASSUME TypesOK, CallsOK, NEW a \in App, NoCall(a), OnlyOf(a),
         NEW p \in {"ch", "rts"}, NEW m \in Messages, m.from = a,
         inbox' = [inbox EXCEPT ![p] = Append(@, m)],
         p = "ch" => ChOK(m)', p = "rts" => RtsOK(m)'
  PROVE  /\ CallsOK' /\ inbox' \in [{"ch", "rts"} -> Seq(Messages)]
         /\ \A b \in App \ {a} : Asked("rts", b)' <=> Asked("rts", b)
         /\ Asked("rts", a)' <=> p = "rts"
<1>1. /\ inbox' \in [{"ch", "rts"} -> Seq(Messages)] /\ Once(inbox'[p])
      /\ Elems(inbox'[p]) = Elems(inbox[p]) \cup {m}
      /\ \A o \in {"ch", "rts"} \ {p} : inbox'[o] = inbox[o]
  BY CallFacts DEF NoCall
<1>2. /\ Elems(inbox'["ch"]) = IF p = "ch" THEN Elems(inbox["ch"]) \cup {m} ELSE Elems(inbox["ch"])
      /\ Elems(inbox'["rts"]) = IF p = "rts" THEN Elems(inbox["rts"]) \cup {m} ELSE Elems(inbox["rts"])
  BY <1>1
<1>3. Once(inbox'["ch"]) /\ Once(inbox'["rts"])
  BY <1>1 DEF CallsOK
<1>4. \A o \in Elems(inbox["ch"]) : ChOK(o)'
  <2> SUFFICES ASSUME NEW o \in Elems(inbox["ch"]) PROVE ChOK(o)'
    OBVIOUS
  <2>1. o.from # a /\ ChOK(o)
    BY DEF NoCall, Asked, CallsOK
  <2> QED
    BY <2>1, OthersCalls DEF OnlyOf
<1>5. \A o \in Elems(inbox["rts"]) : RtsOK(o)'
  <2> SUFFICES ASSUME NEW o \in Elems(inbox["rts"]) PROVE RtsOK(o)'
    OBVIOUS
  <2>1. o.from # a /\ RtsOK(o)
    BY DEF NoCall, Asked, CallsOK
  <2> QED
    BY <2>1, OthersCalls DEF OnlyOf
<1>6. (\A o \in Elems(inbox["ch"]) : ChOK(o))' /\ (\A o \in Elems(inbox["rts"]) : RtsOK(o))'
  BY <1>2, <1>4, <1>5
<1>7. (busy # Idle => result[busy.from] = <<>> /\ pc[busy.from] = Caller(busy.op))'
  <2>1. busy # Idle => busy.from \in App \ {a}
    BY WorkFacts DEF TypesOK, NoCall
  <2> QED
    BY <2>1 DEF CallsOK, OnlyOf, Idle, Caller
<1>8. CallsOK'
  BY <1>3, <1>6, <1>7 DEF CallsOK
<1>9. \A b \in App \ {a} : Asked("rts", b)' <=> Asked("rts", b)
  BY <1>2 DEF Asked
<1>10. Asked("rts", a)' <=> p = "rts"
  BY <1>2 DEF Asked, NoCall
<1> QED
  BY <1>1, <1>8, <1>9, <1>10

(* An application goes on without a call. *)
LEMMA AppGoesOn ==
  ASSUME TypesOK, CallsOK, NEW a \in App, NoCall(a), OnlyOf(a), inbox' = inbox
  PROVE  CallsOK' /\ \A b \in App : Asked("rts", b)' <=> Asked("rts", b)
<1>1. \A o \in Elems(inbox["ch"]) : ChOK(o)'
  <2> SUFFICES ASSUME NEW o \in Elems(inbox["ch"]) PROVE ChOK(o)'
    OBVIOUS
  <2>1. o.from # a /\ ChOK(o)
    BY DEF NoCall, Asked, CallsOK
  <2> QED
    BY <2>1, OthersCalls DEF OnlyOf
<1>2. \A o \in Elems(inbox["rts"]) : RtsOK(o)'
  <2> SUFFICES ASSUME NEW o \in Elems(inbox["rts"]) PROVE RtsOK(o)'
    OBVIOUS
  <2>1. o.from # a /\ RtsOK(o)
    BY DEF NoCall, Asked, CallsOK
  <2> QED
    BY <2>1, OthersCalls DEF OnlyOf
<1>3. (\A o \in Elems(inbox["ch"]) : ChOK(o))' /\ (\A o \in Elems(inbox["rts"]) : RtsOK(o))'
  BY <1>1, <1>2
<1>4. (busy # Idle => result[busy.from] = <<>> /\ pc[busy.from] = Caller(busy.op))'
  <2>1. busy # Idle => busy.from \in App \ {a}
    BY WorkFacts DEF TypesOK, NoCall
  <2> QED
    BY <2>1 DEF CallsOK, OnlyOf, Idle, Caller
<1>5. (Once(inbox["ch"]) /\ Once(inbox["rts"]))'
  BY DEF CallsOK
<1>6. CallsOK'
  BY <1>3, <1>4, <1>5 DEF CallsOK
<1>7. \A b \in App : Asked("rts", b)' <=> Asked("rts", b)
  BY DEF Asked
<1> QED
  BY <1>6, <1>7

(* The registries are left alone. *)
LEMMA AppLeaves ==
  ASSUME RegistriesOK, NEW a \in App, OnlyOf(a)
  PROVE  RegistriesOK'
  BY DEF OnlyOf, exec, RegistriesOK

(* Who holds what, and who hopes, when a's part does not change. *)
LEMMA AppCounts ==
  ASSUME CountsOK, NEW a \in App, OnlyOf(a),
         \A b \in App \ {a} : Asked("rts", b)' <=> Asked("rts", b),
         \A s \in Stream : Holds(a, s)' <=> Holds(a, s),
         (a \in Hoping)' <=> a \in Hoping, allocs' = allocs,
         \A s \in Stream : Holds(a, s)' /\ Prints(a) => Prints(a)'
  PROVE  CountsOK'
<1>1. ASSUME NEW b \in App, b # a
      PROVE  (\A s \in Stream : Holds(b, s)' <=> Holds(b, s)) /\ ((b \in Hoping)' <=> b \in Hoping)
  BY <1>1, HoldsSame DEF OnlyOf
<1>2. \A b \in App, s \in Stream : Holds(b, s)' <=> Holds(b, s)
  BY <1>1
<1>3. \A b \in App : (b \in Hoping)' <=> b \in Hoping
  BY <1>1
<1>4. refcnt' = refcnt /\ runrefcnt' = runrefcnt /\ fstreamid' = fstreamid /\ astray' = astray
  BY DEF OnlyOf, exec
<1>5. \A b \in App, s \in Stream : Holds(b, s)' /\ Prints(b) => Prints(b)'
  BY DEF OnlyOf, Prints
<1> QED
  BY <1>2, <1>3, <1>4, <1>5, CountsSame

(* The results of the others stay; a has none, or does not look at it any more. *)
LEMMA AppResults ==
  ASSUME ResultsOK, NEW a \in App, OnlyOf(a), result'[a] = <<>> \/ pc'[a] = "exited",
         pc'[a] \in {"subscribed", "printing", "free"} => sub'[a] \in Stream
  PROVE  ResultsOK'
<1>1. Len(<<>>) <= 1 /\ Idle' = Idle
  BY DEF Idle
<1>2. Len(result'["rts"]) <= 1 /\ (result'["rts"] # <<>> => busy' # Idle)
  BY DEF ResultsOK, OnlyOf
<1>3. ASSUME NEW b \in App
      PROVE  /\ Len(result'[b]) <= 1 \/ pc'[b] = "exited" \/ (pc'[b] = "print" /\ Head(result'[b]).result = -1)
             /\ result'[b] # <<>> =>
                  /\ pc'[b] \in {"find", "alloc", "free", "print", "exited"}
                  /\ pc'[b] \in {"alloc", "print"} /\ Head(result'[b]).result = 0 => Head(result'[b]).stream \in Stream
             /\ pc'[b] \in {"subscribed", "printing", "free"} => sub'[b] \in Stream
  <2>1. CASE b = a
    BY <1>1, <2>1
  <2>2. CASE b # a
    <3>1. pc'[b] = pc[b] /\ sub'[b] = sub[b] /\ result'[b] = result[b]
      BY <2>2 DEF OnlyOf
    <3> QED
      BY <3>1 DEF ResultsOK
  <2> QED
    BY <2>1, <2>2
<1> QED
  BY <1>1, <1>2, <1>3 DEF ResultsOK

(* An application that waits for nothing has made no call; one that has a result
   has no other call. *)
LEMMA AppWaits ==
  ASSUME TypesOK, CallsOK, ResultsOK, NEW a \in App,
         pc[a] \in {"idle", "subscribed"} \/ result[a] # <<>>
  PROVE  NoCall(a) /\ (pc[a] \in {"idle", "subscribed"} => result[a] = <<>>)
<1>1. NoCall(a)
  BY CallerFacts DEF NoCall
<1>2. pc[a] \in {"idle", "subscribed"} => result[a] = <<>>
  BY DEF ResultsOK
<1> QED
  BY <1>1, <1>2

(* fta_find *)
LEMMA FindInv ==
  ASSUME SubscriptionInv, NEW a \in App, NEW reuse \in {0, 1}, Find(a, reuse)
  PROVE  SubscriptionInv'
<1> USE SubscriptionInv DEF SubscriptionInv
<1> DEFINE m == [callid |-> "FTA_LOOKUP", from |-> a, stream |-> None, reusable |-> reuse]
<1>1. pc[a] = "idle" /\ allocs < MaxAllocs /\ allocs' = allocs + 1 /\ pc' = [pc EXCEPT ![a] = "find"]
      /\ inbox' = [inbox EXCEPT !["ch"] = Append(@, m)]
      /\ UNCHANGED <<result, flookup, exec, busy, sub, shm, astray>>
  BY DEF Find, Call
<1>2. NoCall(a) /\ result[a] = <<>>
  BY <1>1, AppWaits
<1>3. pc'[a] = "find" /\ pc' \in [App -> {"idle", "find", "alloc", "subscribed", "free", "print", "printing", "exited"}]
      /\ \A b \in App \ {a} : pc'[b] = pc[b]
  BY <1>1 DEF TypesOK
<1>4. OnlyOf(a)
  BY <1>1, <1>3, SubscriptionAssumption DEF OnlyOf
<1>5. m \in Requests /\ m \in Messages /\ m.from = a
  BY DEF Requests, Messages
<1> HIDE DEF m
<1>6. ChOK(m)'
  BY <1>1, <1>2, <1>3, <1>5 DEF ChOK
<1>7. /\ CallsOK' /\ inbox' \in [{"ch", "rts"} -> Seq(Messages)]
      /\ \A b \in App \ {a} : Asked("rts", b)' <=> Asked("rts", b)
      /\ Asked("rts", a)' <=> FALSE
  BY <1>1, <1>2, <1>4, <1>5, <1>6, AppCalls
<1>8. TypesOK'
  BY <1>1, <1>3, <1>7, SubscriptionAssumption DEF TypesOK, Idle
<1>9. ResultsOK'
  BY <1>1, <1>2, <1>3, <1>4, AppResults
<1>10. RegistriesOK'
  BY <1>4, AppLeaves
<1>11. CountsOK'
  <2>1. \A b \in App \ {a} : (\A s \in Stream : Holds(b, s)' <=> Holds(b, s)) /\ ((b \in Hoping)' <=> b \in Hoping)
    BY <1>4, <1>7, HoldsSame DEF OnlyOf
  <2>2. \A s \in Stream : ~Holds(a, s)' /\ ~Holds(a, s)
    BY <1>1, <1>3 DEF Holds
  <2>3. a \notin Hoping /\ (a \in Hoping)'
    BY <1>1, <1>3 DEF Hoping
  <2>4. \A s \in Stream : Holders(s)' = Holders(s)
    BY <2>1, <2>2 DEF Holders
  <2>5. Hoping' = Hoping \cup {a}
    BY <2>1, <2>3 DEF Hoping
  <2>6. IsFiniteSet(Hoping') /\ Cardinality(Hoping') = Cardinality(Hoping) + 1 /\ Cardinality(Hoping) \in Nat
    BY <2>3, <2>5, CountAdd DEF CountsOK
  <2>7. \A s \in Stream : refcnt[s] \in Nat
    BY InstanceFacts
  <2>8. refcnt' = refcnt /\ runrefcnt' = runrefcnt /\ fstreamid' = fstreamid /\ astray' = astray
    BY <1>1 DEF exec
  <2>9. \A s \in Stream : refcnt[s] + Cardinality(Hoping') <= allocs'
    BY <1>1, <2>6, <2>7 DEF CountsOK, TypesOK
  <2>10. ~astray' => \A b \in App, s \in Stream : Holds(b, s)' => Prints(b)' \/ fstreamid'[b][s] > 0
    BY <1>3, <2>1, <2>2, <2>8 DEF CountsOK, Prints
  <2> QED
    BY <2>4, <2>6, <2>8, <2>9, <2>10 DEF CountsOK
<1> QED
  BY <1>7, <1>8, <1>9, <1>10, <1>11

(* fta_alloc_instance *)
LEMMA AllocInv ==
  ASSUME SubscriptionInv, NEW a \in App, NEW reusable \in {0, 1}, NEW acked \in BOOLEAN,
         Alloc(a, reusable, acked)
  PROVE  SubscriptionInv'
<1> USE SubscriptionInv DEF SubscriptionInv
<1> DEFINE m == [callid |-> "FTA_ALLOC_INSTANCE", from |-> a, stream |-> Head(result[a]).stream,
                 reusable |-> reusable]
<1>1. pc[a] = "find" /\ Take(a) /\ pc' = [pc EXCEPT ![a] = "alloc"]
      /\ shm' = (IF acked THEN shm \cup {a} ELSE shm)
      /\ inbox' = [inbox EXCEPT !["rts"] = Append(@, m)]
      /\ UNCHANGED <<flookup, exec, busy, sub, allocs, astray>>
  BY DEF Alloc, Call
<1>0. Len(result[a]) <= 1
  BY <1>1 DEF ResultsOK
<1>2. /\ result[a] # <<>> /\ Head(result[a]) \in Results /\ result'[a] = <<>>
      /\ \A b \in (App \cup {"rts"}) \ {a} : result'[b] = result[b]
      /\ result' \in [App \cup {"rts"} -> Seq(Results)]
  BY <1>0, <1>1, TakeFacts
<1>3. NoCall(a)
  BY <1>2, AppWaits
<1>4. pc'[a] = "alloc" /\ pc' \in [App -> {"idle", "find", "alloc", "subscribed", "free", "print", "printing", "exited"}]
      /\ \A b \in App \ {a} : pc'[b] = pc[b]
  BY <1>1 DEF TypesOK
<1>5. OnlyOf(a)
  BY <1>1, <1>2, <1>4, SubscriptionAssumption DEF OnlyOf
<1>6. m \in Orders /\ m \in Messages /\ m.from = a /\ m.callid = "FTA_ALLOC_INSTANCE"
  BY <1>2 DEF Orders, Messages, Results, Allocating
<1>7. PICK n \in Messages : n = m
  BY <1>6
<1> HIDE DEF m
<1>8. RtsOK(n)'
  BY <1>1, <1>2, <1>3, <1>4, <1>6, <1>7 DEF RtsOK, NoCall, Idle
<1>9. /\ CallsOK' /\ inbox' \in [{"ch", "rts"} -> Seq(Messages)]
      /\ \A b \in App \ {a} : Asked("rts", b)' <=> Asked("rts", b)
      /\ Asked("rts", a)'
  BY <1>1, <1>3, <1>5, <1>6, <1>7, <1>8, AppCalls
<1>10. TypesOK'
  BY <1>1, <1>2, <1>4, <1>9, SubscriptionAssumption DEF TypesOK, Idle
<1>11. ResultsOK'
  BY <1>2, <1>4, <1>5, AppResults
<1>12. RegistriesOK'
  BY <1>5, AppLeaves
<1>13. CountsOK'
  <2>1. \A s \in Stream : ~Holds(a, s)' /\ ~Holds(a, s)
    BY <1>1, <1>2, <1>3, <1>4, WorkFacts DEF Holds, NoCall, TypesOK
  <2>2. a \in Hoping /\ (a \in Hoping)'
    BY <1>1, <1>4, <1>9 DEF Hoping
  <2> QED
    BY <1>1, <1>5, <1>9, <2>1, <2>2, AppCounts
<1> QED
  BY <1>9, <1>10, <1>11, <1>12, <1>13

(* fta_alloc_print_instance *)
LEMMA PrintInv ==
  ASSUME SubscriptionInv, NEW a \in App, NEW reusable \in {0, 1}, AllocPrint(a, reusable)
  PROVE  SubscriptionInv'
<1> USE SubscriptionInv DEF SubscriptionInv
<1> DEFINE m == [callid |-> "FTA_ALLOC_PRINT_INSTANCE", from |-> a, stream |-> Head(result[a]).stream,
                 reusable |-> reusable]
<1>1. pc[a] = "find" /\ Take(a) /\ pc' = [pc EXCEPT ![a] = "print"]
      /\ inbox' = [inbox EXCEPT !["rts"] = Append(@, m)]
      /\ UNCHANGED <<flookup, exec, busy, sub, shm, allocs, astray>>
  BY DEF AllocPrint, Call
<1>0. Len(result[a]) <= 1
  BY <1>1 DEF ResultsOK
<1>2. /\ result[a] # <<>> /\ Head(result[a]) \in Results /\ result'[a] = <<>>
      /\ \A b \in (App \cup {"rts"}) \ {a} : result'[b] = result[b]
      /\ result' \in [App \cup {"rts"} -> Seq(Results)]
  BY <1>0, <1>1, TakeFacts
<1>3. NoCall(a)
  BY <1>2, AppWaits
<1>4. pc'[a] = "print" /\ pc' \in [App -> {"idle", "find", "alloc", "subscribed", "free", "print", "printing", "exited"}]
      /\ \A b \in App \ {a} : pc'[b] = pc[b]
  BY <1>1 DEF TypesOK
<1>5. OnlyOf(a)
  BY <1>1, <1>2, <1>4, SubscriptionAssumption DEF OnlyOf
<1>6. m \in Orders /\ m \in Messages /\ m.from = a /\ m.callid = "FTA_ALLOC_PRINT_INSTANCE"
  BY <1>2 DEF Orders, Messages, Results, Allocating
<1>7. PICK n \in Messages : n = m
  BY <1>6
<1> HIDE DEF m
<1>8. RtsOK(n)'
  BY <1>1, <1>2, <1>3, <1>4, <1>6, <1>7 DEF RtsOK, NoCall, Idle
<1>9. /\ CallsOK' /\ inbox' \in [{"ch", "rts"} -> Seq(Messages)]
      /\ \A b \in App \ {a} : Asked("rts", b)' <=> Asked("rts", b)
      /\ Asked("rts", a)'
  BY <1>1, <1>3, <1>5, <1>6, <1>7, <1>8, AppCalls
<1>10. TypesOK'
  BY <1>1, <1>2, <1>4, <1>9, SubscriptionAssumption DEF TypesOK, Idle
<1>11. ResultsOK'
  BY <1>2, <1>4, <1>5, AppResults
<1>12. RegistriesOK'
  BY <1>5, AppLeaves
<1>13. CountsOK'
  <2>1. \A s \in Stream : ~Holds(a, s)' /\ ~Holds(a, s)
    BY <1>1, <1>2, <1>3, <1>4, WorkFacts DEF Holds, NoCall, TypesOK
  <2>2. a \in Hoping /\ (a \in Hoping)'
    BY <1>1, <1>4, <1>9 DEF Hoping
  <2> QED
    BY <1>1, <1>5, <1>9, <2>1, <2>2, AppCounts
<1> QED
  BY <1>9, <1>10, <1>11, <1>12, <1>13

(* Its result: the instance prints, or the application exits. *)
LEMMA PrintedInv ==
  ASSUME SubscriptionInv, NEW a \in App, Printed(a)
  PROVE  SubscriptionInv'
<1> USE SubscriptionInv DEF SubscriptionInv
<1>1. PICK r : r = Head(result[a])
  OBVIOUS
<1>2. pc[a] = "print" /\ Take(a)
      /\ pc' = [pc EXCEPT ![a] = IF r.result = 0 THEN "printing" ELSE "exited"]
      /\ sub' = [sub EXCEPT ![a] = IF r.result = 0 THEN r.stream ELSE None]
      /\ UNCHANGED <<inbox, flookup, exec, busy, shm, allocs, astray>>
  BY <1>1 DEF Printed
<1>3. /\ result[a] # <<>> /\ r \in Results /\ (r.result = 0 => result'[a] = <<>>)
      /\ \A b \in (App \cup {"rts"}) \ {a} : result'[b] = result[b]
      /\ result' \in [App \cup {"rts"} -> Seq(Results)]
  <2>1. result \in [App \cup {"rts"} -> Seq(Results)] /\ result[a] \in Seq(Results)
    BY DEF TypesOK
  <2>2. result[a] # <<>> /\ result' = [result EXCEPT ![a] = Tail(result[a])]
    BY <1>2 DEF Take
  <2>3. r \in Results /\ Tail(result[a]) \in Seq(Results)
    BY <1>1, <2>1, <2>2, HeadTailProperties
  <2>4. ASSUME r.result = 0 PROVE Tail(result[a]) = <<>>
    <3>1. Len(result[a]) <= 1
      BY <1>1, <1>2, <2>4 DEF ResultsOK
    <3> QED
      BY <2>1, <2>2, <3>1, OneResult
  <2> QED
    BY <2>1, <2>2, <2>3, <2>4
<1>4. NoCall(a)
  BY <1>3, AppWaits
<1>5. r.result = 0 => r.stream \in Stream
  BY <1>1, <1>2, <1>3 DEF ResultsOK
<1>6. /\ pc'[a] = (IF r.result = 0 THEN "printing" ELSE "exited")
      /\ sub'[a] = (IF r.result = 0 THEN r.stream ELSE None)
      /\ pc' \in [App -> {"idle", "find", "alloc", "subscribed", "free", "print", "printing", "exited"}]
      /\ sub' \in [App -> Stream \cup {None}]
      /\ \A b \in App \ {a} : pc'[b] = pc[b] /\ sub'[b] = sub[b]
  BY <1>2, <1>5 DEF TypesOK
<1>7. OnlyOf(a)
  BY <1>2, <1>3, <1>6, SubscriptionAssumption DEF OnlyOf
<1>8. CallsOK' /\ \A b \in App : Asked("rts", b)' <=> Asked("rts", b)
  BY <1>2, <1>4, <1>7, AppGoesOn
<1>9. TypesOK'
  BY <1>2, <1>3, <1>6 DEF TypesOK, Idle
<1>10. ResultsOK'
  BY <1>3, <1>5, <1>6, <1>7, AppResults
<1>11. RegistriesOK'
  BY <1>7, AppLeaves
<1>12. CountsOK'
  <2>1. r = Result(r.result, r.stream)
    BY <1>3 DEF Results, Result
  <2>2. \A s \in Stream : r = Result(0, s) <=> r.result = 0 /\ r.stream = s
    BY <1>3, <2>1 DEF Results, Result
  <2>3. ~(busy.op \in {"register", "print"} /\ busy.from = a)
    BY <1>4, WorkFacts DEF NoCall, TypesOK
  <2>4. \A s \in Stream : Holds(a, s) <=> r = Result(0, s)
    BY <1>1, <1>2, <1>3, <2>3 DEF Holds
  <2>5. \A s \in Stream : Holds(a, s)' <=> r.result = 0 /\ r.stream = s
    BY <1>6 DEF Holds
  <2>6. a \notin Hoping /\ ~(a \in Hoping)'
    BY <1>2, <1>4, <1>6 DEF Hoping, NoCall
  <2>7. r.result = 0 => Prints(a)'
    BY <1>6 DEF Prints
  <2> QED
    BY <1>2, <1>7, <1>8, <2>2, <2>4, <2>5, <2>6, <2>7, AppCounts
<1> QED
  BY <1>8, <1>9, <1>10, <1>11, <1>12

(* The result of fta_alloc_instance. *)
LEMMA AllocatedInv ==
  ASSUME SubscriptionInv, NEW a \in App, Allocated(a)
  PROVE  SubscriptionInv'
<1> USE SubscriptionInv DEF SubscriptionInv
<1>1. PICK r : r = Head(result[a])
  OBVIOUS
<1>2. pc[a] = "alloc" /\ Take(a)
      /\ pc' = [pc EXCEPT ![a] = IF r.result = 0 THEN "subscribed" ELSE "idle"]
      /\ sub' = [sub EXCEPT ![a] = IF r.result = 0 THEN r.stream ELSE None]
      /\ UNCHANGED <<inbox, flookup, exec, busy, shm, allocs, astray>>
  BY <1>1 DEF Allocated
<1>0. Len(result[a]) <= 1
  BY <1>2 DEF ResultsOK
<1>3. /\ result[a] # <<>> /\ r \in Results /\ result'[a] = <<>>
      /\ \A b \in (App \cup {"rts"}) \ {a} : result'[b] = result[b]
      /\ result' \in [App \cup {"rts"} -> Seq(Results)]
  BY <1>0, <1>1, <1>2, TakeFacts
<1>4. NoCall(a)
  BY <1>3, AppWaits
<1>5. r.result = 0 => r.stream \in Stream
  BY <1>1, <1>2, <1>3 DEF ResultsOK
<1>6. /\ pc'[a] = (IF r.result = 0 THEN "subscribed" ELSE "idle")
      /\ sub'[a] = (IF r.result = 0 THEN r.stream ELSE None)
      /\ pc' \in [App -> {"idle", "find", "alloc", "subscribed", "free", "print", "printing", "exited"}]
      /\ sub' \in [App -> Stream \cup {None}]
      /\ \A b \in App \ {a} : pc'[b] = pc[b] /\ sub'[b] = sub[b]
  BY <1>2, <1>5 DEF TypesOK
<1>7. OnlyOf(a)
  BY <1>2, <1>3, <1>6, SubscriptionAssumption DEF OnlyOf
<1>8. CallsOK' /\ \A b \in App : Asked("rts", b)' <=> Asked("rts", b)
  BY <1>2, <1>4, <1>7, AppGoesOn
<1>9. TypesOK'
  BY <1>2, <1>3, <1>6 DEF TypesOK, Idle
<1>10. ResultsOK'
  BY <1>3, <1>5, <1>6, <1>7, AppResults
<1>11. RegistriesOK'
  BY <1>7, AppLeaves
<1>12. CountsOK'
  <2>1. r = Result(r.result, r.stream)
    BY <1>3 DEF Results, Result
  <2>2. \A s \in Stream : r = Result(0, s) <=> r.result = 0 /\ r.stream = s
    BY <1>3, <2>1 DEF Results, Result
  <2>3. ~(busy.op \in {"register", "print"} /\ busy.from = a)
    BY <1>4, WorkFacts DEF NoCall, TypesOK
  <2>4. \A s \in Stream : Holds(a, s) <=> r = Result(0, s)
    BY <1>1, <1>2, <1>3, <2>3 DEF Holds
  <2>5. \A s \in Stream : Holds(a, s)' <=> r.result = 0 /\ r.stream = s
    BY <1>6 DEF Holds
  <2>6. a \notin Hoping /\ ~(a \in Hoping)'
    BY <1>2, <1>4, <1>6 DEF Hoping, NoCall
  <2>7. ~Prints(a)
    BY <1>2 DEF Prints
  <2> QED
    BY <1>2, <1>7, <1>8, <2>2, <2>4, <2>5, <2>6, <2>7, AppCounts
<1> QED
  BY <1>8, <1>9, <1>10, <1>11, <1>12

(* fta_free_instance *)
LEMMA FreeInv ==
  ASSUME SubscriptionInv, NEW a \in App, Free(a)
  PROVE  SubscriptionInv'
<1> USE SubscriptionInv DEF SubscriptionInv
<1> DEFINE m == [callid |-> "FTA_FREE_INSTANCE", from |-> a, stream |-> sub[a], reusable |-> 0]
<1>1. pc[a] = "subscribed" /\ pc' = [pc EXCEPT ![a] = "free"]
      /\ inbox' = [inbox EXCEPT !["rts"] = Append(@, m)]
      /\ UNCHANGED <<result, flookup, exec, busy, sub, shm, allocs, astray>>
  BY DEF Free, Call
<1>2. NoCall(a) /\ result[a] = <<>> /\ sub[a] \in Stream
  BY <1>1, AppWaits DEF ResultsOK
<1>3. pc'[a] = "free" /\ pc' \in [App -> {"idle", "find", "alloc", "subscribed", "free", "print", "printing", "exited"}]
      /\ \A b \in App \ {a} : pc'[b] = pc[b]
  BY <1>1 DEF TypesOK
<1>4. OnlyOf(a)
  BY <1>1, <1>3, SubscriptionAssumption DEF OnlyOf
<1>5. m \in Orders /\ m \in Messages /\ m.from = a /\ m.callid = "FTA_FREE_INSTANCE" /\ m.stream = sub[a]
  BY <1>2 DEF Orders, Messages
<1>6. PICK n \in Messages : n = m
  BY <1>5
<1> HIDE DEF m
<1>7. RtsOK(n)'
  BY <1>1, <1>2, <1>3, <1>5, <1>6 DEF RtsOK, NoCall, Idle
<1>8. /\ CallsOK' /\ inbox' \in [{"ch", "rts"} -> Seq(Messages)]
      /\ \A b \in App \ {a} : Asked("rts", b)' <=> Asked("rts", b)
      /\ Asked("rts", a)'
  BY <1>1, <1>2, <1>4, <1>5, <1>6, <1>7, AppCalls
<1>9. TypesOK'
  BY <1>1, <1>3, <1>8 DEF TypesOK, Idle
<1>10. ResultsOK'
  BY <1>1, <1>2, <1>3, <1>4, AppResults
<1>11. RegistriesOK'
  BY <1>4, AppLeaves
<1>12. CountsOK'
  <2>1. \A s \in Stream : (Holds(a, s) <=> sub[a] = s) /\ (Holds(a, s)' <=> sub[a] = s)
    BY <1>1, <1>3, <1>8 DEF Holds
  <2>2. a \notin Hoping /\ ~(a \in Hoping)'
    BY <1>1, <1>3 DEF Hoping
  <2>3. ~Prints(a)
    BY <1>1 DEF Prints
  <2> QED
    BY <1>1, <1>4, <1>8, <2>1, <2>2, <2>3, AppCounts
<1> QED
  BY <1>8, <1>9, <1>10, <1>11, <1>12

(* The result of fta_free_instance. *)
LEMMA FreedInv ==
  ASSUME SubscriptionInv, NEW a \in App, Freed(a)
  PROVE  SubscriptionInv'
<1> USE SubscriptionInv DEF SubscriptionInv
<1>1. pc[a] = "free" /\ Take(a) /\ pc' = [pc EXCEPT ![a] = "idle"] /\ sub' = [sub EXCEPT ![a] = None]
      /\ UNCHANGED <<inbox, flookup, exec, busy, shm, allocs, astray>>
  BY DEF Freed
<1>0. Len(result[a]) <= 1
  BY <1>1 DEF ResultsOK
<1>2. /\ result[a] # <<>> /\ result'[a] = <<>>
      /\ \A b \in (App \cup {"rts"}) \ {a} : result'[b] = result[b]
      /\ result' \in [App \cup {"rts"} -> Seq(Results)]
  BY <1>0, <1>1, TakeFacts
<1>3. NoCall(a)
  BY <1>2, AppWaits
<1>4. /\ pc'[a] = "idle" /\ sub' \in [App -> Stream \cup {None}]
      /\ pc' \in [App -> {"idle", "find", "alloc", "subscribed", "free", "print", "printing", "exited"}]
      /\ \A b \in App \ {a} : pc'[b] = pc[b] /\ sub'[b] = sub[b]
  BY <1>1 DEF TypesOK
<1>5. OnlyOf(a)
  BY <1>1, <1>2, <1>4, SubscriptionAssumption DEF OnlyOf
<1>6. CallsOK' /\ \A b \in App : Asked("rts", b)' <=> Asked("rts", b)
  BY <1>1, <1>3, <1>5, AppGoesOn
<1>7. TypesOK'
  BY <1>1, <1>2, <1>4 DEF TypesOK, Idle
<1>8. ResultsOK'
  BY <1>2, <1>4, <1>5, AppResults
<1>9. RegistriesOK'
  BY <1>5, AppLeaves
<1>10. CountsOK'
  <2>1. \A s \in Stream : ~Holds(a, s) /\ ~Holds(a, s)'
    BY <1>1, <1>3, <1>4 DEF Holds, NoCall
  <2>2. a \notin Hoping /\ ~(a \in Hoping)'
    BY <1>1, <1>4 DEF Hoping
  <2> QED
    BY <1>1, <1>5, <1>6, <2>1, <2>2, AppCounts
<1> QED
  BY <1>6, <1>7, <1>8, <1>9, <1>10

-----------------------------------------------------------------------------
(* The clearinghouse. *)

(* Nothing moves but the results. *)
OnlyResults == UNCHANGED <<exec, busy, app>>

(* The clearinghouse serves a call: its caller is answered. *)
LEMMA ChServes ==
  ASSUME TypesOK, CallsOK, inbox["ch"] # <<>>, Served("ch"), OnlyResults,
         NEW to, to = Head(inbox["ch"]).from,
         \A b \in (App \cup {"rts"}) \ {to} : result'[b] = result[b]
  PROVE  /\ CallsOK' /\ inbox' \in [{"ch", "rts"} -> Seq(Messages)]
         /\ \A b \in App : Asked("rts", b)' <=> Asked("rts", b)
         /\ ChOK(Head(inbox["ch"])) /\ to \in App \cup {"rts"} /\ result[to] = <<>>
<1> DEFINE m == Head(inbox["ch"])
<1>1. /\ inbox' \in [{"ch", "rts"} -> Seq(Messages)] /\ Once(inbox'["ch"])
      /\ m \in Elems(inbox["ch"]) /\ m \in Messages /\ inbox'["rts"] = inbox["rts"]
      /\ Elems(inbox'["ch"]) = Elems(inbox["ch"]) \ {m}
      /\ \A o \in Elems(inbox'["ch"]) : o.from # m.from
  BY ServeFacts DEF Served
<1>2. ChOK(m)
  BY <1>1 DEF CallsOK
<1>3. m.from = to
  OBVIOUS
<1> HIDE DEF m
<1>4. to \in App \cup {"rts"} /\ result[to] = <<>>
  <2>1. m \in Requests => m.from \in App
    BY DEF Requests
  <2>2. m \in Reports => m.from = "rts"
    BY DEF Reports
  <2> QED
    BY <1>2, <1>3, <2>1, <2>2 DEF ChOK
<1>5. to \in App => pc[to] = "find"
  BY <1>1, <1>3, CallerFacts DEF Asked
<1>6. "rts" \notin App /\ busy' = busy /\ pc' = pc /\ sub' = sub
  BY SubscriptionAssumption DEF OnlyResults, app
<1>7. ASSUME NEW o \in Elems(inbox'["ch"]) PROVE ChOK(o)'
  <2>1. ChOK(o) /\ o.from # to
    BY <1>1, <1>3 DEF CallsOK
  <2>2. CASE o \in Requests
    <3>1. o.from \in App /\ result'[o.from] = result[o.from]
      BY <2>1, <2>2 DEF Requests
    <3>2. o \notin Reports
      BY <1>6, <3>1 DEF Reports
    <3> QED
      BY <1>6, <2>1, <3>1, <3>2 DEF ChOK
  <2>3. CASE o \in Reports
    <3>1. o.from = "rts" /\ result'["rts"] = result["rts"]
      BY <2>1, <2>3 DEF Reports
    <3>2. o \notin Requests
      BY <1>6, <3>1 DEF Requests
    <3> QED
      BY <1>6, <2>1, <3>1, <3>2 DEF ChOK
  <2> QED
    BY <2>1, <2>2, <2>3 DEF ChOK
<1>8. ASSUME NEW o \in Elems(inbox["rts"]) PROVE RtsOK(o)'
  <2>1. RtsOK(o) /\ o.from \in App
    BY DEF CallsOK, RtsOK, Orders
  <2>2. pc[o.from] \in {"alloc", "print", "free"}
    BY <2>1, CallerFacts DEF Asked
  <2>3. result'[o.from] = result[o.from]
    BY <1>5, <2>1, <2>2
  <2> QED
    BY <1>6, <2>1, <2>3 DEF RtsOK
<1>9. (busy # Idle => result[busy.from] = <<>> /\ pc[busy.from] = Caller(busy.op))'
  <2>1. busy # Idle => busy.from \in App
    BY WorkFacts DEF TypesOK
  <2>2. busy # Idle => result'[busy.from] = result[busy.from]
    BY <1>5, <1>6, <2>1 DEF CallsOK, Caller
  <2> QED
    BY <1>6, <2>2 DEF CallsOK, Idle, Caller
<1>10. (Once(inbox["ch"]) /\ Once(inbox["rts"]))'
  BY <1>1 DEF CallsOK
<1>11. (\A o \in Elems(inbox["ch"]) : ChOK(o))' /\ (\A o \in Elems(inbox["rts"]) : RtsOK(o))'
  BY <1>1, <1>7, <1>8
<1>12. CallsOK'
  BY <1>9, <1>10, <1>11 DEF CallsOK
<1>13. \A b \in App : Asked("rts", b)' <=> Asked("rts", b)
  BY <1>1 DEF Asked
<1> QED
  BY <1>1, <1>2, <1>4, <1>12, <1>13 DEF m

(* Who holds what does not depend on the clearinghouse: it answers callers that
   look something up, and the process. *)
LEMMA ChCounts ==
  ASSUME TypesOK, CountsOK, OnlyResults, NEW to \in App \cup {"rts"}, to \in App => pc[to] = "find",
         \A b \in (App \cup {"rts"}) \ {to} : result'[b] = result[b],
         \A b \in App : Asked("rts", b)' <=> Asked("rts", b)
  PROVE  CountsOK'
<1>1. /\ busy' = busy /\ pc' = pc /\ sub' = sub /\ refcnt' = refcnt /\ runrefcnt' = runrefcnt
      /\ fstreamid' = fstreamid /\ allocs' = allocs /\ astray' = astray
  BY DEF OnlyResults, app, exec
<1>2. ASSUME NEW b \in App
      PROVE  (\A s \in Stream : Holds(b, s)' <=> Holds(b, s)) /\ ((b \in Hoping)' <=> b \in Hoping)
  <2>1. CASE b # to
    BY <1>1, <2>1, HoldsSame
  <2>2. CASE b = to
    BY <1>1, <2>2 DEF Holds, Hoping
  <2> QED
    BY <2>1, <2>2
<1>3. \A b \in App : Prints(b)' <=> Prints(b)
  BY <1>1 DEF Prints
<1> QED
  BY <1>1, <1>2, <1>3, CountsSame

(* One of the numbers is the least. *)
LEMMA Least ==
  ASSUME NEW S, S \subseteq Nat, S # {}
  PROVE  \E i \in S : \A j \in S : i <= j
<1> DEFINE R == {p \in Nat \X Nat : p[1] < p[2]}
<1>1. IsWellFoundedOn(R, Nat)
  BY NatLessThanWellFounded DEF OpToRel
<1>2. PICK i \in S : \A j \in S : ~ (<<j, i>> \in R)
  <2> HIDE DEF R
  <2> QED
    BY <1>1, WFMin
<1>3. ASSUME NEW j \in S PROVE i <= j
  <2>1. i \in Nat /\ j \in Nat /\ ~ (<<j, i>> \in R)
    BY <1>2
  <2>2. <<j, i>>[1] = j /\ <<j, i>>[2] = i /\ <<j, i>> \in Nat \X Nat
    BY <2>1
  <2>3. ~(j < i)
    BY <2>1, <2>2
  <2> QED
    BY <2>1, <2>3
<1> QED
  BY <1>3

(* Results are sent to one that waits for them. *)
LEMMA ResultsSent ==
  ASSUME ResultsOK, pc' = pc, sub' = sub, NEW to \in App \cup {"rts"}, NEW rs, result'[to] = rs,
         \A b \in (App \cup {"rts"}) \ {to} : result'[b] = result[b] \/ result'[b] = <<>>,
         result'["rts"] # <<>> => busy' # Idle,
         to = "rts" => Len(rs) <= 1,
         to \in App => /\ pc[to] \in {"find", "alloc", "free", "print"}
                       /\ Len(rs) <= 1 \/ (pc[to] = "print" /\ Head(rs).result = -1)
                       /\ pc[to] \in {"alloc", "print"} /\ Head(rs).result = 0 => Head(rs).stream \in Stream
  PROVE  ResultsOK'
<1>1. Len(<<>>) <= 1 /\ Idle' = Idle
  BY DEF Idle
<1>2. Len(result'["rts"]) <= 1
  <2>1. (result'["rts"] = rs /\ to = "rts") \/ result'["rts"] = <<>> \/ result'["rts"] = result["rts"]
    OBVIOUS
  <2> QED
    BY <1>1, <2>1 DEF ResultsOK
<1>3. ASSUME NEW b \in App
      PROVE  /\ Len(result'[b]) <= 1 \/ pc'[b] = "exited" \/ (pc'[b] = "print" /\ Head(result'[b]).result = -1)
             /\ result'[b] # <<>> =>
                  /\ pc'[b] \in {"find", "alloc", "free", "print", "exited"}
                  /\ pc'[b] \in {"alloc", "print"} /\ Head(result'[b]).result = 0 => Head(result'[b]).stream \in Stream
             /\ pc'[b] \in {"subscribed", "printing", "free"} => sub'[b] \in Stream
  <2>1. pc[b] \in {"subscribed", "printing", "free"} => sub[b] \in Stream
    BY DEF ResultsOK
  <2>2. CASE b = to
    BY <2>1, <2>2
  <2>3. CASE b # to
    <3>1. CASE result'[b] = <<>>
      BY <1>1, <2>1, <3>1
    <3>2. CASE result'[b] = result[b]
      BY <2>1, <3>2 DEF ResultsOK
    <3> QED
      BY <2>3, <3>1, <3>2
  <2> QED
    BY <2>2, <2>3
<1> QED
  BY <1>1, <1>2, <1>3 DEF ResultsOK

(* One result is. *)
LEMMA ResultsAnswered ==
  ASSUME ResultsOK, pc' = pc, sub' = sub, NEW to \in App \cup {"rts"}, NEW r \in Results, result'[to] = <<r>>,
         \A b \in (App \cup {"rts"}) \ {to} : result'[b] = result[b] \/ result'[b] = <<>>,
         result'["rts"] # <<>> => busy' # Idle,
         to \in App => /\ pc[to] \in {"find", "alloc", "free", "print"}
                       /\ pc[to] \in {"alloc", "print"} /\ r.result = 0 => r.stream \in Stream
  PROVE  ResultsOK'
<1>1. Len(<<r>>) <= 1 /\ Head(<<r>>) = r
  OBVIOUS
<1>2. PICK rs : rs = <<r>>
  OBVIOUS
<1>3. /\ result'[to] = rs /\ Len(rs) <= 1
      /\ to \in App => (pc[to] \in {"alloc", "print"} /\ Head(rs).result = 0 => Head(rs).stream \in Stream)
  BY <1>1, <1>2
<1> QED
  BY <1>3, ResultsSent

(* ftalookup_lookup_fta_index *)
LEMMA LookupInv ==
  ASSUME SubscriptionInv, Lookup
  PROVE  SubscriptionInv'
<1> USE SubscriptionInv DEF SubscriptionInv
<1>1. PICK a, f : /\ a = Head(inbox["ch"]).from /\ Answer(a, <<Result(0, f)>>)
                  /\ f \in Stream \cup {None}
  <2> DEFINE m     == Head(inbox["ch"])
             share == {i \in 1 .. Len(flookup) : flookup[i].reusable >= 1}
             first == CHOOSE i \in share : \A j \in share : i <= j
             found == IF m.reusable = 1 /\ share # {} THEN flookup[first].stream ELSE None
  <2>1. Answer(m.from, <<Result(0, found)>>)
    BY DEF Lookup
  <2>2. flookup \in Seq(Entries)
    BY DEF TypesOK
  <2>3. ASSUME share # {} PROVE flookup[first].stream \in Stream
    <3>1. share \subseteq Nat /\ share \subseteq 1 .. Len(flookup)
      BY <2>2
    <3> HIDE DEF share
    <3>2. \E i \in share : \A j \in share : i <= j
      BY <2>3, <3>1, Least
    <3>3. first \in share
      BY <3>2
    <3> HIDE DEF first
    <3>4. flookup[first] \in Entries
      BY <2>2, <3>1, <3>3, ElementOfSeq
    <3> QED
      BY <3>4 DEF Entries
  <2> HIDE DEF first, share
  <2>4. found \in Stream \cup {None}
    BY <2>3
  <2> QED
    BY <2>1, <2>4
<1>2. inbox["ch"] # <<>> /\ Head(inbox["ch"]).callid = "FTA_LOOKUP" /\ Served("ch")
      /\ flookup' = flookup /\ UNCHANGED <<exec, busy, app>>
  BY DEF Lookup, Waiting
<1>3. Head(inbox["ch"]) \in Elems(inbox["ch"])
  BY <1>2, ServeFacts DEF Served
<1>4. ChOK(Head(inbox["ch"]))
  BY <1>3 DEF CallsOK
<1>5. a \in App /\ pc[a] = "find" /\ result[a] = <<>>
  BY <1>1, <1>2, <1>4 DEF ChOK, Requests, Reports
<1>6. Result(0, f) \in Results
  BY <1>1 DEF Result, Results
<1>7. /\ result'[a] = <<Result(0, f)>> /\ \A b \in (App \cup {"rts"}) \ {a} : result'[b] = result[b]
      /\ result' \in [App \cup {"rts"} -> Seq(Results)]
  BY <1>1, <1>5, <1>6, AnswerFacts
<1>8. OnlyResults
  BY <1>2 DEF OnlyResults
<1>9. /\ CallsOK' /\ inbox' \in [{"ch", "rts"} -> Seq(Messages)]
      /\ \A b \in App : Asked("rts", b)' <=> Asked("rts", b)
  BY <1>1, <1>2, <1>7, <1>8, ChServes
<1>10. CountsOK'
  BY <1>5, <1>7, <1>8, <1>9, ChCounts
<1>11. /\ busy' = busy /\ pc' = pc /\ sub' = sub /\ shm' = shm /\ allocs' = allocs /\ astray' = astray
       /\ UNCHANGED exec /\ result'["rts"] = result["rts"]
  BY <1>2, <1>5, <1>7, SubscriptionAssumption DEF app
<1>12. TypesOK'
  BY <1>2, <1>7, <1>9, <1>11 DEF TypesOK, Idle
<1>13. ResultsOK'
  <2>1. result'["rts"] # <<>> => busy' # Idle
    BY <1>11 DEF ResultsOK
  <2> QED
    BY <1>5, <1>6, <1>7, <1>11, <2>1, ResultsAnswered
<1>14. RegistriesOK'
  BY <1>11 DEF RegistriesOK, exec
<1> QED
  BY <1>9, <1>10, <1>12, <1>13, <1>14

(* What the clearinghouse is told by the process. *)
LEMMA Reported ==
  ASSUME SubscriptionInv, inbox["ch"] # <<>>, Head(inbox["ch"]).callid \in {"FTA_REGISTER", "FTA_UNREGISTER"}
  PROVE  LET m == Head(inbox["ch"]) IN
         /\ m \in Reports /\ m.from = "rts" /\ result["rts"] = <<>> /\ busy # Idle
         /\ m.stream = busy.stream /\ (m.callid = "FTA_REGISTER" <=> busy.op \in {"register", "print"})
<1> DEFINE m == Head(inbox["ch"])
<1>1. inbox["ch"] \in Seq(Messages) /\ Once(inbox["ch"])
  BY DEF SubscriptionInv, TypesOK, CallsOK
<1>2. m \in Elems(inbox["ch"])
  BY <1>1, ElemsTail
<1>3. ChOK(m)
  BY <1>2 DEF SubscriptionInv, CallsOK
<1> QED
  BY <1>3 DEF ChOK, Requests, Reports

(* One that is told of a holder's instance has it counted. *)
LEMMA HolderCounted ==
  ASSUME RegistriesOK, CountsOK, NEW a \in App, NEW s \in Stream, Holds(a, s)
  PROVE  /\ a \in Holders(s) /\ Cardinality(Holders(s)) \in Nat /\ Cardinality(Holders(s)) >= 1
         /\ refcnt[s] >= 1 /\ s \in created
         /\ ~astray => /\ runrefcnt[s] >= 1 /\ s \in process
                       /\ Prints(a) \/ fstreamid[a][s] > 0
<1>1. a \in Holders(s)
  BY DEF Holders
<1>2. IsFiniteSet(Holders(s)) /\ Cardinality(Holders(s)) <= refcnt[s]
      /\ (~astray => Cardinality(Holders(s)) <= runrefcnt[s])
      /\ (~astray => Prints(a) \/ fstreamid[a][s] > 0)
  BY DEF CountsOK
<1>3. Cardinality(Holders(s)) \in Nat /\ Cardinality(Holders(s)) >= 1
  BY <1>1, <1>2, CountRemove
<1> QED
  BY <1>1, <1>2, <1>3, InstanceFacts

(* What the process works on is held by the one that asked for it. *)
LEMMA WorkHeld ==
  ASSUME TypesOK, CallsOK, busy.op \in {"register", "print"}
  PROVE  busy.from \in App /\ busy.stream \in Stream /\ Holds(busy.from, busy.stream)
  BY WorkFacts DEF TypesOK, CallsOK, Holds, Caller

(* The clearinghouse answers the process. *)
LEMMA ReportServed ==
  ASSUME SubscriptionInv, inbox["ch"] # <<>>, Head(inbox["ch"]).callid \in {"FTA_REGISTER", "FTA_UNREGISTER"},
         Served("ch"), NEW r \in Results, Answer("rts", <<r>>), OnlyResults
  PROVE  /\ CallsOK' /\ inbox' \in [{"ch", "rts"} -> Seq(Messages)] /\ CountsOK' /\ ResultsOK'
         /\ RegistriesOK' /\ result' \in [App \cup {"rts"} -> Seq(Results)] /\ result'["rts"] = <<r>>
<1> USE SubscriptionInv DEF SubscriptionInv
<1>1. Head(inbox["ch"]).from = "rts" /\ result["rts"] = <<>> /\ busy # Idle
  BY Reported
<1>2. /\ result'["rts"] = <<r>> /\ \A b \in (App \cup {"rts"}) \ {"rts"} : result'[b] = result[b]
      /\ result' \in [App \cup {"rts"} -> Seq(Results)]
  BY <1>1, AnswerFacts
<1>3. /\ CallsOK' /\ inbox' \in [{"ch", "rts"} -> Seq(Messages)]
      /\ \A b \in App : Asked("rts", b)' <=> Asked("rts", b)
  BY <1>1, <1>2, ChServes
<1>4. CountsOK'
  BY <1>2, <1>3, ChCounts, SubscriptionAssumption
<1>5. busy' = busy /\ pc' = pc /\ sub' = sub /\ UNCHANGED exec
  BY DEF OnlyResults, app
<1>6. ResultsOK'
  BY <1>1, <1>2, <1>5, ResultsAnswered, SubscriptionAssumption
<1>7. RegistriesOK'
  BY <1>5 DEF RegistriesOK, exec
<1> QED
  BY <1>2, <1>3, <1>4, <1>6, <1>7

(* ftalookup_register_fta *)
LEMMA RegisterInv ==
  ASSUME SubscriptionInv, NEW told \in BOOLEAN, NEW init \in BOOLEAN, Register(told, init)
  PROVE  SubscriptionInv'
<1> USE SubscriptionInv DEF SubscriptionInv
<1>1. PICK e : e = [stream |-> Head(inbox["ch"]).stream, reusable |-> Head(inbox["ch"]).reusable]
  OBVIOUS
<1>2. PICK r : r = Result(IF told /\ init THEN 0 ELSE -1, None)
  OBVIOUS
<1>3. /\ inbox["ch"] # <<>> /\ Head(inbox["ch"]).callid = "FTA_REGISTER" /\ Served("ch")
      /\ flookup' = (IF told THEN Append(flookup, e) ELSE flookup)
      /\ Answer("rts", <<r>>) /\ OnlyResults
  BY <1>1, <1>2 DEF Register, Waiting, OnlyResults
<1>4. r \in Results
  BY <1>2 DEF Results, Result
<1>5. /\ CallsOK' /\ inbox' \in [{"ch", "rts"} -> Seq(Messages)] /\ CountsOK' /\ ResultsOK'
      /\ RegistriesOK' /\ result' \in [App \cup {"rts"} -> Seq(Results)] /\ result'["rts"] = <<r>>
  BY <1>3, <1>4, ReportServed
<1>6. /\ Head(inbox["ch"]) \in Reports /\ Head(inbox["ch"]).stream = busy.stream
      /\ result["rts"] = <<>>
  BY <1>3, Reported
<1>7. e \in Entries /\ e.stream = busy.stream
  BY <1>1, <1>6 DEF Reports, Entries
<1>8. /\ busy' = busy /\ pc' = pc /\ sub' = sub /\ shm' = shm /\ allocs' = allocs /\ astray' = astray
      /\ refcnt' = refcnt
  BY <1>3 DEF OnlyResults, app, exec
<1>9. flookup \in Seq(Entries)
  BY DEF TypesOK
<1>10. flookup' \in Seq(Entries)
  BY <1>3, <1>7, <1>9
<1>11. TypesOK'
  BY <1>5, <1>8, <1>10 DEF TypesOK, Idle
<1> QED
  BY <1>5, <1>11

(* ftalookup_unregister_fta *)
LEMMA UnregisterInv ==
  ASSUME SubscriptionInv, Unregister
  PROVE  SubscriptionInv'
<1> USE SubscriptionInv DEF SubscriptionInv
<1>1. PICK r : r = Result(0, None)
  OBVIOUS
<1>2. /\ inbox["ch"] # <<>> /\ Head(inbox["ch"]).callid = "FTA_UNREGISTER" /\ Served("ch")
      /\ flookup' = <<>> /\ Answer("rts", <<r>>) /\ OnlyResults
  BY <1>1 DEF Unregister, Waiting, OnlyResults
<1>3. r \in Results
  BY <1>1 DEF Results, Result
<1>4. /\ CallsOK' /\ inbox' \in [{"ch", "rts"} -> Seq(Messages)] /\ CountsOK' /\ ResultsOK'
      /\ RegistriesOK' /\ result' \in [App \cup {"rts"} -> Seq(Results)]
  BY <1>2, <1>3, ReportServed
<1>5. busy' = busy /\ pc' = pc /\ sub' = sub /\ shm' = shm /\ allocs' = allocs /\ astray' = astray
  BY <1>2 DEF OnlyResults, app
<1>6. TypesOK'
  BY <1>2, <1>4, <1>5 DEF TypesOK, Idle
<1> QED
  BY <1>4, <1>6

-----------------------------------------------------------------------------
(* The process that runs the query. *)

(* The request it serves next. *)
LEMMA OrderFacts ==
  ASSUME TypesOK, CallsOK, inbox["rts"] # <<>>
  PROVE  LET m == Head(inbox["rts"]) IN
         /\ m \in Elems(inbox["rts"]) /\ m \in Orders /\ m.from \in App /\ m.reusable \in {0, 1}
         /\ RtsOK(m) /\ Asked("rts", m.from) /\ result[m.from] = <<>> /\ pc[m.from] \in {"alloc", "print", "free"}
         /\ m.callid = "FTA_ALLOC_INSTANCE" => pc[m.from] = "alloc"
         /\ m.callid = "FTA_ALLOC_PRINT_INSTANCE" => pc[m.from] = "print"
         /\ m.callid = "FTA_FREE_INSTANCE" => pc[m.from] = "free" /\ m.stream = sub[m.from]
<1> DEFINE m == Head(inbox["rts"])
<1>1. inbox["rts"] \in Seq(Messages) /\ Once(inbox["rts"])
  BY DEF TypesOK, CallsOK
<1>2. m \in Elems(inbox["rts"])
  BY <1>1, ElemsTail
<1> HIDE DEF m
<1>3. RtsOK(m)
  BY <1>2 DEF CallsOK
<1>4. m \in Orders /\ m.from \in App /\ m.reusable \in {0, 1}
      /\ m.callid \in {"FTA_ALLOC_INSTANCE", "FTA_ALLOC_PRINT_INSTANCE", "FTA_FREE_INSTANCE"}
  BY <1>3 DEF RtsOK, Orders, Allocating
<1>5. Asked("rts", m.from)
  BY <1>2 DEF Asked
<1> QED
  BY <1>2, <1>3, <1>4, <1>5 DEF RtsOK, m

(* It answers, and is ready for the next. *)
LEMMA RtsAnswers ==
  ASSUME SubscriptionInv, busy = Idle, inbox["rts"] # <<>>, Served("rts"),
         NEW a, a = Head(inbox["rts"]).from, NEW r \in Results, r.result # 0, Answer(a, <<r>>),
         busy' = busy, pc' = pc, sub' = sub
  PROVE  /\ CallsOK' /\ ResultsOK' /\ inbox' \in [{"ch", "rts"} -> Seq(Messages)]
         /\ result' \in [App \cup {"rts"} -> Seq(Results)] /\ ~Asked("rts", a)'
         /\ result'[a] = <<r>> /\ result'["rts"] = result["rts"]
         /\ \A b \in App \ {a} : result'[b] = result[b] /\ (Asked("rts", b)' <=> Asked("rts", b))
<1> USE SubscriptionInv DEF SubscriptionInv
<1>0. a \in App /\ result[a] = <<>> /\ pc[a] \in {"alloc", "print", "free"} /\ "rts" \notin App
  BY OrderFacts, SubscriptionAssumption
<1>1. /\ inbox' \in [{"ch", "rts"} -> Seq(Messages)] /\ Once(inbox'["rts"]) /\ inbox'["ch"] = inbox["ch"]
      /\ Elems(inbox'["rts"]) = Elems(inbox["rts"]) \ {Head(inbox["rts"])}
      /\ \A o \in Elems(inbox'["rts"]) : o.from # a
  BY ServeFacts DEF Served
<1>2. /\ result'[a] = <<r>> /\ \A b \in (App \cup {"rts"}) \ {a} : result'[b] = result[b]
      /\ result' \in [App \cup {"rts"} -> Seq(Results)]
  BY <1>0, AnswerFacts
<1>3. ASSUME NEW o \in Elems(inbox["ch"]) PROVE ChOK(o)'
  <2>1. ChOK(o)
    BY DEF CallsOK
  <2>2. o \in Requests /\ o.from \in App /\ pc[o.from] = "find" /\ result[o.from] = <<>>
    BY <2>1 DEF ChOK, Requests
  <2>3. result'[o.from] = <<>>
    BY <1>0, <1>2, <2>2
  <2> QED
    BY <2>2, <2>3 DEF ChOK
<1>4. ASSUME NEW o \in Elems(inbox'["rts"]) PROVE RtsOK(o)'
  <2>1. RtsOK(o) /\ o.from # a /\ o.from \in App
    BY <1>1 DEF CallsOK, RtsOK, Orders
  <2>2. result'[o.from] = result[o.from]
    BY <1>2, <2>1
  <2> QED
    BY <2>1, <2>2 DEF RtsOK, Idle
<1>5. (Once(inbox["ch"]) /\ Once(inbox["rts"]))'
  BY <1>1 DEF CallsOK
<1>6. (\A o \in Elems(inbox["ch"]) : ChOK(o))' /\ (\A o \in Elems(inbox["rts"]) : RtsOK(o))'
  BY <1>1, <1>3, <1>4
<1>7. CallsOK'
  BY <1>5, <1>6 DEF CallsOK, Idle
<1>8. ResultsOK'
  <2>1. result'["rts"] # <<>> => busy' # Idle
    BY <1>0, <1>2 DEF ResultsOK
  <2> QED
    BY <1>0, <1>2, <2>1, ResultsAnswered
<1>9. ~Asked("rts", a)'
  BY <1>1 DEF Asked
<1>10. \A b \in App \ {a} : Asked("rts", b)' <=> Asked("rts", b)
  BY <1>1 DEF Asked
<1> QED
  BY <1>0, <1>1, <1>2, <1>7, <1>8, <1>9, <1>10

(* Or it turns to the clearinghouse. *)
LEMMA RtsCalls ==
  ASSUME SubscriptionInv, busy = Idle, inbox["rts"] # <<>>,
         NEW n \in Reports, NEW w \in Work, n.stream = w.stream, n.callid = "FTA_REGISTER" <=> w.op \in {"register", "print"},
         w.from = Head(inbox["rts"]).from, pc[w.from] = Caller(w.op),
         inbox' = [inbox EXCEPT !["rts"] = Tail(@), !["ch"] = Append(@, n)],
         busy' = w, result' = result, pc' = pc, sub' = sub
  PROVE  /\ CallsOK' /\ ResultsOK' /\ inbox' \in [{"ch", "rts"} -> Seq(Messages)]
         /\ ~Asked("rts", w.from)' /\ w.from \in App /\ result["rts"] = <<>>
         /\ \A b \in App \ {w.from} : Asked("rts", b)' <=> Asked("rts", b)
<1> USE SubscriptionInv DEF SubscriptionInv
<1> DEFINE a == w.from
<1>0. /\ a \in App /\ result[a] = <<>> /\ pc[a] = Caller(w.op)
      /\ "rts" \notin App /\ w # Idle
  BY OrderFacts, SubscriptionAssumption DEF Work, Idle
<1>1. n.from = "rts" /\ n \in Messages
  BY DEF Reports, Messages
<1>2. result["rts"] = <<>> /\ ~Asked("ch", "rts")
  BY ReportFacts DEF ResultsOK
<1>3. inbox \in [{"ch", "rts"} -> Seq(Messages)] /\ Once(inbox["ch"]) /\ Once(inbox["rts"])
  BY DEF TypesOK, CallsOK
<1> DEFINE u == Tail(inbox["rts"])
           v == Append(inbox["ch"], n)
<1>4. /\ u \in Seq(Messages) /\ Once(u) /\ Elems(u) = Elems(inbox["rts"]) \ {Head(inbox["rts"])}
      /\ \A o \in Elems(u) : o.from # a
  BY <1>3, ElemsTail
<1>5. v \in Seq(Messages) /\ Elems(v) = Elems(inbox["ch"]) \cup {n} /\ Once(v)
  <2>1. \A o \in Elems(inbox["ch"]) : o.from # n.from
    BY <1>1, <1>2 DEF Asked
  <2>2. inbox["ch"] \in Seq(Messages)
    BY <1>3
  <2> QED
    BY <1>1, <1>3, <2>1, <2>2, ElemsAppend
<1>6. inbox' = [inbox EXCEPT !["rts"] = u, !["ch"] = v]
  OBVIOUS
<1> HIDE DEF u, v
<1>7. inbox' \in [{"ch", "rts"} -> Seq(Messages)] /\ inbox'["rts"] = u /\ inbox'["ch"] = v
  BY <1>3, <1>4, <1>5, <1>6, ZenonT(60)
<1>8. ASSUME NEW o \in Elems(inbox["ch"]) PROVE ChOK(o)'
  <2>1. ChOK(o)
    BY DEF CallsOK
  <2>2. o \in Requests /\ pc[o.from] = "find" /\ result[o.from] = <<>>
    BY <2>1 DEF ChOK
  <2> QED
    BY <2>2 DEF ChOK
<1>9. ChOK(n)'
  BY <1>0, <1>2 DEF ChOK, Idle
<1>10. ASSUME NEW o \in Elems(u) PROVE RtsOK(o)'
  <2>1. RtsOK(o) /\ o.from # a
    BY <1>4 DEF CallsOK
  <2> QED
    BY <2>1 DEF RtsOK
<1>11. CallsOK'
  <2>1. (Once(inbox["ch"]) /\ Once(inbox["rts"]))'
    BY <1>4, <1>5, <1>7
  <2>2. (\A o \in Elems(inbox["ch"]) : ChOK(o))' /\ (\A o \in Elems(inbox["rts"]) : RtsOK(o))'
    BY <1>5, <1>7, <1>8, <1>9, <1>10
  <2> QED
    BY <1>0, <2>1, <2>2 DEF CallsOK, Caller
<1>12. ResultsOK'
  BY <1>2 DEF ResultsOK, Idle
<1>13. ~Asked("rts", a)'
  BY <1>4, <1>7 DEF Asked
<1>14. \A b \in App \ {a} : Asked("rts", b)' <=> Asked("rts", b)
  BY <1>4, <1>7 DEF Asked
<1> QED
  BY <1>0, <1>2, <1>7, <1>11, <1>12, <1>13, <1>14

(* The clearinghouse has answered: so does the process. *)
LEMMA WorkDone ==
  ASSUME SubscriptionInv, busy # Idle, result["rts"] # <<>>, NEW rs \in Seq(Results), Reply(rs),
         Len(rs) <= 1 \/ (busy.op = "print" /\ Head(rs).result = -1),
         busy.op \in {"register", "print"} /\ Head(rs).result = 0 => Head(rs).stream \in Stream,
         busy' = Idle, inbox' = inbox, pc' = pc, sub' = sub
  PROVE  /\ CallsOK' /\ ResultsOK' /\ result' \in [App \cup {"rts"} -> Seq(Results)]
         /\ result'[busy.from] = rs /\ result[busy.from] = <<>> /\ ~Asked("rts", busy.from)
         /\ busy.from \in App /\ result["rts"] = <<Head(result["rts"])>> /\ Head(result["rts"]) \in Results
         /\ \A b \in App \ {busy.from} : result'[b] = result[b]
         /\ \A b \in App : Asked("rts", b)' <=> Asked("rts", b)
<1> USE SubscriptionInv DEF SubscriptionInv
<1>0. PICK a \in App : a = busy.from
  BY WorkFacts DEF TypesOK
<1>1. /\ result[a] = <<>> /\ pc[a] = Caller(busy.op) /\ a # "rts"
      /\ pc[a] \in {"alloc", "print", "free"} /\ "rts" \notin App
  BY <1>0, SubscriptionAssumption DEF CallsOK, Caller
<1>2. result \in [App \cup {"rts"} -> Seq(Results)] /\ result["rts"] \in Seq(Results) /\ Len(result["rts"]) <= 1
  BY DEF TypesOK, ResultsOK
<1>3. Tail(result["rts"]) = <<>> /\ Head(result["rts"]) \in Results /\ result["rts"] = <<Head(result["rts"])>>
  BY <1>2, OneResult
<1>4. result[a] \o rs = rs
  BY <1>1, ConcatEmptySeq
<1>5. result' = [result EXCEPT !["rts"] = <<>>, ![a] = rs]
  <2>1. [result EXCEPT !["rts"] = Tail(@), ![a] = @ \o rs]
        = [result EXCEPT !["rts"] = Tail(result["rts"]), ![a] = result[a] \o rs]
    BY <1>1, <1>2
  <2> QED
    BY <1>0, <1>3, <1>4, <2>1 DEF Reply
<1>6. /\ result' \in [App \cup {"rts"} -> Seq(Results)] /\ result'["rts"] = <<>> /\ result'[a] = rs
      /\ \A b \in App \ {a} : result'[b] = result[b]
  <2> DEFINE g == [result EXCEPT !["rts"] = <<>>]
  <2>1. /\ g \in [App \cup {"rts"} -> Seq(Results)] /\ g["rts"] = <<>>
        /\ \A b \in App : g[b] = result[b]
    BY <1>1, <1>2
  <2>2. result' = [g EXCEPT ![a] = rs]
    BY <1>5
  <2> HIDE DEF g
  <2>3. /\ result' \in [App \cup {"rts"} -> Seq(Results)]
    BY <1>4, <2>1, <2>2
  <2>4. /\ result'["rts"] = <<>> /\ result'[a] = rs
        /\ \A b \in App \ {a} : result'[b] = result[b]
    BY <1>1, <2>1, <2>2
  <2> QED
    BY <2>3, <2>4
<1>7. ASSUME NEW o \in Elems(inbox["ch"]) PROVE ChOK(o)'
  <2>1. ChOK(o)
    BY DEF CallsOK
  <2>2. o \in Requests /\ o.from \in App /\ pc[o.from] = "find" /\ result[o.from] = <<>>
    BY <2>1 DEF ChOK, Requests
  <2>3. result'[o.from] = <<>>
    BY <1>1, <1>6, <2>2
  <2> QED
    BY <2>2, <2>3 DEF ChOK
<1>8. ASSUME NEW o \in Elems(inbox["rts"]) PROVE RtsOK(o)'
  <2>1. RtsOK(o) /\ o.from # a /\ o.from \in App
    BY <1>0 DEF CallsOK, RtsOK, Orders
  <2>2. result'[o.from] = result[o.from]
    BY <1>6, <2>1
  <2> QED
    BY <2>1, <2>2 DEF RtsOK, Idle
<1>9. CallsOK'
  <2>1. (Once(inbox["ch"]) /\ Once(inbox["rts"]))'
    BY DEF CallsOK
  <2>2. (\A o \in Elems(inbox["ch"]) : ChOK(o))' /\ (\A o \in Elems(inbox["rts"]) : RtsOK(o))'
    BY <1>7, <1>8
  <2> QED
    BY <2>1, <2>2 DEF CallsOK, Idle
<1>10. ResultsOK'
  <2>1. /\ pc[a] \in {"alloc", "print"} => busy.op \in {"register", "print"}
        /\ busy.op = "print" => pc[a] = "print"
    BY <1>0, <1>1, WorkFacts DEF Caller, TypesOK
  <2>2. \A b \in (App \cup {"rts"}) \ {a} : result'[b] = result[b] \/ result'[b] = <<>>
    BY <1>6
  <2> QED
    BY <1>0, <1>1, <1>6, <2>1, <2>2, ResultsSent
<1>11. ~Asked("rts", a)
  BY <1>0, CallerFacts
<1>12. \A b \in App : Asked("rts", b)' <=> Asked("rts", b)
  BY DEF Asked
<1> QED
  BY <1>0, <1>1, <1>3, <1>6, <1>9, <1>10, <1>11, <1>12

(* An application gives up the instance that it holds. *)
LEMMA ShareLost ==
  ASSUME RegistriesOK, RegistriesOK', CountsOK, NEW a \in App, NEW s \in Stream, Holds(a, s),
         \A t \in Stream : ~Holds(a, t)' /\ (Holds(a, t) => t = s),
         \A b \in App \ {a} : \A t \in Stream : Holds(b, t)' <=> Holds(b, t),
         \A b \in App : (b \in Hoping)' <=> b \in Hoping,
         NEW r \in Nat, NEW u \in Nat, Counts(s, r, u), r <= refcnt[s], r >= refcnt[s] - 1,
         u >= runrefcnt[s] - 1, allocs' = allocs, astray => astray', allocs \in Nat, pc' = pc,
         ~astray' => \A b \in App, t \in Stream : b # a \/ t # s => fstreamid'[b][t] = fstreamid[b][t]
  PROVE  CountsOK'
<1>1. Hoping' = Hoping
  BY DEF Hoping
<1>2. Holders(s)' = Holders(s) \ {a}
  BY DEF Holders
<1>3. \A t \in Stream \ {s} : Holders(t)' = Holders(t)
  BY DEF Holders
<1>4. a \in Holders(s) /\ IsFiniteSet(Holders(s)) /\ IsFiniteSet(Hoping)
  BY DEF Holders, CountsOK
<1>5. /\ IsFiniteSet(Holders(s)') /\ Cardinality(Holders(s)') = Cardinality(Holders(s)) - 1
      /\ Cardinality(Holders(s)) \in Nat
  BY <1>2, <1>4, CountRemove
<1>6. Cardinality(Hoping) \in Nat
  BY <1>4, FS_CardinalityType
<1>7. /\ refcnt[s] \in Nat /\ runrefcnt[s] \in Nat /\ refcnt'[s] = r /\ runrefcnt'[s] = u
      /\ refcnt[s] + Cardinality(Hoping) <= allocs /\ Cardinality(Holders(s)) <= refcnt[s]
      /\ (~astray => Cardinality(Holders(s)) <= runrefcnt[s])
  BY InstanceFacts DEF Counts, CountsOK
<1>8. /\ refcnt'[s] + Cardinality(Hoping) <= allocs /\ Cardinality(Holders(s)') <= refcnt'[s]
      /\ (~astray => Cardinality(Holders(s)') <= runrefcnt'[s])
  BY <1>5, <1>6, <1>7
<1>9. \A t \in Stream : /\ IsFiniteSet(Holders(t)')
                        /\ refcnt'[t] + Cardinality(Hoping) <= allocs
                        /\ Cardinality(Holders(t)') <= refcnt'[t]
                        /\ (~astray => Cardinality(Holders(t)') <= runrefcnt'[t])
  <2> SUFFICES ASSUME NEW t \in Stream
               PROVE  /\ IsFiniteSet(Holders(t)')
                      /\ refcnt'[t] + Cardinality(Hoping) <= allocs
                      /\ Cardinality(Holders(t)') <= refcnt'[t]
                      /\ (~astray => Cardinality(Holders(t)') <= runrefcnt'[t])
    OBVIOUS
  <2>1. CASE t = s
    BY <1>5, <1>8, <2>1
  <2>2. CASE t # s
    <3>1. refcnt'[t] = refcnt[t] /\ runrefcnt'[t] = runrefcnt[t] /\ Holders(t)' = Holders(t)
      BY <1>3, <2>2 DEF Counts
    <3> QED
      BY <3>1 DEF CountsOK
  <2> QED
    BY <2>1, <2>2
<1>10. ~astray' => \A b \in App, t \in Stream : Holds(b, t)' => Prints(b)' \/ fstreamid'[b][t] > 0
  BY DEF CountsOK, Prints
<1> QED
  BY <1>1, <1>4, <1>9, <1>10 DEF CountsOK

(* An application's allocation is served: it holds the instance from then on,
   or is refused. *)
LEMMA ShareGained ==
  ASSUME RegistriesOK, RegistriesOK', CountsOK, NEW a \in App, NEW s \in Stream, NEW got \in BOOLEAN,
         \A t \in Stream : ~Holds(a, t) /\ (Holds(a, t)' <=> got /\ t = s),
         \A b \in App \ {a} : \A t \in Stream : Holds(b, t)' <=> Holds(b, t),
         \A b \in App \ {a} : (b \in Hoping)' <=> b \in Hoping,
         a \in Hoping, ~(a \in Hoping)',
         NEW u \in Nat, Counts(s, refcnt[s] + 1, u), got => u = runrefcnt[s] + 1,
         allocs' = allocs, allocs \in Nat, IF got THEN astray' = astray ELSE astray',
         pc' = pc, got => Prints(a) \/ fstreamid'[a][s] > 0,
         \A b \in App, t \in Stream : fstreamid[b][t] > 0 => fstreamid'[b][t] > 0
  PROVE  CountsOK'
<1>1. Hoping' = Hoping \ {a}
  BY DEF Hoping
<1>2. IsFiniteSet(Hoping') /\ Cardinality(Hoping') = Cardinality(Hoping) - 1 /\ Cardinality(Hoping) \in Nat
  BY <1>1, CountRemove DEF CountsOK
<1>3. \A t \in Stream \ {s} : Holders(t)' = Holders(t)
  BY DEF Holders
<1>4. Holders(s)' = IF got THEN Holders(s) \cup {a} ELSE Holders(s)
  BY DEF Holders
<1>5. IsFiniteSet(Holders(s)) /\ a \notin Holders(s)
  BY DEF CountsOK, Holders
<1>6. /\ IsFiniteSet(Holders(s)') /\ Cardinality(Holders(s)) \in Nat
      /\ Cardinality(Holders(s)') = IF got THEN Cardinality(Holders(s)) + 1 ELSE Cardinality(Holders(s))
  BY <1>4, <1>5, CountAdd, FS_CardinalityType
<1>7. /\ refcnt[s] \in Nat /\ runrefcnt[s] \in Nat /\ refcnt'[s] = refcnt[s] + 1 /\ runrefcnt'[s] = u
      /\ refcnt[s] + Cardinality(Hoping) <= allocs /\ Cardinality(Holders(s)) <= refcnt[s]
      /\ (~astray => Cardinality(Holders(s)) <= runrefcnt[s])
  BY InstanceFacts DEF Counts, CountsOK
<1>8. /\ refcnt'[s] + Cardinality(Hoping') <= allocs /\ Cardinality(Holders(s)') <= refcnt'[s]
      /\ (~astray' => Cardinality(Holders(s)') <= runrefcnt'[s])
  BY <1>2, <1>6, <1>7
<1>9. \A t \in Stream : /\ IsFiniteSet(Holders(t)')
                        /\ refcnt'[t] + Cardinality(Hoping') <= allocs
                        /\ Cardinality(Holders(t)') <= refcnt'[t]
                        /\ (~astray' => Cardinality(Holders(t)') <= runrefcnt'[t])
  <2> SUFFICES ASSUME NEW t \in Stream
               PROVE  /\ IsFiniteSet(Holders(t)')
                      /\ refcnt'[t] + Cardinality(Hoping') <= allocs
                      /\ Cardinality(Holders(t)') <= refcnt'[t]
                      /\ (~astray' => Cardinality(Holders(t)') <= runrefcnt'[t])
    OBVIOUS
  <2>1. CASE t = s
    BY <1>6, <1>8, <2>1
  <2>2. CASE t # s
    <3>1. refcnt'[t] = refcnt[t] /\ runrefcnt'[t] = runrefcnt[t] /\ Holders(t)' = Holders(t)
      BY <1>3, <2>2 DEF Counts
    <3>2. refcnt[t] \in Nat /\ refcnt[t] + Cardinality(Hoping) <= allocs
      BY InstanceFacts DEF CountsOK
    <3>3. refcnt'[t] + Cardinality(Hoping') <= allocs
      BY <1>2, <3>1, <3>2
    <3>4. ~astray' => ~astray
      OBVIOUS
    <3> QED
      BY <3>1, <3>3, <3>4 DEF CountsOK
  <2> QED
    BY <2>1, <2>2
<1>10. ~astray' => \A b \in App, t \in Stream : Holds(b, t)' => Prints(b)' \/ fstreamid'[b][t] > 0
  BY DEF CountsOK, Prints
<1> QED
  BY <1>2, <1>9, <1>10 DEF CountsOK

(* An allocation that fails at once: its caller hopes no more. *)
LEMMA AllocFailsInv ==
  ASSUME SubscriptionInv, AllocFails
  PROVE  SubscriptionInv'
<1> USE SubscriptionInv DEF SubscriptionInv
<1>0. /\ busy = Idle /\ inbox["rts"] # <<>> /\ Head(inbox["rts"]).callid \in Allocating
      /\ Served("rts") /\ Answer(Head(inbox["rts"]).from, AllocResult(FALSE, None))
      /\ flookup' = flookup /\ busy' = busy /\ pc' = pc /\ sub' = sub /\ shm' = shm /\ allocs' = allocs
      /\ astray' = astray /\ UNCHANGED exec
  BY DEF AllocFails, Allocation, Waiting, app
<1>1. PICK a \in App : /\ a = Head(inbox["rts"]).from /\ pc[a] \in {"alloc", "print"}
                       /\ result[a] = <<>> /\ Asked("rts", a)
  BY <1>0, OrderFacts DEF Allocating
<1>2. PICK r \in Results : r = Result(-1, None) /\ r.result # 0
  <2>1. Result(-1, None) \in Results /\ Result(-1, None).result # 0
    BY DEF Results, Result
  <2> QED
    BY <2>1
<1>3. Answer(a, <<r>>)
  BY <1>0, <1>1, <1>2 DEF AllocResult
<1>4. /\ CallsOK' /\ ResultsOK' /\ inbox' \in [{"ch", "rts"} -> Seq(Messages)]
      /\ result' \in [App \cup {"rts"} -> Seq(Results)] /\ ~Asked("rts", a)' /\ result'[a] = <<r>>
      /\ \A b \in App \ {a} : result'[b] = result[b] /\ (Asked("rts", b)' <=> Asked("rts", b))
  BY <1>0, <1>1, <1>2, <1>3, RtsAnswers
<1>5. /\ created' = created /\ refcnt' = refcnt /\ process' = process /\ runrefcnt' = runrefcnt
      /\ fstreamid' = fstreamid
  BY <1>0 DEF exec
<1>6. TypesOK' /\ RegistriesOK'
  BY <1>0, <1>4, <1>5 DEF TypesOK, RegistriesOK, Idle
<1>7. CountsOK'
  <2>1. \A b \in App \ {a} : (\A t \in Stream : Holds(b, t)' <=> Holds(b, t)) /\ ((b \in Hoping)' <=> b \in Hoping)
    BY <1>0, <1>4, HoldsSame
  <2>2. Head(<<r>>) = r /\ \A t \in Stream : r # Result(0, t)
    BY <1>2 DEF Result
  <2>3. busy.op \notin {"register", "print"} /\ busy'.op \notin {"register", "print"}
    BY <1>0 DEF Idle
  <2>4. \A t \in Stream : ~Holds(a, t) /\ ~Holds(a, t)'
    BY <1>0, <1>1, <1>4, <2>2, <2>3 DEF Holds
  <2>5. a \in Hoping /\ ~(a \in Hoping)'
    BY <1>0, <1>1, <1>4 DEF Hoping
  <2>6. Hoping' = Hoping \ {a} /\ \A s \in Stream : Holders(s)' = Holders(s)
    BY <2>1, <2>4, <2>5 DEF Hoping, Holders
  <2>7. IsFiniteSet(Hoping') /\ Cardinality(Hoping') = Cardinality(Hoping) - 1 /\ Cardinality(Hoping) \in Nat
    BY <2>5, <2>6, CountRemove DEF CountsOK
  <2>8. \A s \in Stream : refcnt[s] \in Nat /\ refcnt[s] + Cardinality(Hoping) <= allocs /\ allocs \in Nat
    BY InstanceFacts, SubscriptionAssumption DEF CountsOK, TypesOK
  <2>9. \A s \in Stream : refcnt[s] + Cardinality(Hoping') <= allocs
    BY <2>7, <2>8
  <2>10. ~astray' => \A b \in App, s \in Stream : Holds(b, s)' => Prints(b)' \/ fstreamid'[b][s] > 0
    BY <1>0, <1>5, <2>1, <2>4 DEF CountsOK, Prints
  <2> QED
    BY <1>0, <1>5, <2>6, <2>7, <2>9, <2>10 DEF CountsOK
<1> QED
  BY <1>4, <1>6, <1>7

(* FTA_ALLOC_INSTANCE without shared memory. *)
LEMMA RefuseInv ==
  ASSUME SubscriptionInv, NEW s \in Stream, RefuseAlloc(s)
  PROVE  SubscriptionInv'
<1> USE SubscriptionInv DEF SubscriptionInv
<1>0. /\ busy = Idle /\ inbox["rts"] # <<>> /\ Head(inbox["rts"]).callid = "FTA_ALLOC_INSTANCE"
      /\ SetExec(Remove(AllocInstance(Exec, s), s)) /\ astray' = TRUE /\ Served("rts")
      /\ Answer(Head(inbox["rts"]).from, AllocResult(FALSE, s))
      /\ flookup' = flookup /\ busy' = busy /\ pc' = pc /\ sub' = sub /\ shm' = shm /\ allocs' = allocs
  BY DEF RefuseAlloc, Allocation, Waiting
<1>1. PICK a \in App : a = Head(inbox["rts"]).from /\ pc[a] = "alloc" /\ result[a] = <<>> /\ Asked("rts", a)
  BY <1>0, OrderFacts
<1>2. PICK r \in Results : r = Result(-1, None) /\ r.result # 0
  <2>1. Result(-1, None) \in Results /\ Result(-1, None).result # 0
    BY DEF Results, Result
  <2> QED
    BY <2>1
<1>3. Answer(a, <<r>>)
  BY <1>0, <1>1, <1>2 DEF AllocResult
<1>4. /\ CallsOK' /\ ResultsOK' /\ inbox' \in [{"ch", "rts"} -> Seq(Messages)]
      /\ result' \in [App \cup {"rts"} -> Seq(Results)] /\ ~Asked("rts", a)' /\ result'[a] = <<r>>
      /\ \A b \in App \ {a} : result'[b] = result[b] /\ (Asked("rts", b)' <=> Asked("rts", b))
  BY <1>0, <1>1, <1>2, <1>3, RtsAnswers
<1>5. RegistriesOK' /\ Counts(s, refcnt[s] + 1, OneLess(s)) /\ fstreamid' = fstreamid
  BY <1>0, RefuseEffect
<1>6. TypesOK'
  BY <1>0, <1>4 DEF TypesOK, Idle
<1>8. CountsOK'
  <2>1. \A b \in App \ {a} : (\A t \in Stream : Holds(b, t)' <=> Holds(b, t)) /\ ((b \in Hoping)' <=> b \in Hoping)
    BY <1>0, <1>4, HoldsSame
  <2>2. Head(<<r>>) = r /\ \A t \in Stream : r # Result(0, t)
    BY <1>2 DEF Result
  <2>3. busy.op \notin {"register", "print"} /\ busy'.op \notin {"register", "print"}
    BY <1>0 DEF Idle
  <2>4. \A t \in Stream : ~Holds(a, t) /\ ~Holds(a, t)'
    BY <1>0, <1>1, <1>4, <2>2, <2>3 DEF Holds
  <2>5. a \in Hoping /\ ~(a \in Hoping)'
    BY <1>0, <1>1, <1>4 DEF Hoping
  <2>6. OneLess(s) \in Nat /\ allocs \in Nat
    BY OneLessFacts, SubscriptionAssumption DEF TypesOK
  <2> QED
    BY <1>0, <1>5, <2>1, <2>4, <2>5, <2>6, ShareGained
<1> QED
  BY <1>4, <1>5, <1>6, <1>8

(* FTA_ALLOC_INSTANCE and FTA_ALLOC_PRINT_INSTANCE up to the registration. *)
LEMMA ServeAllocInv ==
  ASSUME SubscriptionInv, NEW s \in Stream, NEW callid \in Allocating, ServeAlloc(s, callid)
  PROVE  SubscriptionInv'
<1> USE SubscriptionInv DEF SubscriptionInv
<1> DEFINE print == callid = "FTA_ALLOC_PRINT_INSTANCE"
           op    == IF print THEN "print" ELSE "register"
<1>0. PICK m : m = Head(inbox["rts"])
  OBVIOUS
<1>a. /\ busy = Idle /\ inbox["rts"] # <<>> /\ m.callid = callid
      /\ SetExec(Insert(IF print THEN AllocInstance(Exec, s) ELSE AddStreamid(AllocInstance(Exec, s), m.from, s), s))
      /\ inbox' = [inbox EXCEPT !["rts"] = Tail(@),
                      !["ch"] = Append(@, [callid |-> "FTA_REGISTER", from |-> "rts",
                                           stream |-> s, reusable |-> m.reusable])]
      /\ busy' = [op |-> op, from |-> m.from, stream |-> s, reusable |-> m.reusable]
      /\ UNCHANGED <<result, flookup, app>>
  BY <1>0 DEF ServeAlloc, Allocation, Waiting
<1>b. /\ result' = result /\ flookup' = flookup /\ pc' = pc /\ sub' = sub /\ shm' = shm /\ allocs' = allocs
      /\ astray' = astray
  BY <1>a DEF app
<1>c. op \in {"register", "print"} /\ (print <=> op = "print") /\ (~print => callid = "FTA_ALLOC_INSTANCE")
  BY DEF Allocating
<1>1. PICK a \in App : /\ a = m.from /\ pc[a] = Caller(op) /\ pc[a] \in {"alloc", "print"}
                       /\ result[a] = <<>> /\ Asked("rts", a) /\ m.reusable \in {0, 1}
  BY <1>0, <1>a, <1>c, OrderFacts DEF Caller
<1> HIDE DEF op
<1>2. PICK n \in Reports : /\ n = [callid |-> "FTA_REGISTER", from |-> "rts", stream |-> s, reusable |-> m.reusable]
                           /\ n.callid = "FTA_REGISTER" /\ n.stream = s
  <2>1. [callid |-> "FTA_REGISTER", from |-> "rts", stream |-> s, reusable |-> m.reusable] \in Reports
    BY <1>1 DEF Reports
  <2> QED
    BY <2>1
<1>3. PICK w \in Work : /\ w = [op |-> op, from |-> m.from, stream |-> s, reusable |-> m.reusable]
                        /\ w.op = op /\ w.from = a /\ w.stream = s
  <2>1. [op |-> op, from |-> m.from, stream |-> s, reusable |-> m.reusable] \in Work
    BY <1>1, <1>c DEF Work
  <2> QED
    BY <1>1, <2>1
<1>4. inbox' = [inbox EXCEPT !["rts"] = Tail(@), !["ch"] = Append(@, n)] /\ busy' = w
  BY <1>2, <1>3, <1>a
<1>5. /\ CallsOK' /\ ResultsOK' /\ inbox' \in [{"ch", "rts"} -> Seq(Messages)]
      /\ ~Asked("rts", a)' /\ result["rts"] = <<>>
      /\ \A b \in App \ {a} : Asked("rts", b)' <=> Asked("rts", b)
  <2>1. /\ n.stream = w.stream /\ (n.callid = "FTA_REGISTER" <=> w.op \in {"register", "print"})
        /\ w.from = Head(inbox["rts"]).from
        /\ pc[w.from] = Caller(w.op)
        /\ result' = result /\ pc' = pc /\ sub' = sub
    BY <1>0, <1>1, <1>2, <1>3, <1>b, <1>c
  <2>2. /\ CallsOK' /\ ResultsOK' /\ inbox' \in [{"ch", "rts"} -> Seq(Messages)]
        /\ ~Asked("rts", w.from)' /\ result["rts"] = <<>>
        /\ \A b \in App \ {w.from} : Asked("rts", b)' <=> Asked("rts", b)
    BY <1>4, <1>a, <2>1, RtsCalls
  <2> QED
    BY <1>3, <2>2
<1>6. /\ RegistriesOK' /\ Counts(s, refcnt[s] + 1, runrefcnt[s] + 1)
      /\ \A b \in App, t \in Stream : fstreamid[b][t] > 0 => fstreamid'[b][t] > 0
      /\ print \/ fstreamid'[a][s] > 0
  <2>1. CASE print
    <3>1. SetExec(Insert(AllocInstance(Exec, s), s))
      BY <1>a, <2>1
    <3> QED
      BY <2>1, <3>1, InsertPrintEffect
  <2>2. CASE ~print
    <3>1. SetExec(Insert(AddStreamid(AllocInstance(Exec, s), a, s), s))
      BY <1>1, <1>a, <2>2
    <3> QED
      BY <3>1, InsertEffect
  <2> QED
    BY <2>1, <2>2
<1>7. TypesOK'
  BY <1>4, <1>5, <1>b DEF TypesOK, Idle
<1>8. busy.op \notin {"register", "print"}
  BY <1>a DEF Idle
<1>9. CountsOK'
  <2>1. \A b \in App \ {a} : (\A t \in Stream : Holds(b, t)' <=> Holds(b, t)) /\ ((b \in Hoping)' <=> b \in Hoping)
    BY <1>3, <1>4, <1>5, <1>8, <1>b, <1>c, HoldsSame
  <2>2. \A t \in Stream : ~Holds(a, t) /\ (Holds(a, t)' <=> t = s)
    BY <1>1, <1>3, <1>4, <1>8, <1>b, <1>c DEF Holds
  <2>3. a \in Hoping /\ ~(a \in Hoping)'
    BY <1>1, <1>5, <1>b DEF Hoping
  <2>4. runrefcnt[s] + 1 \in Nat /\ allocs \in Nat
    BY InstanceFacts, SubscriptionAssumption DEF TypesOK
  <2>5. print => Prints(a)
    BY <1>1, <1>c DEF Prints, Caller
  <2> QED
    BY <1>6, <1>b, <2>1, <2>2, <2>3, <2>4, <2>5, ShareGained
<1> QED
  BY <1>5, <1>6, <1>7, <1>9

(* The result of an allocation. *)
LEMMA AllocResultIs ==
  ASSUME NEW s \in Stream, NEW ok \in BOOLEAN, NEW rs, rs = AllocResult(ok, s)
  PROVE  /\ rs \in Seq(Results) /\ rs # <<>> /\ Len(rs) = 1 /\ Head(rs).result = (IF ok THEN 0 ELSE -1)
         /\ ok => Head(rs).stream \in Stream
         /\ \A t \in Stream : Head(rs) = Result(0, t) <=> ok /\ t = s
<1>1. /\ Result(0, s) \in Results /\ Result(0, s).result = 0 /\ Result(0, s).stream = s
      /\ Result(-1, None) \in Results /\ Result(-1, None).result = -1
      /\ \A t \in Stream : Result(0, t).result = 0 /\ Result(0, t).stream = t
  BY DEF Result, Results
<1>2. PICK r \in Results : r = IF ok THEN Result(0, s) ELSE Result(-1, None)
  BY <1>1
<1>3. rs = <<r>> /\ rs \in Seq(Results) /\ rs # <<>> /\ Len(rs) = 1 /\ Head(rs) = r
  BY <1>2 DEF AllocResult
<1>4. r.result = (IF ok THEN 0 ELSE -1) /\ (ok => r.stream = s)
  BY <1>1, <1>2
<1>5. \A t \in Stream : r = Result(0, t) <=> ok /\ t = s
  BY <1>1, <1>2, <1>4
<1> QED
  BY <1>3, <1>4, <1>5

(* An allocation is answered after the registration: its caller holds what the
   first result says. *)
LEMMA WorkAnswered ==
  ASSUME SubscriptionInv, NEW a, a = busy.from, NEW s, s = busy.stream,
         busy.op \in {"register", "print"}, result["rts"] # <<>>,
         NEW rs \in Seq(Results), rs # <<>>, Reply(rs),
         Len(rs) <= 1 \/ (busy.op = "print" /\ Head(rs).result = -1),
         Head(rs).result = 0 => Head(rs).stream \in Stream,
         busy' = Idle, inbox' = inbox, flookup' = flookup, pc' = pc, sub' = sub, shm' = shm,
         allocs' = allocs, astray' \in BOOLEAN
  PROVE  /\ a \in App /\ s \in Stream /\ Holds(a, s) /\ TypesOK' /\ CallsOK' /\ ResultsOK'
         /\ \A t \in Stream : (Holds(a, t) <=> t = s) /\ (Holds(a, t)' <=> Head(rs) = Result(0, t))
         /\ \A b \in App \ {a} : \A t \in Stream : Holds(b, t)' <=> Holds(b, t)
         /\ \A b \in App : (b \in Hoping)' <=> b \in Hoping
<1> USE SubscriptionInv DEF SubscriptionInv
<1>1. a \in App /\ s \in Stream /\ Holds(a, s) /\ busy # Idle /\ pc[a] \in {"alloc", "print"}
  BY WorkHeld DEF Idle, CallsOK, Caller
<1>2. /\ CallsOK' /\ ResultsOK' /\ result' \in [App \cup {"rts"} -> Seq(Results)]
      /\ result'[a] = rs /\ result[a] = <<>> /\ ~Asked("rts", a)
      /\ \A b \in App \ {a} : result'[b] = result[b]
      /\ \A b \in App : Asked("rts", b)' <=> Asked("rts", b)
  BY <1>1, WorkDone
<1>3. TypesOK'
  BY <1>2 DEF TypesOK, Idle
<1>4. busy'.op \notin {"register", "print"}
  BY DEF Idle
<1>5. \A b \in App \ {a} : (\A t \in Stream : Holds(b, t)' <=> Holds(b, t)) /\ ((b \in Hoping)' <=> b \in Hoping)
  BY <1>2, <1>4, HoldsSame
<1>6. \A t \in Stream : Holds(a, t) <=> t = s
  BY <1>1, <1>2 DEF Holds
<1>7. \A t \in Stream : Holds(a, t)' <=> Head(rs) = Result(0, t)
  BY <1>1, <1>2, <1>4 DEF Holds, Result
<1>8. ~(a \in Hoping)' /\ a \notin Hoping
  BY <1>1, <1>2 DEF Hoping
<1> QED
  BY <1>1, <1>2, <1>3, <1>5, <1>6, <1>7, <1>8

(* The instance is kept. *)
LEMMA WorkKept ==
  ASSUME SubscriptionInv, \A b \in App, t \in Stream : Holds(b, t)' <=> Holds(b, t),
         \A b \in App : (b \in Hoping)' <=> b \in Hoping,
         UNCHANGED exec, pc' = pc, allocs' = allocs, astray' = astray
  PROVE  RegistriesOK' /\ CountsOK'
<1>1. /\ created' = created /\ refcnt' = refcnt /\ process' = process /\ runrefcnt' = runrefcnt
      /\ fstreamid' = fstreamid
  BY DEF exec
<1>2. \A b \in App : Prints(b)' <=> Prints(b)
  BY DEF Prints
<1>3. RegistriesOK'
  BY <1>1 DEF RegistriesOK, SubscriptionInv
<1>4. CountsOK'
  BY <1>1, <1>2, CountsSame DEF SubscriptionInv
<1> QED
  BY <1>3, <1>4

(* The instance is given up. *)
LEMMA WorkLost ==
  ASSUME SubscriptionInv, NEW a \in App, NEW s \in Stream, Holds(a, s),
         \A t \in Stream : ~Holds(a, t)' /\ (Holds(a, t) => t = s),
         \A b \in App \ {a} : \A t \in Stream : Holds(b, t)' <=> Holds(b, t),
         \A b \in App : (b \in Hoping)' <=> b \in Hoping,
         RegistriesOK', Counts(s, refcnt[s] - 1, OneLess(s)), pc' = pc, allocs' = allocs, astray => astray',
         ~astray' => \A b \in App, t \in Stream : b # a \/ t # s => fstreamid'[b][t] = fstreamid[b][t]
  PROVE  CountsOK'
<1> USE DEF SubscriptionInv
<1>1. refcnt[s] \in Nat /\ refcnt[s] >= 1
  BY HolderCounted, InstanceFacts
<1>2. OneLess(s) \in Nat /\ OneLess(s) >= runrefcnt[s] - 1 /\ allocs \in Nat
  BY OneLessFacts, SubscriptionAssumption DEF TypesOK
<1>3. refcnt[s] - 1 \in Nat /\ refcnt[s] - 1 <= refcnt[s] /\ refcnt[s] - 1 >= refcnt[s] - 1
  BY <1>1
<1> QED
  BY <1>2, <1>3, ShareLost

(* FTA_ALLOC_INSTANCE after the registration. *)
LEMMA RegisteredInv ==
  ASSUME SubscriptionInv, NEW ok \in BOOLEAN, Registered(ok)
  PROVE  SubscriptionInv'
<1> USE SubscriptionInv DEF SubscriptionInv
<1>1. PICK a : a = busy.from
  OBVIOUS
<1>2. PICK s : s = busy.stream
  OBVIOUS
<1>3. /\ busy.op = "register" /\ result["rts"] # <<>> /\ busy' = Idle /\ inbox' = inbox /\ flookup' = flookup
      /\ Reply(AllocResult(ok, s)) /\ pc' = pc /\ sub' = sub /\ shm' = shm /\ allocs' = allocs /\ astray' = astray
      /\ IF ok THEN UNCHANGED exec ELSE SetExec(FreeInstance(RmStreamid(Remove(Exec, s), a, s), s))
  BY <1>1, <1>2 DEF Registered, Back, app
<1>4. a \in App /\ s \in Stream /\ astray' \in BOOLEAN
  BY <1>1, <1>2, <1>3, WorkHeld DEF TypesOK
<1>a. PICK rs : rs = AllocResult(ok, s)
  OBVIOUS
<1>5. /\ rs \in Seq(Results) /\ rs # <<>> /\ Len(rs) <= 1 /\ Reply(rs)
      /\ Head(rs).result = 0 => Head(rs).stream \in Stream
      /\ \A t \in Stream : Head(rs) = Result(0, t) <=> ok /\ t = s
  <2>1. Head(rs).result = (IF ok THEN 0 ELSE -1) /\ (ok => Head(rs).stream \in Stream)
    BY <1>4, <1>a, AllocResultIs
  <2>2. Len(rs) = 1 /\ rs \in Seq(Results) /\ rs # <<>>
    BY <1>4, <1>a, AllocResultIs
  <2> QED
    BY <1>3, <1>4, <1>a, <2>1, <2>2, AllocResultIs
<1>6. /\ Holds(a, s) /\ TypesOK' /\ CallsOK' /\ ResultsOK'
      /\ \A t \in Stream : (Holds(a, t) <=> t = s) /\ (Holds(a, t)' <=> Head(rs) = Result(0, t))
      /\ \A b \in App \ {a} : \A t \in Stream : Holds(b, t)' <=> Holds(b, t)
      /\ \A b \in App : (b \in Hoping)' <=> b \in Hoping
  BY <1>1, <1>2, <1>3, <1>4, <1>5, WorkAnswered
<1>7. RegistriesOK' /\ CountsOK'
  <2>1. CASE ok
    <3>1. \A b \in App, t \in Stream : Holds(b, t)' <=> Holds(b, t)
      BY <1>4, <1>5, <1>6, <2>1
    <3> QED
      BY <1>3, <1>6, <2>1, <3>1, WorkKept
  <2>2. CASE ~ok
    <3>1. refcnt[s] > 0
      BY <1>4, <1>6, HolderCounted, InstanceFacts
    <3>2. /\ RegistriesOK' /\ Counts(s, refcnt[s] - 1, OneLess(s))
          /\ \A b \in App, t \in Stream : b # a \/ t # s => fstreamid'[b][t] = fstreamid[b][t]
      BY <1>3, <1>4, <2>2, <3>1, GiveUpEffect
    <3>3. \A t \in Stream : ~Holds(a, t)' /\ (Holds(a, t) => t = s)
      BY <1>5, <1>6, <2>2
    <3> QED
      BY <1>3, <1>4, <1>6, <3>2, <3>3, WorkLost
  <2> QED
    BY <2>1, <2>2
<1> QED
  BY <1>6, <1>7

(* FTA_ALLOC_PRINT_INSTANCE after a registration that failed. *)
LEMMA PrintRefusedInv ==
  ASSUME SubscriptionInv, PrintRefused
  PROVE  SubscriptionInv'
<1> USE SubscriptionInv DEF SubscriptionInv
<1>1. PICK a : a = busy.from
  OBVIOUS
<1>2. PICK s : s = busy.stream
  OBVIOUS
<1>3. /\ busy.op = "print" /\ result["rts"] # <<>> /\ busy' = Idle /\ inbox' = inbox /\ flookup' = flookup
      /\ Reply(AllocResult(FALSE, s)) /\ pc' = pc /\ sub' = sub /\ shm' = shm /\ allocs' = allocs
      /\ \/ SetExec(FreeInstance(Remove(Exec, s), s)) /\ astray' = astray
         \/ \E b \in App : SetExec(FreeInstance(RmStreamid(Remove(Exec, s), b, s), s)) /\ astray' = TRUE
  BY <1>2 DEF PrintRefused, Back
<1>4. a \in App /\ s \in Stream /\ astray' \in BOOLEAN
  BY <1>1, <1>2, <1>3, WorkHeld DEF TypesOK
<1>a. PICK rs : rs = AllocResult(FALSE, s)
  OBVIOUS
<1>5. /\ rs \in Seq(Results) /\ rs # <<>> /\ Len(rs) <= 1 /\ Reply(rs)
      /\ Head(rs).result # 0 /\ \A t \in Stream : Head(rs) # Result(0, t)
  <2>1. Head(rs).result = -1 /\ Len(rs) = 1 /\ rs \in Seq(Results) /\ rs # <<>>
    BY <1>4, <1>a, AllocResultIs
  <2>2. \A t \in Stream : Head(rs) # Result(0, t)
    BY <2>1 DEF Result
  <2>3. Len(rs) <= 1 /\ Head(rs).result # 0
    BY <2>1
  <2> QED
    BY <1>3, <1>a, <2>1, <2>2, <2>3
<1>6. /\ Holds(a, s) /\ TypesOK' /\ CallsOK' /\ ResultsOK'
      /\ \A t \in Stream : (Holds(a, t) <=> t = s) /\ (Holds(a, t)' <=> Head(rs) = Result(0, t))
      /\ \A b \in App \ {a} : \A t \in Stream : Holds(b, t)' <=> Holds(b, t)
      /\ \A b \in App : (b \in Hoping)' <=> b \in Hoping
  BY <1>1, <1>2, <1>3, <1>4, <1>5, WorkAnswered
<1>7. refcnt[s] > 0
  BY <1>4, <1>6, HolderCounted, InstanceFacts
<1>8. /\ RegistriesOK' /\ Counts(s, refcnt[s] - 1, OneLess(s)) /\ (astray => astray')
      /\ ~astray' => fstreamid' = fstreamid
  <2>1. CASE SetExec(FreeInstance(Remove(Exec, s), s)) /\ astray' = astray
    BY <1>4, <1>7, <2>1, GiveUpPrinting
  <2>2. ASSUME NEW b \in App, SetExec(FreeInstance(RmStreamid(Remove(Exec, s), b, s), s)), astray' = TRUE
        PROVE  RegistriesOK' /\ Counts(s, refcnt[s] - 1, OneLess(s)) /\ astray'
    BY <1>4, <1>7, <2>2, GiveUpEffect
  <2> QED
    BY <1>3, <2>1, <2>2
<1>9. \A t \in Stream : ~Holds(a, t)' /\ (Holds(a, t) => t = s)
  BY <1>5, <1>6
<1>10. CountsOK'
  BY <1>3, <1>4, <1>6, <1>8, <1>9, WorkLost
<1> QED
  BY <1>6, <1>8, <1>10

(* Two results, and the first of them. *)
LEMMA HeadOfConcat ==
  ASSUME NEW M, NEW x \in Seq(M), NEW y \in Seq(M), Len(x) = 1
  PROVE  x \o y \in Seq(M) /\ x \o y # <<>> /\ Head(x \o y) = Head(x)
<1> DEFINE z == x \o y
<1>1. /\ z \in Seq(M) /\ Len(z) = Len(x) + Len(y)
      /\ \A i \in 1 .. Len(x) + Len(y) : z[i] = IF i <= Len(x) THEN x[i] ELSE y[i - Len(x)]
  BY ConcatProperties
<1>2. Len(y) \in Nat
  BY LenProperties
<1> HIDE DEF z
<1>3. z[1] = x[1] /\ Len(z) # 0
  BY <1>1, <1>2
<1>5. z # <<>> /\ x # <<>>
  <2>1. Len(<<>>) = 0 /\ Len(x) # 0
    OBVIOUS
  <2> QED
    BY <1>3, <2>1
<1>4. Head(z) = z[1] /\ Head(x) = x[1]
  BY <1>1, <1>5, HeadTailProperties
<1> QED
  BY <1>1, <1>3, <1>4, <1>5 DEF z

(* FTA_ALLOC_PRINT_INSTANCE after one that succeeded. *)
LEMMA PrintRegisteredInv ==
  ASSUME SubscriptionInv, NEW prints \in BOOLEAN, PrintRegistered(prints)
  PROVE  SubscriptionInv'
<1> USE SubscriptionInv DEF SubscriptionInv
<1>1. PICK a : a = busy.from
  OBVIOUS
<1>2. PICK s : s = busy.stream
  OBVIOUS
<1>3. /\ busy.op = "print" /\ result["rts"] # <<>> /\ busy' = Idle /\ inbox' = inbox /\ flookup' = flookup
      /\ Reply((IF prints THEN <<>> ELSE AllocResult(FALSE, s)) \o AllocResult(TRUE, s))
      /\ pc' = pc /\ sub' = sub /\ shm' = shm /\ allocs' = allocs /\ astray' = astray
      /\ IF prints THEN UNCHANGED exec ELSE SetExec(FreeInstance(Remove(Exec, s), s))
  BY <1>2 DEF PrintRegistered, Back, app
<1>4. a \in App /\ s \in Stream /\ astray' \in BOOLEAN
  BY <1>1, <1>2, <1>3, WorkHeld DEF TypesOK
<1>a. PICK x : x = AllocResult(FALSE, s)
  OBVIOUS
<1>b. PICK y : y = AllocResult(TRUE, s)
  OBVIOUS
<1>c. PICK rs : rs = (IF prints THEN <<>> ELSE x) \o y
  OBVIOUS
<1>5. /\ rs \in Seq(Results) /\ rs # <<>> /\ Reply(rs)
      /\ Len(rs) <= 1 \/ Head(rs).result = -1
      /\ Head(rs).result = 0 => Head(rs).stream \in Stream
      /\ \A t \in Stream : Head(rs) = Result(0, t) <=> prints /\ t = s
  <2>1. /\ y \in Seq(Results) /\ y # <<>> /\ Len(y) = 1 /\ Head(y).stream \in Stream
        /\ \A t \in Stream : Head(y) = Result(0, t) <=> t = s
    BY <1>4, <1>b, AllocResultIs
  <2>2. /\ x \in Seq(Results) /\ x # <<>> /\ Len(x) = 1 /\ Head(x).result = -1
        /\ \A t \in Stream : Head(x) # Result(0, t)
    BY <1>4, <1>a, AllocResultIs
  <2>3. Reply(rs)
    BY <1>3, <1>a, <1>b, <1>c
  <2>4. CASE prints
    <3>1. rs = y
      BY <1>c, <2>1, <2>4, ConcatEmptySeq
    <3>2. Len(y) <= 1
      BY <2>1
    <3> QED
      BY <2>1, <2>3, <2>4, <3>1, <3>2, Zenon
  <2>5. CASE ~prints
    <3>1. rs = x \o y
      BY <1>c, <2>5
    <3>2. rs \in Seq(Results) /\ rs # <<>> /\ Head(rs) = Head(x)
      BY <2>1, <2>2, <3>1, HeadOfConcat
    <3> QED
      BY <2>2, <2>3, <2>5, <3>2
  <2> QED
    BY <2>4, <2>5
<1>6. /\ Holds(a, s) /\ TypesOK' /\ CallsOK' /\ ResultsOK'
      /\ \A t \in Stream : (Holds(a, t) <=> t = s) /\ (Holds(a, t)' <=> Head(rs) = Result(0, t))
      /\ \A b \in App \ {a} : \A t \in Stream : Holds(b, t)' <=> Holds(b, t)
      /\ \A b \in App : (b \in Hoping)' <=> b \in Hoping
  BY <1>1, <1>2, <1>3, <1>4, <1>5, WorkAnswered
<1>7. RegistriesOK' /\ CountsOK'
  <2>1. CASE prints
    <3>1. \A b \in App, t \in Stream : Holds(b, t)' <=> Holds(b, t)
      BY <1>4, <1>5, <1>6, <2>1
    <3> QED
      BY <1>3, <1>6, <2>1, <3>1, WorkKept
  <2>2. CASE ~prints
    <3>1. refcnt[s] > 0
      BY <1>4, <1>6, HolderCounted, InstanceFacts
    <3>2. RegistriesOK' /\ Counts(s, refcnt[s] - 1, OneLess(s)) /\ fstreamid' = fstreamid
      BY <1>3, <1>4, <2>2, <3>1, GiveUpPrinting
    <3>3. \A t \in Stream : ~Holds(a, t)' /\ (Holds(a, t) => t = s)
      BY <1>5, <1>6, <2>2
    <3> QED
      BY <1>3, <1>4, <1>6, <3>2, <3>3, WorkLost
  <2> QED
    BY <2>1, <2>2
<1> QED
  BY <1>6, <1>7

(* What an application that frees an instance holds. *)
LEMMA FreeHeld ==
  ASSUME SubscriptionInv, busy = Idle, inbox["rts"] # <<>>, Head(inbox["rts"]).callid = "FTA_FREE_INSTANCE"
  PROVE  LET m == Head(inbox["rts"]) IN
         /\ m.from \in App /\ m.stream \in Stream /\ Holds(m.from, m.stream)
         /\ pc[m.from] = "free" /\ result[m.from] = <<>>
         /\ \A t \in Stream : Holds(m.from, t) => t = m.stream
<1> USE SubscriptionInv DEF SubscriptionInv
<1> DEFINE m == Head(inbox["rts"])
<1>1. m.from \in App /\ pc[m.from] = "free" /\ m.stream = sub[m.from] /\ result[m.from] = <<>> /\ Asked("rts", m.from)
  BY OrderFacts
<1> HIDE DEF m
<1>2. m.stream \in Stream
  BY <1>1 DEF ResultsOK
<1>3. Holds(m.from, m.stream) /\ \A t \in Stream : Holds(m.from, t) => t = m.stream
  BY <1>1 DEF Holds
<1> QED
  BY <1>1, <1>2, <1>3 DEF m

(* FTA_FREE_INSTANCE of an instance that runs: the caller is told that it
   failed, and the instance has one subscriber less. *)
LEMMA FreeRefusedInv ==
  ASSUME SubscriptionInv, busy = Idle, inbox["rts"] # <<>>,
         NEW m, m = Head(inbox["rts"]), m.callid = "FTA_FREE_INSTANCE",
         SetExec(Remove(Exec, m.stream)), Served("rts"), Answer(m.from, <<Result(-1, None)>>),
         UNCHANGED <<busy, flookup, app>>
  PROVE  SubscriptionInv'
<1> USE SubscriptionInv DEF SubscriptionInv
<1>1. PICK a \in App : a = m.from /\ pc[a] = "free" /\ result[a] = <<>>
  BY FreeHeld
<1>2. PICK s \in Stream : s = m.stream /\ Holds(a, s) /\ \A t \in Stream : Holds(a, t) => t = s
  BY <1>1, FreeHeld
<1>3. PICK r \in Results : r = Result(-1, None) /\ r.result # 0
  <2>1. Result(-1, None) \in Results /\ Result(-1, None).result # 0
    BY DEF Results, Result
  <2> QED
    BY <2>1
<1>4. pc' = pc /\ sub' = sub /\ shm' = shm /\ allocs' = allocs /\ astray' = astray
  BY DEF app
<1>5. /\ CallsOK' /\ ResultsOK' /\ inbox' \in [{"ch", "rts"} -> Seq(Messages)]
      /\ result' \in [App \cup {"rts"} -> Seq(Results)] /\ ~Asked("rts", a)'
      /\ \A b \in App \ {a} : result'[b] = result[b] /\ (Asked("rts", b)' <=> Asked("rts", b))
  BY <1>1, <1>3, <1>4, RtsAnswers
<1>6. RegistriesOK' /\ Counts(s, refcnt[s], OneLess(s)) /\ fstreamid' = fstreamid
  BY <1>2, RemoveEffect
<1>7. TypesOK'
  BY <1>4, <1>5 DEF TypesOK, Idle
<1>8. busy.op \notin {"register", "print"} /\ busy'.op \notin {"register", "print"}
  BY DEF Idle
<1>9. CountsOK'
  <2>1. \A b \in App \ {a} : (\A t \in Stream : Holds(b, t)' <=> Holds(b, t)) /\ ((b \in Hoping)' <=> b \in Hoping)
    BY <1>4, <1>5, <1>8, HoldsSame
  <2>2. \A t \in Stream : ~Holds(a, t)'
    BY <1>1, <1>4, <1>5 DEF Holds
  <2>3. a \notin Hoping /\ ~(a \in Hoping)'
    BY <1>1, <1>4 DEF Hoping
  <2>4. OneLess(s) \in Nat /\ OneLess(s) >= runrefcnt[s] - 1 /\ allocs \in Nat
        /\ refcnt[s] \in Nat /\ refcnt[s] <= refcnt[s] /\ refcnt[s] >= refcnt[s] - 1
    BY OneLessFacts, InstanceFacts, SubscriptionAssumption DEF TypesOK
  <2>5. \A b \in App : (b \in Hoping)' <=> b \in Hoping
    BY <2>1, <2>3
  <2> QED
    BY <1>2, <1>4, <1>6, <2>1, <2>2, <2>4, <2>5, ShareLost
<1> QED
  BY <1>5, <1>6, <1>7, <1>9

(* FTA_FREE_INSTANCE of an instance that does not run: it is given up, and the
   clearinghouse is told.  An application holds such an instance only after an
   clean-up that took its share. *)
LEMMA FreeServedInv ==
  ASSUME SubscriptionInv, busy = Idle, inbox["rts"] # <<>>,
         NEW m, m = Head(inbox["rts"]), m.callid = "FTA_FREE_INSTANCE", m.stream \notin process,
         SetExec(FreeInstance(RmStreamid(Remove(Exec, m.stream), m.from, m.stream), m.stream)),
         inbox' = [inbox EXCEPT !["rts"] = Tail(@),
                     !["ch"] = Append(@, [callid |-> "FTA_UNREGISTER", from |-> "rts",
                                          stream |-> m.stream, reusable |-> 0])],
         busy' = [op |-> "unregister", from |-> m.from, stream |-> m.stream, reusable |-> 0],
         UNCHANGED <<result, flookup, app>>
  PROVE  SubscriptionInv'
<1> USE SubscriptionInv DEF SubscriptionInv
<1>1. PICK a \in App : a = m.from /\ pc[a] = "free" /\ result[a] = <<>>
  BY FreeHeld
<1>2. PICK s \in Stream : s = m.stream /\ Holds(a, s) /\ \A t \in Stream : Holds(a, t) => t = s
  BY <1>1, FreeHeld
<1>3. PICK n \in Reports : /\ n = [callid |-> "FTA_UNREGISTER", from |-> "rts", stream |-> m.stream, reusable |-> 0]
                           /\ n.callid = "FTA_UNREGISTER" /\ n.stream = s
  <2>1. [callid |-> "FTA_UNREGISTER", from |-> "rts", stream |-> m.stream, reusable |-> 0] \in Reports
    BY <1>2 DEF Reports
  <2> QED
    BY <1>2, <2>1
<1>4. PICK w \in Work : /\ w = [op |-> "unregister", from |-> m.from, stream |-> m.stream, reusable |-> 0]
                        /\ w.op = "unregister" /\ w.from = a /\ w.stream = s
  <2>1. [op |-> "unregister", from |-> m.from, stream |-> m.stream, reusable |-> 0] \in Work
    BY <1>1, <1>2 DEF Work
  <2> QED
    BY <1>1, <1>2, <2>1
<1>5. pc' = pc /\ sub' = sub /\ shm' = shm /\ allocs' = allocs /\ astray' = astray
  BY DEF app
<1>6. inbox' = [inbox EXCEPT !["rts"] = Tail(@), !["ch"] = Append(@, n)] /\ busy' = w
  BY <1>3, <1>4
<1>7. /\ CallsOK' /\ ResultsOK' /\ inbox' \in [{"ch", "rts"} -> Seq(Messages)] /\ ~Asked("rts", a)'
      /\ \A b \in App \ {a} : Asked("rts", b)' <=> Asked("rts", b)
  <2>1. /\ n.stream = w.stream /\ (n.callid = "FTA_REGISTER" <=> w.op \in {"register", "print"})
        /\ w.from = Head(inbox["rts"]).from
        /\ pc[w.from] = Caller(w.op) /\ result' = result
    BY <1>1, <1>3, <1>4 DEF Caller
  <2>2. /\ CallsOK' /\ ResultsOK' /\ inbox' \in [{"ch", "rts"} -> Seq(Messages)]
        /\ ~Asked("rts", w.from)' /\ \A b \in App \ {w.from} : Asked("rts", b)' <=> Asked("rts", b)
    BY <1>5, <1>6, <2>1, RtsCalls
  <2> QED
    BY <1>4, <2>2
<1>8. refcnt[s] \in Nat /\ refcnt[s] >= 1 /\ astray
  BY <1>2, HolderCounted, InstanceFacts
<1>9. /\ RegistriesOK' /\ Counts(s, refcnt[s] - 1, OneLess(s))
      /\ \A b \in App, t \in Stream : b # a \/ t # s => fstreamid'[b][t] = fstreamid[b][t]
  BY <1>1, <1>2, <1>8, GiveUpEffect
<1>10. TypesOK'
  BY <1>5, <1>6, <1>7 DEF TypesOK, Idle
<1>12. busy.op \notin {"register", "print"} /\ busy'.op \notin {"register", "print"}
  BY <1>4, <1>6 DEF Idle
<1>13. CountsOK'
  <2>1. \A b \in App \ {a} : (\A t \in Stream : Holds(b, t)' <=> Holds(b, t)) /\ ((b \in Hoping)' <=> b \in Hoping)
    BY <1>5, <1>7, <1>12, HoldsSame
  <2>2. \A t \in Stream : ~Holds(a, t)'
    BY <1>1, <1>5, <1>7 DEF Holds
  <2>3. a \notin Hoping /\ ~(a \in Hoping)'
    BY <1>1, <1>5 DEF Hoping
  <2>4. OneLess(s) \in Nat /\ OneLess(s) >= runrefcnt[s] - 1 /\ allocs \in Nat
        /\ refcnt[s] - 1 \in Nat /\ refcnt[s] - 1 <= refcnt[s] /\ refcnt[s] - 1 >= refcnt[s] - 1
    BY <1>8, OneLessFacts, SubscriptionAssumption, SMTT(30) DEF TypesOK
  <2>5. \A b \in App : (b \in Hoping)' <=> b \in Hoping
    BY <2>1, <2>3
  <2> QED
    BY <1>2, <1>5, <1>9, <2>1, <2>2, <2>4, <2>5, ShareLost
<1> QED
  BY <1>7, <1>9, <1>10, <1>13

(* FTA_FREE_INSTANCE *)
LEMMA ServeFreeInv ==
  ASSUME SubscriptionInv, ServeFree
  PROVE  SubscriptionInv'
<1>1. PICK m : m = Head(inbox["rts"])
  OBVIOUS
<1>2. /\ busy = Idle /\ inbox["rts"] # <<>> /\ m.callid = "FTA_FREE_INSTANCE"
      /\ UNCHANGED <<flookup, app>>
  BY <1>1 DEF ServeFree, Waiting
<1>3. CASE m.stream \in process
  BY <1>1, <1>2, <1>3, FreeRefusedInv DEF ServeFree, RemoveReported
<1>4. CASE m.stream \notin process
  BY <1>1, <1>2, <1>4, FreeServedInv DEF ServeFree, RemoveReported
<1> QED
  BY <1>3, <1>4

(* FTA_FREE_INSTANCE after the unregistration. *)
LEMMA UnregisteredInv ==
  ASSUME SubscriptionInv, Unregistered
  PROVE  SubscriptionInv'
<1> USE SubscriptionInv DEF SubscriptionInv
<1>1. /\ busy.op = "unregister" /\ result["rts"] # <<>> /\ busy' = Idle /\ busy # Idle
      /\ Reply(<<Result(0, None)>>) /\ UNCHANGED <<inbox, flookup, exec, app>>
  BY DEF Unregistered, Back, Idle
<1>2. PICK a \in App : a = busy.from
  BY <1>1, WorkFacts DEF TypesOK
<1>3. PICK rs \in Seq(Results) : rs = <<Result(0, None)>> /\ Len(rs) <= 1
  <2>1. Result(0, None) \in Results
    BY DEF Result, Results
  <2>2. <<Result(0, None)>> \in Seq(Results) /\ Len(<<Result(0, None)>>) <= 1
    BY <2>1
  <2> QED
    BY <2>2
<1>4. /\ pc' = pc /\ sub' = sub /\ inbox' = inbox /\ shm' = shm /\ allocs' = allocs /\ astray' = astray
      /\ flookup' = flookup /\ created' = created /\ refcnt' = refcnt /\ process' = process
      /\ runrefcnt' = runrefcnt /\ fstreamid' = fstreamid
  BY <1>1 DEF app, exec
<1>6. /\ CallsOK' /\ ResultsOK' /\ result' \in [App \cup {"rts"} -> Seq(Results)]
      /\ ~Asked("rts", a) /\ \A b \in App \ {a} : result'[b] = result[b]
      /\ \A b \in App : Asked("rts", b)' <=> Asked("rts", b)
  BY <1>1, <1>2, <1>3, <1>4, WorkDone
<1>7. TypesOK'
  BY <1>1, <1>4, <1>6 DEF TypesOK, Idle
<1>8. pc[a] = "free"
  BY <1>1, <1>2 DEF CallsOK, Caller
<1>9. busy'.op \notin {"register", "print"} /\ busy.op \notin {"register", "print"}
  BY <1>1 DEF Idle
<1>10. CountsOK'
  <2>1. \A b \in App \ {a} : (\A t \in Stream : Holds(b, t)' <=> Holds(b, t)) /\ ((b \in Hoping)' <=> b \in Hoping)
    BY <1>4, <1>6, <1>9, HoldsSame
  <2>2. \A t \in Stream : ~Holds(a, t) /\ ~Holds(a, t)'
    BY <1>4, <1>6, <1>8 DEF Holds
  <2>3. a \notin Hoping /\ ~(a \in Hoping)'
    BY <1>4, <1>8 DEF Hoping
  <2>4. \A b \in App : (b \in Hoping)' <=> b \in Hoping
    BY <2>1, <2>3
  <2>5. \A b \in App, t \in Stream : Holds(b, t)' <=> Holds(b, t)
    BY <2>1, <2>2
  <2>6. \A b \in App : Prints(b)' <=> Prints(b)
    BY <1>4 DEF Prints
  <2> QED
    BY <1>4, <2>4, <2>5, <2>6, CountsSame
<1>11. RegistriesOK'
  BY <1>4 DEF RegistriesOK
<1> QED
  BY <1>6, <1>7, <1>10, <1>11

-----------------------------------------------------------------------------
(* The theorems. *)

(* At the start nobody has called. *)
LEMMA SubscriptionInit == Init => SubscriptionInv
<1> SUFFICES ASSUME Init PROVE SubscriptionInv
  OBVIOUS
<1> USE Init DEF Init
<1>1. TypesOK
  <2>1. inbox \in [{"ch", "rts"} -> Seq(Messages)] /\ result \in [App \cup {"rts"} -> Seq(Results)]
        /\ flookup \in Seq(Entries)
    OBVIOUS
  <2>2. 0 \in 0 .. MaxAllocs
    BY SubscriptionAssumption
  <2> QED
    BY <2>1, <2>2 DEF TypesOK
<1>2. RegistriesOK
  BY DEF RegistriesOK
<1>3. Elems(inbox["ch"]) = {} /\ Elems(inbox["rts"]) = {} /\ Once(inbox["ch"]) /\ Once(inbox["rts"])
  BY DEF Elems, Once
<1>4. CallsOK
  BY <1>3 DEF CallsOK
<1>5. ResultsOK
  BY DEF ResultsOK
<1>6. CountsOK
  <2>1. Hoping = {}
    BY DEF Hoping
  <2>2. \A a \in App, s \in Stream : ~Holds(a, s)
    BY DEF Holds
  <2>3. \A s \in Stream : Holders(s) = {}
    BY <2>2 DEF Holders
  <2>4. IsFiniteSet({}) /\ Cardinality({}) = 0
    BY FS_EmptySet
  <2>5. \A s \in Stream : refcnt[s] = 0 /\ runrefcnt[s] = 0 /\ refcnt[s] + 0 <= allocs
    OBVIOUS
  <2>6. \A s \in Stream : /\ IsFiniteSet(Holders(s))
                          /\ refcnt[s] + Cardinality(Hoping) <= allocs
                          /\ Cardinality(Holders(s)) <= refcnt[s]
                          /\ Cardinality(Holders(s)) <= runrefcnt[s]
    <3> SUFFICES ASSUME NEW s \in Stream
                 PROVE  /\ IsFiniteSet(Holders(s))
                        /\ refcnt[s] + Cardinality(Hoping) <= allocs
                        /\ Cardinality(Holders(s)) <= refcnt[s]
                        /\ Cardinality(Holders(s)) <= runrefcnt[s]
      OBVIOUS
    <3>1. IsFiniteSet(Holders(s)) /\ Cardinality(Holders(s)) = 0 /\ Cardinality(Hoping) = 0
      BY <2>1, <2>3, <2>4
    <3>2. refcnt[s] = 0 /\ runrefcnt[s] = 0 /\ allocs = 0
      BY <2>5
    <3> QED
      BY <3>1, <3>2
  <2> QED
    BY <2>1, <2>2, <2>4, <2>6 DEF CountsOK
<1> QED
  BY <1>1, <1>2, <1>4, <1>5, <1>6 DEF SubscriptionInv

(* Nothing changes without a step. *)
LEMMA SubscriptionStutter ==
  ASSUME SubscriptionInv, UNCHANGED vars
  PROVE  SubscriptionInv'
<1> USE SubscriptionInv DEF SubscriptionInv
<1>1. /\ inbox' = inbox /\ result' = result /\ flookup' = flookup /\ created' = created /\ refcnt' = refcnt
      /\ process' = process /\ runrefcnt' = runrefcnt /\ fstreamid' = fstreamid /\ busy' = busy
      /\ pc' = pc /\ sub' = sub /\ shm' = shm /\ allocs' = allocs /\ astray' = astray
  BY DEF vars, exec, app
<1>2. TypesOK' /\ RegistriesOK' /\ ResultsOK'
  BY <1>1 DEF TypesOK, RegistriesOK, ResultsOK, Idle
<1>3. \A b \in App : Asked("rts", b)' <=> Asked("rts", b)
  BY <1>1 DEF Asked
<1>4. CountsOK'
  <2>1. \A b \in App : (\A t \in Stream : Holds(b, t)' <=> Holds(b, t)) /\ ((b \in Hoping)' <=> b \in Hoping)
    BY <1>1, <1>3, HoldsSame
  <2>2. \A b \in App : Prints(b)' <=> Prints(b)
    BY <1>1 DEF Prints
  <2> QED
    BY <1>1, <2>1, <2>2, CountsSame
<1>6. CallsOK'
  <2>1. \A m : (ChOK(m)' <=> ChOK(m)) /\ (RtsOK(m)' <=> RtsOK(m))
    BY <1>1 DEF ChOK, RtsOK, Idle
  <2> QED
    BY <1>1, <2>1 DEF CallsOK, Idle, Caller
<1> QED
  BY <1>2, <1>4, <1>6

(* Every step keeps the invariant. *)
LEMMA SubscriptionNext ==
  ASSUME SubscriptionInv, [Next]_vars
  PROVE  SubscriptionInv'
<1>1. ASSUME NEW a \in App, Application(a) PROVE SubscriptionInv'
  <2>1. ASSUME NEW reuse \in {0, 1}, Find(a, reuse) PROVE SubscriptionInv'
    BY <2>1, FindInv
  <2>2. ASSUME NEW reusable \in {0, 1}, NEW acked \in BOOLEAN, Alloc(a, reusable, acked) PROVE SubscriptionInv'
    BY <2>2, AllocInv
  <2>3. CASE Allocated(a)
    BY <2>3, AllocatedInv
  <2>4. CASE Free(a)
    BY <2>4, FreeInv
  <2>5. CASE Freed(a)
    BY <2>5, FreedInv
  <2>6. ASSUME NEW reusable \in {0, 1}, AllocPrint(a, reusable) PROVE SubscriptionInv'
    BY <2>6, PrintInv
  <2>7. CASE Printed(a)
    BY <2>7, PrintedInv
  <2> QED
    BY <1>1, <2>1, <2>2, <2>3, <2>4, <2>5, <2>6, <2>7 DEF Application, Continue
<1>2. CASE Clearinghouse
  <2>1. ASSUME NEW told \in BOOLEAN, NEW init \in BOOLEAN, Register(told, init) PROVE SubscriptionInv'
    BY <2>1, RegisterInv
  <2> QED
    BY <1>2, <2>1, LookupInv, UnregisterInv DEF Clearinghouse
<1>3. CASE Service
  <2>1. ASSUME NEW s \in Stream, NEW callid \in Allocating, ServeAlloc(s, callid) PROVE SubscriptionInv'
    BY <2>1, ServeAllocInv
  <2>2. ASSUME NEW s \in Stream, RefuseAlloc(s) PROVE SubscriptionInv'
    BY <2>2, RefuseInv
  <2>3. ASSUME NEW ok \in BOOLEAN, Registered(ok) PROVE SubscriptionInv'
    BY <2>3, RegisteredInv
  <2>4. ASSUME NEW prints \in BOOLEAN, PrintRegistered(prints) PROVE SubscriptionInv'
    BY <2>4, PrintRegisteredInv
  <2> QED
    BY <1>3, <2>1, <2>2, <2>3, <2>4, AllocFailsInv, PrintRefusedInv, ServeFreeInv, UnregisteredInv DEF Service
<1>4. CASE UNCHANGED vars
  BY <1>4, SubscriptionStutter
<1> QED
  BY <1>1, <1>2, <1>3, <1>4 DEF Next

(* The invariant of lookups, allocations, registrations and frees, whoever makes
   them and however they fail: a call is in one place, every instance has a
   reference for each application that holds it, and no more references than
   there were allocations. *)
THEOREM SubscriptionInvariant == Spec => []SubscriptionInv
<1> QED
  BY SubscriptionInit, SubscriptionNext, PTL DEF Spec

(* The reference counts of the instances (ftaexec_alloc_instance,
   ftaexec_free_instance) agree with the list of those that exist, and those of
   the running ones (ftaexec_insert, ftaexec_remove) with the list of those that
   run, which all exist. *)
THEOREM SubscriptionTypes == Spec => []TypeOK
<1>1. SubscriptionInv => TypeOK
  <2> SUFFICES ASSUME SubscriptionInv PROVE TypeOK
    OBVIOUS
  <2> USE DEF SubscriptionInv
  <2>1. Cardinality(Hoping) \in Nat
    BY FS_CardinalityType DEF CountsOK
  <2>2. allocs \in Nat /\ allocs <= MaxAllocs /\ MaxAllocs \in Nat
    BY SubscriptionAssumption DEF TypesOK
  <2>3. ASSUME NEW s \in Stream
        PROVE  /\ refcnt[s] \in 0 .. MaxAllocs /\ (s \in created <=> refcnt[s] > 0)
               /\ runrefcnt[s] \in 0 .. refcnt[s] /\ (s \in process <=> runrefcnt[s] > 0)
               /\ s \in process => s \in created
    <3>1. refcnt[s] + Cardinality(Hoping) <= allocs
      BY DEF CountsOK
    <3> QED
      BY <2>1, <2>2, <3>1, InstanceFacts
  <2>4. process \subseteq created /\ created \subseteq Stream
    BY <2>3 DEF RegistriesOK
  <2> QED
    BY <2>3, <2>4 DEF TypeOK, TypesOK
<1> QED
  BY <1>1, SubscriptionInvariant, PTL

(* As long as no clean-up of a failed allocation took the share of another
   (ftaexec_remove without shared memory, ftacallback_rm_streamid of a ring buffer
   that was never set), whatever others allocate, print and free, and whatever
   registration fails, a subscriber's instance runs and its ring buffer is mapped
   to it, and an instance that prints runs. *)
THEOREM SubscribersAreServed == Spec => []RunsWhileSubscribed
<1>1. SubscriptionInv => RunsWhileSubscribed
  <2> SUFFICES ASSUME SubscriptionInv, ~astray, NEW a \in App, pc[a] \in {"subscribed", "printing"}
               PROVE  sub[a] \in process /\ (pc[a] = "subscribed" => fstreamid[a][sub[a]] > 0)
    BY DEF RunsWhileSubscribed
  <2> USE DEF SubscriptionInv
  <2>1. sub[a] \in Stream /\ Holds(a, sub[a])
    BY DEF ResultsOK, Holds
  <2>2. sub[a] \in process /\ (Prints(a) \/ fstreamid[a][sub[a]] > 0)
    BY <2>1, HolderCounted
  <2>3. pc[a] = "subscribed" => ~Prints(a)
    BY DEF Prints
  <2> QED
    BY <2>2, <2>3
<1> QED
  BY <1>1, SubscriptionInvariant, PTL

(* A process never has more results coming than calls that it waits for, so that
   ipc_call_and_wait, which takes any result for its own, takes the right one:
   for every lookup, allocation and free, and for the registrations, and however
   they fail.  An application that asks for an instance that prints is left out:
   where the instance cannot print, fta_start_service sends it two results. *)
THEOREM ResultsMatchCalls == Spec => []OneResultPerCall
<1>1. SubscriptionInv => OneResultPerCall
  <2> SUFFICES ASSUME SubscriptionInv PROVE OneResultPerCall
    OBVIOUS
  <2> USE DEF SubscriptionInv
  <2>1. ASSUME NEW a \in App, pc[a] \notin {"print", "exited"}
        PROVE  Pending(a) <= IF pc[a] \in {"find", "alloc", "free"} THEN 1 ELSE 0
    <3> DEFINE in == {p \in {"ch", "rts"} : \E i \in 1 .. Len(inbox[p]) : inbox[p][i].from = a}
               w  == IF busy # Idle /\ busy.from = a THEN 1 ELSE 0
               c  == IF pc[a] \in {"find", "alloc", "free"} THEN 1 ELSE 0
    <3>1. Pending(a) = Len(result[a]) + Cardinality(in) + w
      BY DEF Pending
    <3>2. in = {p \in {"ch", "rts"} : Asked(p, a)}
      BY DEF Asked, Elems
    <3> HIDE DEF in
    <3>3. Len(result[a]) \in Nat /\ Len(result[a]) <= 1 /\ result[a] \in Seq(Results)
      <4>1. result[a] \in Seq(Results) /\ Len(result[a]) <= 1
        BY <2>1 DEF TypesOK, ResultsOK
      <4> QED
        BY <4>1, LenProperties
    <3>4. result[a] # <<>> => /\ ~Asked("ch", a) /\ ~Asked("rts", a) /\ ~(busy # Idle /\ busy.from = a)
                              /\ pc[a] \in {"find", "alloc", "free"}
      BY <2>1, CallerFacts DEF ResultsOK
    <3>5. /\ Cardinality({}) = 0 /\ Cardinality({"ch"}) = 1 /\ Cardinality({"rts"}) = 1
      BY FS_EmptySet, FS_Singleton
    <3>6. CASE result[a] # <<>>
      <4>1. in = {} /\ w = 0 /\ c = 1
        BY <3>2, <3>4, <3>6
      <4> QED
        BY <3>1, <3>3, <3>5, <4>1
    <3>7. CASE result[a] = <<>>
      <4>0. Len(result[a]) = 0
        BY <3>7
      <4>1. CASE Asked("ch", a)
        <5>1. in = {"ch"} /\ w = 0 /\ c = 1
          BY <2>1, <3>2, <4>1, CallerFacts
        <5> QED
          BY <3>1, <3>5, <4>0, <5>1
      <4>2. CASE Asked("rts", a)
        <5>1. in = {"rts"} /\ w = 0 /\ c = 1
          BY <2>1, <3>2, <4>2, CallerFacts
        <5> QED
          BY <3>1, <3>5, <4>0, <5>1
      <4>3. CASE ~Asked("ch", a) /\ ~Asked("rts", a)
        <5>1. in = {} /\ (w = 0 \/ w = 1) /\ (w = 1 => c = 1) /\ (c = 0 \/ c = 1)
          BY <2>1, <3>2, <4>3, CallerFacts
        <5> QED
          BY <3>1, <3>5, <4>0, <5>1
      <4> QED
        BY <4>1, <4>2, <4>3
    <3> QED
      BY <3>6, <3>7
  <2>2. Len(result["rts"]) <= IF busy = Idle THEN 0 ELSE 1
    BY DEF ResultsOK
  <2> QED
    BY <2>1, <2>2 DEF OneResultPerCall
<1> QED
  BY <1>1, SubscriptionInvariant, PTL

=============================================================================
