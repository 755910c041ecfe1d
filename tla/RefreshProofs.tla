----------------------------- MODULE RefreshProofs -----------------------------
(***************************************************************************)
(* Theorems about ProgressCache and LiveRefresh: what is shown of the      *)
(* database after it was read.                                             *)
(*                                                                         *)
(* ProgressCache.  What an answer and the cache may hold, for any number   *)
(* of summaries, writers, students and date ranges.                        *)
(*                                                                         *)
(* LiveRefresh.  For any number of pages, views, requests and streams: a   *)
(* channel of the hub is open while the hub knows it, and a view that is   *)
(* older than the database has a reason.  The argument needs that a page   *)
(* reads a stream of its own, and that only streams in their loops have    *)
(* events in their channels.                                               *)
(***************************************************************************)
EXTENDS ProgressCache, LiveRefresh, TLAPS

-----------------------------------------------------------------------------
(* ProgressCache *)

Busy(m) == ~At(m, "idle")

\* After the reset, if one was due, and before the answer.
Past(m) == sum[m].pc \in {"missing", "items", "work", "store", "collect"}

\* Summaries that have not met run one at a time.
CrowdInv ==
    crowd = "one" => \A m, q \in Summary : Busy(m) /\ Busy(q) => m = q

\* One summary at a time: the cache, the range it is for and the summary agree.
RangeInv ==
    crowd = "one" =>
        /\ \A s \in Student : cache[s] # None => cache[s].range = range
        /\ \A m \in Summary : Past(m) => range = sum[m].range
        /\ \A m \in Summary :
              sum[m].pc \in {"store", "answer"} => RightRange(m)

\* Versions only grow, and what a refresh finds was read after its reset.
FreshInv ==
    /\ \A m \in Summary, s \in Student : sum[m].since[s] <= work[s]
    /\ crowd = "one" =>
          \A m \in Summary : sum[m].refresh =>
              /\ Past(m) => \A s \in Student :
                    cache[s] # None => cache[s].work >= sum[m].since[s]
              /\ sum[m].pc \in {"store", "answer"} =>
                    \A s \in Answered(m) : sum[m].stats[s].work >= sum[m].since[s]

Current(m) == [s \in Student |->
                  [range |-> sum[m].range, items |-> items, work |-> work[s]]]

\* A refresh nobody disturbs, from its reset to its answer.
AloneInv ==
    \A m \in Summary : sum[m].alone =>
        /\ \A q \in Summary : q # m => At(q, "idle")
        /\ \A w \in Writer : wr[w] = {}
        /\ sum[m].refresh =>
              /\ sum[m].pc \in {"missing", "items", "work", "store"} => cache = Nothing
              /\ sum[m].pc \in {"items", "work", "store"} => sum[m].missing = Student
              /\ sum[m].pc \in {"work", "store"} => sum[m].items = items
              /\ sum[m].pc \in {"store", "answer"} => sum[m].stats = Current(m)
              /\ At(m, "collect") => cache = Current(m)

\* A summary under way has been asked for a range.
TypeInv == TypeOK /\ \A m \in Summary : Busy(m) => sum[m].range \in Range

IInv == /\ TypeInv /\ NoStaleWork /\ CrowdInv
        /\ RangeInv /\ FreshInv /\ AloneInv

-----------------------------------------------------------------------------
LEMMA NoneIsNoStats == None \notin Stats
  BY NoneAssumption DEF Stats

LEMMA IdleIsLocal == Idle \in Local
  BY DEF Idle, Local, Nothing, Table

\* A write for the students S whose handler will tell those of T.
Recorded(S, T) ==
    /\ Record(S, T)
    /\ \/ \E w \in Writer : wr[w] = {} /\ wr' = [wr EXCEPT ![w] = T]
       \/ T = {} /\ wr' = wr

\* The alternatives of a step, with their parameters.
LEMMA Steps ==
  ASSUME [Next]_vars
  PROVE  \/ \E m \in Summary, g \in Range, refresh \in BOOLEAN : Begin(m, g, refresh)
         \/ \E m \in Summary : \/ Reset(m) \/ FindMissing(m) \/ ReadItems(m)
                               \/ ReadWork(m) \/ Store(m) \/ Collect(m) \/ Finish(m)
         \/ \E S \in SUBSET Student, T \in SUBSET Student : Recorded(S, T)
         \/ \E w \in Writer, s \in Student : Invalidate(w, s)
         \/ EditItem
         \/ UNCHANGED vars
<1>1. CASE \E w \in Writer, S \in SUBSET Student : Write(w, S)
  BY <1>1 DEF Write, Recorded
<1>2. CASE \E w \in Writer, owner \in {{}} \cup {{s} : s \in Student},
              S \in SUBSET Student : Complete(w, owner, S)
  <2>1. PICK w \in Writer, owner \in {{}} \cup {{s} : s \in Student},
             S \in SUBSET Student : Complete(w, owner, S)
    BY <1>2
  <2>2. owner \in SUBSET Student /\ Recorded(S, owner)
    BY <2>1 DEF Complete, Recorded
  <2> QED
    BY <2>2
<1>3. CASE \E S \in SUBSET Student : WriteUntold(S)
  <2>1. PICK S \in SUBSET Student : WriteUntold(S)
    BY <1>3
  <2>2. {} \in SUBSET Student /\ Recorded(S, {})
    BY <2>1 DEF WriteUntold, Recorded
  <2> QED
    BY <2>2
<1>4. CASE \/ \E m \in Summary : SummaryStep(m)
           \/ \E w \in Writer, s \in Student : Invalidate(w, s)
           \/ EditItem \/ UNCHANGED vars
  BY <1>4 DEF SummaryStep
<1> QED
  BY <1>1, <1>2, <1>3, <1>4 DEF Next, WriterStep

LEMMA InitInv == Init => IInv
<1> SUFFICES ASSUME Init PROVE IInv
  OBVIOUS
<1>1. TypeInv
  BY IdleIsLocal DEF Init, TypeInv, TypeOK, Nothing, Table, Busy, At, Idle
<1>2. CrowdInv /\ NoStaleWork
  BY DEF Init, CrowdInv, NoStaleWork, Busy, At, Idle, Nothing
<1>3. RangeInv /\ FreshInv
  BY DEF Init, RangeInv, FreshInv, Past, Idle, Nothing
<1>4. AloneInv
  BY DEF Init, AloneInv, Idle
<1> QED
  BY <1>1, <1>2, <1>3, <1>4 DEF IInv

-----------------------------------------------------------------------------
LEMMA NothingIsTable == Nothing \in Table
  BY DEF Nothing, Table

\* The local states an action goes to.
LEMMA LocalSteps ==
  ASSUME NEW l \in Local
  PROVE  /\ [l EXCEPT !.alone = FALSE] \in Local
         /\ [l EXCEPT !.pc = "missing"] \in Local
         /\ [l EXCEPT !.pc = "collect"] \in Local
         /\ \A pc \in {"collect", "items"}, M \in SUBSET Student :
               [l EXCEPT !.pc = pc, !.missing = M] \in Local
         /\ \A v \in Nat : [l EXCEPT !.pc = "work", !.items = v] \in Local
         /\ \A pc \in {"store", "answer"}, t \in Table :
               [l EXCEPT !.pc = pc, !.stats = t] \in Local
  BY DEF Local

LEMMA TypeStep == TypeInv /\ [Next]_vars => TypeInv'
<1> SUFFICES ASSUME TypeInv, [Next]_vars PROVE TypeInv'
  OBVIOUS
<1> USE DEF TypeInv, Busy, At
<1>1. ASSUME NEW m \in Summary, NEW g \in Range, NEW refresh \in BOOLEAN,
             Begin(m, g, refresh)
      PROVE  TypeInv'
  <2> DEFINE new == [Idle EXCEPT
                  !.pc = IF refresh \/ range # g \/ isNil THEN "reset" ELSE "missing",
                  !.range = g, !.refresh = refresh,
                  !.since = work, !.alone = Quiet]
  <2>1. new \in Local /\ new.range = g
    BY <1>1 DEF TypeOK, Idle, Local, Nothing, Table, Quiet
  <2>2. sum' = [q \in Summary |-> IF q = m THEN new
                                  ELSE [sum[q] EXCEPT !.alone = FALSE]]
    BY <1>1 DEF Begin, Disturb
  <2> HIDE DEF new
  <2>3. \A q \in Summary : sum[q] \in Local /\ [sum[q] EXCEPT !.alone = FALSE] \in Local
    BY LocalSteps DEF TypeOK
  <2>4. sum' \in [Summary -> Local]
    BY <2>1, <2>2, <2>3
  <2>5. \A q \in Summary : sum'[q].pc # "idle" => sum'[q].range \in Range
    BY <2>1, <2>2, <2>3 DEF Local
  <2>6. crowd' \in {"one", "several"}
    BY <1>1 DEF Begin, Meet, TypeOK
  <2> QED
    BY <1>1, <2>4, <2>5, <2>6 DEF Begin, TypeOK, versions, mem
<1>2. ASSUME NEW m \in Summary,
             Reset(m) \/ FindMissing(m) \/ ReadItems(m) \/ ReadWork(m)
             \/ Store(m) \/ Collect(m) \/ Finish(m)
      PROVE  TypeInv'
  <2> DEFINE Moves(l) == l \in Local /\ sum' = [sum EXCEPT ![m] = l]
                         /\ (l.pc # "idle" => l.range \in Range)
  <2>0. sum[m] \in Local
    BY DEF TypeOK
  <2>9. ASSUME NEW l, Moves(l)
        PROVE  /\ sum' \in [Summary -> Local]
               /\ \A q \in Summary : sum'[q].pc # "idle" => sum'[q].range \in Range
    BY <2>9 DEF TypeOK
  <2>1. CASE Reset(m)
    <3>1. Moves([sum[m] EXCEPT !.pc = "missing"])
      <4>1. [sum[m] EXCEPT !.pc = "missing"] \in Local
        BY <2>0, LocalSteps DEF TypeOK
      <4>2. sum' = [sum EXCEPT ![m] = [sum[m] EXCEPT !.pc = "missing"]]
        BY <2>1 DEF Reset
      <4>3. [sum[m] EXCEPT !.pc = "missing"].range \in Range
        BY <2>0, <2>1 DEF Reset, Local
      <4> QED
        BY <4>1, <4>2, <4>3
    <3> QED
      BY <2>0, <2>1, <2>9, <3>1, NothingIsTable DEF Reset, TypeOK, Local, versions
  <2>2. CASE FindMissing(m)
    <3> DEFINE missing == {s \in Student : cache[s] = None}
    <3> DEFINE new == [sum[m] EXCEPT !.pc = IF missing = {} THEN "collect" ELSE "items",
                                     !.missing = missing]
    <3>1. Moves(new)
      <4>1. new \in Local
        BY <2>0, LocalSteps
      <4>2. sum' = [sum EXCEPT ![m] = new]
        BY <2>2 DEF FindMissing
      <4>3. new.range = sum[m].range /\ sum[m].range \in Range
        BY <2>0, <2>2 DEF FindMissing, Local
      <4> QED
        BY <4>1, <4>2, <4>3
    <3> HIDE DEF new
    <3> QED
      BY <2>2, <2>9, <3>1 DEF FindMissing, TypeOK, versions, mem, history
  <2>3. CASE ReadItems(m)
    <3>1. Moves([sum[m] EXCEPT !.pc = "work", !.items = items])
      <4>1. [sum[m] EXCEPT !.pc = "work", !.items = items] \in Local
        BY <2>0, LocalSteps DEF TypeOK
      <4>2. sum' = [sum EXCEPT ![m] = [sum[m] EXCEPT !.pc = "work", !.items = items]]
        BY <2>3 DEF ReadItems
      <4>3. [sum[m] EXCEPT !.pc = "work", !.items = items].range \in Range
        BY <2>0, <2>3 DEF ReadItems, Local
      <4> QED
        BY <4>1, <4>2, <4>3
    <3> QED
      BY <2>3, <2>9, <3>1 DEF ReadItems, TypeOK, versions, mem, history
  <2>4. CASE ReadWork(m)
    <3> DEFINE st == [s \in Student |-> IF s \in sum[m].missing
                      THEN [range |-> sum[m].range, items |-> sum[m].items,
                            work |-> work[s]]
                      ELSE None]
    <3>1. st \in Table
      BY <2>0, <2>4 DEF ReadWork, TypeOK, Local, Table, Stats
    <3>2. sum' = [sum EXCEPT ![m] = [sum[m] EXCEPT !.pc = "store", !.stats = st]]
      BY <2>4 DEF ReadWork
    <3> HIDE DEF st
    <3>3. Moves([sum[m] EXCEPT !.pc = "store", !.stats = st])
      <4>1. [sum[m] EXCEPT !.pc = "store", !.stats = st].range \in Range
        BY <2>0, <2>4 DEF ReadWork, Local
      <4> QED
        BY <2>0, <3>1, <3>2, <4>1, LocalSteps
    <3> QED
      BY <2>4, <2>9, <3>3 DEF ReadWork, TypeOK, versions, mem, history
  <2>5. CASE Store(m)
    <3>1. Moves([sum[m] EXCEPT !.pc = "collect"])
      <4>1. [sum[m] EXCEPT !.pc = "collect"] \in Local
        BY <2>0, LocalSteps DEF TypeOK
      <4>2. sum' = [sum EXCEPT ![m] = [sum[m] EXCEPT !.pc = "collect"]]
        BY <2>5 DEF Store
      <4>3. [sum[m] EXCEPT !.pc = "collect"].range \in Range
        BY <2>0, <2>5 DEF Store, Local
      <4> QED
        BY <4>1, <4>2, <4>3
    <3>2. cache' \in Table
      BY <2>0, <2>5 DEF Store, Local, Table, TypeOK
    <3>3. excused' \subseteq Student
      BY <2>0, <2>5 DEF Store, Overtaken, Local, TypeOK
    <3> QED
      BY <2>5, <2>9, <3>1, <3>2, <3>3 DEF Store, TypeOK, versions
  <2>6. CASE Collect(m)
    <3>1. Moves([sum[m] EXCEPT !.pc = "answer", !.stats = cache])
      <4>1. [sum[m] EXCEPT !.pc = "answer", !.stats = cache] \in Local
        BY <2>0, LocalSteps DEF TypeOK
      <4>2. sum' = [sum EXCEPT ![m] = [sum[m] EXCEPT !.pc = "answer", !.stats = cache]]
        BY <2>6 DEF Collect
      <4>3. [sum[m] EXCEPT !.pc = "answer", !.stats = cache].range \in Range
        BY <2>0, <2>6 DEF Collect, Local
      <4> QED
        BY <4>1, <4>2, <4>3
    <3> QED
      BY <2>6, <2>9, <3>1 DEF Collect, TypeOK, versions, mem, history
  <2>7. CASE Finish(m)
    <3>1. Moves(Idle)
      BY <2>7, IdleIsLocal DEF Finish, Idle
    <3> QED
      BY <2>7, <2>9, <3>1 DEF Finish, TypeOK, versions, mem, history
  <2> QED
    BY <1>2, <2>1, <2>2, <2>3, <2>4, <2>5, <2>6, <2>7
<1>3. ASSUME sum' = DisturbAll
      PROVE  /\ sum' \in [Summary -> Local]
             /\ \A q \in Summary : sum'[q].pc # "idle" => sum'[q].range \in Range
  <2>1. \A q \in Summary : sum[q] \in Local /\ [sum[q] EXCEPT !.alone = FALSE] \in Local
    BY LocalSteps DEF TypeOK
  <2>2. \A q \in Summary : /\ [sum[q] EXCEPT !.alone = FALSE].pc = sum[q].pc
                           /\ [sum[q] EXCEPT !.alone = FALSE].range = sum[q].range
    BY <2>1 DEF Local
  <2> QED
    BY <1>3, <2>1, <2>2 DEF DisturbAll
<1>4. ASSUME NEW S \in SUBSET Student, NEW T \in SUBSET Student, Recorded(S, T)
      PROVE  TypeInv'
  <2>1. work' \in [Student -> Nat] /\ excused' \subseteq Student
    BY <1>4 DEF Recorded, Record, TypeOK
  <2>2. wr' \in [Writer -> SUBSET Student]
    BY <1>4 DEF Recorded, TypeOK
  <2> QED
    BY <1>3, <1>4, <2>1, <2>2 DEF Recorded, Record, TypeOK, mem
<1>5. ASSUME NEW w \in Writer, NEW s \in Student, Invalidate(w, s)
      PROVE  TypeInv'
  <2>1. cache' \in Table /\ (isNil' => cache' = Nothing)
    BY <1>5 DEF Invalidate, TypeOK, Table, Nothing
  <2> QED
    BY <1>3, <1>5, <2>1 DEF Invalidate, TypeOK, versions
<1>6. CASE EditItem
  BY <1>3, <1>6 DEF EditItem, TypeOK, mem, history
<1>7. CASE UNCHANGED vars
  BY <1>7 DEF vars, versions, mem, history, TypeOK
<1> QED
  BY <1>1, <1>2, <1>4, <1>5, <1>6, <1>7, Steps

-----------------------------------------------------------------------------
\* What a step does to the summaries, field by field.
Same(q) == /\ sum'[q].pc = sum[q].pc       /\ sum'[q].range = sum[q].range
           /\ sum'[q].refresh = sum[q].refresh /\ sum'[q].missing = sum[q].missing
           /\ sum'[q].items = sum[q].items /\ sum'[q].stats = sum[q].stats
           /\ sum'[q].since = sum[q].since
SameRequest(m) == /\ sum'[m].range = sum[m].range /\ sum'[m].refresh = sum[m].refresh
                  /\ sum'[m].since = sum[m].since /\ sum'[m].alone = sum[m].alone
Others(m) == \A q \in Summary : q # m => sum'[q] = sum[q]

LEMMA Disturbed ==
  ASSUME TypeInv, sum' = DisturbAll
  PROVE  \A q \in Summary : Same(q) /\ sum'[q].alone = FALSE
<1> SUFFICES ASSUME NEW q \in Summary PROVE Same(q) /\ sum'[q].alone = FALSE
  OBVIOUS
<1>1. sum'[q] = [sum[q] EXCEPT !.alone = FALSE] /\ sum[q] \in Local
  BY DEF DisturbAll, TypeInv, TypeOK
<1> QED
  BY <1>1 DEF Same, Local

Begun(m, g, refresh) ==
    /\ At(m, "idle")
    /\ sum'[m].pc = IF refresh \/ range # g \/ isNil THEN "reset" ELSE "missing"
    /\ sum'[m].range = g /\ sum'[m].refresh = refresh
    /\ sum'[m].since = work /\ sum'[m].alone = Quiet
    /\ \A q \in Summary : q # m => Same(q) /\ sum'[q].alone = FALSE

LEMMA Began ==
  ASSUME TypeInv, NEW m \in Summary, NEW g \in Range, NEW refresh \in BOOLEAN,
         Begin(m, g, refresh)
  PROVE  Begun(m, g, refresh)
<1>1. At(m, "idle")
  BY DEF Begin
<1>2. sum'[m] = [Idle EXCEPT !.pc = IF refresh \/ range # g \/ isNil THEN "reset" ELSE "missing",
                     !.range = g, !.refresh = refresh,
                     !.since = work, !.alone = Quiet]
  BY DEF Begin, Disturb
<1>3. ASSUME NEW q \in Summary, q # m PROVE Same(q) /\ sum'[q].alone = FALSE
  <2>1. sum'[q] = [sum[q] EXCEPT !.alone = FALSE] /\ sum[q] \in Local
    BY <1>3 DEF Begin, Disturb, TypeInv, TypeOK
  <2> QED
    BY <2>1 DEF Same, Local
<1> QED
  BY <1>1, <1>2, <1>3 DEF Idle, Begun

LEMMA Moved ==
  ASSUME TypeInv, NEW m \in Summary
  PROVE  /\ Reset(m) => Others(m) /\ SameRequest(m) /\ sum'[m].pc = "missing"
         /\ FindMissing(m) =>
               /\ Others(m) /\ SameRequest(m)
               /\ sum'[m].missing = {s \in Student : cache[s] = None}
               /\ sum'[m].pc = IF sum'[m].missing = {} THEN "collect" ELSE "items"
         /\ ReadItems(m) =>
               /\ Others(m) /\ SameRequest(m) /\ sum'[m].pc = "work"
               /\ sum'[m].items = items /\ sum'[m].missing = sum[m].missing
         /\ ReadWork(m) =>
               /\ Others(m) /\ SameRequest(m) /\ sum'[m].pc = "store"
               /\ sum'[m].items = sum[m].items /\ sum'[m].missing = sum[m].missing
               /\ sum'[m].stats = [s \in Student |->
                     IF s \in sum[m].missing
                     THEN [range |-> sum[m].range, items |-> sum[m].items,
                           work |-> work[s]]
                     ELSE None]
         /\ Store(m) =>
               Others(m) /\ SameRequest(m) /\ sum'[m].pc = "collect"
         /\ Collect(m) =>
               /\ Others(m) /\ SameRequest(m) /\ sum'[m].pc = "answer"
               /\ sum'[m].stats = cache
         /\ Finish(m) => Others(m) /\ sum'[m] = Idle
<1>1. sum[m] \in Local /\ sum \in [Summary -> Local]
  BY DEF TypeInv, TypeOK
<1> USE <1>1 DEF Others, SameRequest
<1>2. ASSUME Reset(m) PROVE Others(m) /\ SameRequest(m) /\ sum'[m].pc = "missing"
  <2>1. sum'[m] = [sum[m] EXCEPT !.pc = "missing"] /\ Others(m)
    BY <1>2 DEF Reset
  <2> QED
    BY <2>1 DEF Local
<1>3. ASSUME FindMissing(m)
      PROVE  /\ Others(m) /\ SameRequest(m)
             /\ sum'[m].missing = {s \in Student : cache[s] = None}
             /\ sum'[m].pc = IF sum'[m].missing = {} THEN "collect" ELSE "items"
  <2> DEFINE M == {s \in Student : cache[s] = None}
             PC == IF M = {} THEN "collect" ELSE "items"
  <2>1. sum'[m] = [sum[m] EXCEPT !.pc = PC, !.missing = M] /\ Others(m)
    BY <1>3 DEF FindMissing
  <2> HIDE DEF M, PC
  <2>2. SameRequest(m) /\ sum'[m].missing = M /\ sum'[m].pc = PC
    BY <2>1 DEF Local
  <2> QED
    BY <2>1, <2>2 DEF M, PC
<1>4. ASSUME ReadItems(m)
      PROVE  /\ Others(m) /\ SameRequest(m) /\ sum'[m].pc = "work"
             /\ sum'[m].items = items /\ sum'[m].missing = sum[m].missing
  <2>1. sum'[m] = [sum[m] EXCEPT !.pc = "work", !.items = items] /\ Others(m)
    BY <1>4 DEF ReadItems
  <2> QED
    BY <2>1 DEF Local
<1>5. ASSUME ReadWork(m)
      PROVE  /\ Others(m) /\ SameRequest(m) /\ sum'[m].pc = "store"
             /\ sum'[m].items = sum[m].items /\ sum'[m].missing = sum[m].missing
             /\ sum'[m].stats = [s \in Student |->
                   IF s \in sum[m].missing
                   THEN [range |-> sum[m].range, items |-> sum[m].items,
                         work |-> work[s]]
                   ELSE None]
  <2> DEFINE st == [s \in Student |-> IF s \in sum[m].missing
                     THEN [range |-> sum[m].range, items |-> sum[m].items,
                           work |-> work[s]]
                     ELSE None]
  <2>1. sum'[m] = [sum[m] EXCEPT !.pc = "store", !.stats = st] /\ Others(m)
    BY <1>5 DEF ReadWork
  <2> HIDE DEF st
  <2>2. /\ SameRequest(m) /\ sum'[m].pc = "store" /\ sum'[m].stats = st
        /\ sum'[m].items = sum[m].items /\ sum'[m].missing = sum[m].missing
    BY <2>1 DEF Local
  <2> QED
    BY <2>1, <2>2 DEF st
<1>6. ASSUME Store(m)
      PROVE  Others(m) /\ SameRequest(m) /\ sum'[m].pc = "collect"
  <2>1. sum'[m] = [sum[m] EXCEPT !.pc = "collect"] /\ Others(m)
    BY <1>6 DEF Store
  <2> QED
    BY <2>1 DEF Local
<1>7. ASSUME Collect(m)
      PROVE  /\ Others(m) /\ SameRequest(m) /\ sum'[m].pc = "answer"
             /\ sum'[m].stats = cache
  <2>1. sum'[m] = [sum[m] EXCEPT !.pc = "answer", !.stats = cache] /\ Others(m)
    BY <1>7 DEF Collect
  <2> QED
    BY <2>1 DEF Local
<1>8. Finish(m) => Others(m) /\ sum'[m] = Idle
  BY DEF Finish
<1> QED
  BY <1>2, <1>3, <1>4, <1>5, <1>6, <1>7, <1>8

-----------------------------------------------------------------------------
LEMMA CrowdStep == TypeInv /\ CrowdInv /\ [Next]_vars => CrowdInv'
<1> SUFFICES ASSUME TypeInv, CrowdInv, [Next]_vars PROVE CrowdInv'
  OBVIOUS
<1> USE DEF CrowdInv, Busy, At
<1>1. ASSUME NEW m \in Summary, NEW g \in Range, NEW refresh \in BOOLEAN,
             Begin(m, g, refresh)
      PROVE  CrowdInv'
  <2>b. Begun(m, g, refresh)
    BY <1>1, Began
  <2>1. crowd' = "one" => \A q \in Summary : sum[q].pc = "idle"
    BY <1>1 DEF Begin, Meet
  <2>2. \A q \in Summary : q # m => Same(q)
    BY <2>b DEF Begun
  <2> QED
    BY <2>1, <2>2 DEF Same
<1>2. ASSUME NEW m \in Summary,
             Reset(m) \/ FindMissing(m) \/ ReadItems(m) \/ ReadWork(m)
             \/ Store(m) \/ Collect(m) \/ Finish(m)
      PROVE  CrowdInv'
  <2>1. sum[m].pc # "idle" /\ crowd' = crowd
    BY <1>2 DEF Reset, FindMissing, ReadItems, ReadWork, Store, Collect, Finish, history
  <2>2. Others(m)
    BY <1>2, Moved
  <2> QED
    BY <2>1, <2>2 DEF Others
<1>3. ASSUME sum' = DisturbAll, crowd' = crowd PROVE CrowdInv'
  <2>1. \A q \in Summary : sum'[q].pc = sum[q].pc
    BY <1>3, Disturbed DEF Same
  <2> QED
    BY <1>3, <2>1
<1>4. ASSUME NEW S \in SUBSET Student, NEW T \in SUBSET Student, Recorded(S, T)
      PROVE  CrowdInv'
  BY <1>3, <1>4 DEF Recorded, Record
<1>5. ASSUME NEW w \in Writer, NEW s \in Student, Invalidate(w, s)
      PROVE  CrowdInv'
  BY <1>3, <1>5 DEF Invalidate
<1>6. CASE EditItem
  BY <1>3, <1>6 DEF EditItem, history
<1>7. CASE UNCHANGED vars
  BY <1>7 DEF vars, history
<1> QED
  BY <1>1, <1>2, <1>4, <1>5, <1>6, <1>7, Steps

-----------------------------------------------------------------------------
LEMMA StaleWorkStep == TypeInv /\ NoStaleWork /\ [Next]_vars => NoStaleWork'
<1> DEFINE Sound(s) == \/ cache[s] = None \/ cache[s].work = work[s]
                       \/ \E w \in Writer : s \in wr[w]
                       \/ s \in excused
<1> SUFFICES ASSUME TypeInv, NoStaleWork, [Next]_vars, NEW s \in Student
             PROVE  Sound(s)'
  BY DEF NoStaleWork
<1>0. Sound(s)
  BY DEF NoStaleWork
<1>a. ASSUME UNCHANGED <<cache, work, wr, excused>> PROVE Sound(s)'
  BY <1>0, <1>a
<1>1. ASSUME NEW m \in Summary, NEW g \in Range, NEW refresh \in BOOLEAN,
             Begin(m, g, refresh)
      PROVE  Sound(s)'
  BY <1>1, <1>a DEF Begin, versions, mem
<1>2. ASSUME NEW m \in Summary,
             FindMissing(m) \/ ReadItems(m) \/ ReadWork(m) \/ Collect(m) \/ Finish(m)
      PROVE  Sound(s)'
  BY <1>2, <1>a DEF FindMissing, ReadItems, ReadWork, Collect, Finish,
                    versions, mem, history
<1>3. ASSUME NEW m \in Summary, Reset(m) PROVE Sound(s)'
  BY <1>3 DEF Reset, Nothing
<1>4. ASSUME NEW m \in Summary, Store(m) PROVE Sound(s)'
  <2>1. /\ cache'[s] = IF s \in sum[m].missing THEN sum[m].stats[s] ELSE cache[s]
        /\ excused' = (excused \ sum[m].missing) \cup Overtaken(m)
        /\ work' = work /\ wr' = wr
    BY <1>4 DEF Store, versions
  <2>2. CASE s \in sum[m].missing
    BY <2>1, <2>2 DEF Overtaken
  <2>3. CASE s \notin sum[m].missing
    BY <1>0, <2>1, <2>3
  <2> QED
    BY <2>2, <2>3
<1>5. ASSUME NEW S \in SUBSET Student, NEW T \in SUBSET Student, Recorded(S, T)
      PROVE  Sound(s)'
  <2>1. /\ cache' = cache /\ excused' = excused \cup (S \ T)
        /\ work'[s] = IF s \in S THEN work[s] + 1 ELSE work[s]
    BY <1>5 DEF Recorded, Record, mem
  <2>2. \A v \in Writer : s \in wr[v] => s \in wr'[v]
    BY <1>5 DEF Recorded, TypeInv, TypeOK
  <2>3. s \in T => \E v \in Writer : s \in wr'[v]
    BY <1>5 DEF Recorded, TypeInv, TypeOK
  <2>4. CASE s \in S
    BY <2>1, <2>3, <2>4
  <2>5. CASE s \notin S
    BY <1>0, <2>1, <2>2, <2>5
  <2> QED
    BY <2>4, <2>5
<1>6. ASSUME NEW w \in Writer, NEW t \in Student, Invalidate(w, t) PROVE Sound(s)'
  <2>1. CASE t = s
    BY <1>6, <2>1 DEF Invalidate, TypeInv, TypeOK, Table
  <2>2. CASE t # s
    <3>1. cache'[s] = cache[s] /\ work' = work /\ (s \in excused => s \in excused')
      BY <1>6, <2>2 DEF Invalidate, TypeInv, TypeOK, Table, versions
    <3>2. \A v \in Writer : s \in wr[v] => s \in wr'[v]
      BY <1>6, <2>2 DEF Invalidate, TypeInv, TypeOK
    <3> QED
      BY <1>0, <3>1, <3>2
  <2> QED
    BY <2>1, <2>2
<1>7. CASE EditItem
  BY <1>7, <1>a DEF EditItem, mem, history
<1>8. CASE UNCHANGED vars
  BY <1>8, <1>a DEF vars, versions, mem, history
<1> QED
  BY <1>1, <1>2, <1>3, <1>4, <1>5, <1>6, <1>7, <1>8, Steps

-----------------------------------------------------------------------------
LEMMA RangeStep == TypeInv /\ CrowdInv /\ RangeInv /\ [Next]_vars => RangeInv'
<1> SUFFICES ASSUME TypeInv, CrowdInv, RangeInv, [Next]_vars, crowd' = "one"
             PROVE  RangeInv'
  BY DEF RangeInv
<1> DEFINE Entries == \A s \in Student : cache[s] # None => cache[s].range = range
           Adopted(m) == Past(m) => range = sum[m].range
           Right(m) == sum[m].pc \in {"store", "answer"} => RightRange(m)
<1> SUFFICES Entries' /\ \A m \in Summary : Adopted(m)' /\ Right(m)'
  BY DEF RangeInv
<1>0. crowd = "one" =>
         Entries /\ \A m \in Summary : Adopted(m) /\ Right(m)
  BY DEF RangeInv
<1>a. ASSUME crowd = "one", UNCHANGED <<cache, range>>,
             \A q \in Summary : Same(q)
      PROVE  Entries' /\ \A m \in Summary : Adopted(m)' /\ Right(m)'
  BY <1>0, <1>a DEF Same, Past, RightRange, Answered
<1>1. ASSUME NEW m \in Summary, NEW g \in Range, NEW refresh \in BOOLEAN,
             Begin(m, g, refresh)
      PROVE  Entries' /\ \A q \in Summary : Adopted(q)' /\ Right(q)'
  <2>b. Begun(m, g, refresh)
    BY <1>1, Began
  <2>1. crowd = "one" /\ UNCHANGED <<cache, range>>
    BY <1>1 DEF Begin, Meet, mem
  <2>2. ASSUME NEW q \in Summary, q # m PROVE Adopted(q)' /\ Right(q)'
    <3>1. Same(q)
      BY <2>b, <2>2 DEF Begun
    <3> QED
      BY <1>0, <2>1, <3>1 DEF Same, Past, RightRange, Answered
  <2>3. Adopted(m)' /\ Right(m)'
    <3>1. /\ sum'[m].pc \in {"reset", "missing"}
          /\ sum'[m].pc = "missing" => range = g
          /\ sum'[m].range = g
      BY <2>b DEF Begun
    <3> QED
      BY <2>1, <3>1 DEF Past
  <2> QED
    BY <1>0, <2>1, <2>2, <2>3
<1>2. ASSUME NEW m \in Summary,
             Reset(m) \/ FindMissing(m) \/ ReadItems(m) \/ ReadWork(m)
             \/ Store(m) \/ Collect(m) \/ Finish(m)
      PROVE  Entries' /\ \A q \in Summary : Adopted(q)' /\ Right(q)'
  <2>1. crowd = "one" /\ sum[m].pc # "idle"
    BY <1>2 DEF Reset, FindMissing, ReadItems, ReadWork, Store, Collect, Finish, At, history
  <2>2. \A q \in Summary : q # m => sum'[q] = sum[q] /\ sum[q].pc = "idle"
    BY <1>2, <2>1, Moved DEF Others, CrowdInv, Busy, At
  <2>3. \A q \in Summary : q # m => Adopted(q)' /\ Right(q)'
    BY <2>2 DEF Past
  <2>4. Entries /\ Adopted(m) /\ Right(m)
    BY <1>0, <2>1
  <2>5. CASE Reset(m)
    <3>1. Entries'
      BY <2>5 DEF Reset, Nothing
    <3>2. sum'[m].range = sum[m].range /\ sum'[m].pc = "missing" /\ range' = sum[m].range
      BY <2>5, Moved DEF Reset, SameRequest
    <3> QED
      BY <2>3, <3>1, <3>2
  <2>6. CASE FindMissing(m)
    <3>1. sum'[m].range = sum[m].range /\ sum'[m].pc \in {"items", "collect"}
      BY <2>6, Moved DEF SameRequest
    <3>2. UNCHANGED <<cache, range>> /\ sum[m].pc = "missing"
      BY <2>6 DEF FindMissing, mem, At
    <3> QED
      BY <2>3, <2>4, <3>1, <3>2 DEF Past
  <2>7. CASE ReadItems(m)
    <3>1. sum'[m].range = sum[m].range /\ sum'[m].pc = "work"
      BY <2>7, Moved DEF SameRequest
    <3>2. UNCHANGED <<cache, range>> /\ sum[m].pc = "items"
      BY <2>7 DEF ReadItems, mem, At
    <3> QED
      BY <2>3, <2>4, <3>1, <3>2 DEF Past
  <2>8. CASE ReadWork(m)
    <3>1. sum'[m].range = sum[m].range /\ sum'[m].pc = "store"
      BY <2>8, Moved DEF SameRequest
    <3>2. \A s \in Student : sum'[m].stats[s] =
             IF s \in sum[m].missing
             THEN [range |-> sum[m].range, items |-> sum[m].items, work |-> work[s]]
             ELSE None
      BY <2>8, Moved, Zenon
    <3>3. Right(m)'
      <4> SUFFICES ASSUME NEW s \in Student, sum'[m].stats[s] # None
                   PROVE  sum'[m].stats[s].range = sum'[m].range
        BY DEF RightRange, Answered
      <4>1. sum'[m].stats[s] = [range |-> sum[m].range, items |-> sum[m].items, work |-> work[s]]
        BY <3>2
      <4> QED
        BY <3>1, <4>1
    <3>4. UNCHANGED <<cache, range>> /\ sum[m].pc = "work"
      BY <2>8 DEF ReadWork, mem, At
    <3> QED
      BY <2>3, <2>4, <3>1, <3>3, <3>4 DEF Past
  <2>9. CASE Store(m)
    <3>1. sum'[m].range = sum[m].range /\ sum'[m].pc = "collect"
      BY <2>9, Moved DEF SameRequest
    <3>2. range' = range /\ sum[m].pc = "store"
      BY <2>9 DEF Store, At
    <3>3. \A s \in Student : cache'[s] = IF s \in sum[m].missing
                                         THEN sum[m].stats[s] ELSE cache[s]
      BY <2>9 DEF Store
    <3>4. Entries'
      BY <2>4, <3>2, <3>3 DEF Past, RightRange, Answered
    <3> QED
      BY <2>3, <2>4, <3>1, <3>2, <3>4 DEF Past
  <2>10. CASE Collect(m)
    <3>1. sum'[m].range = sum[m].range /\ sum'[m].pc = "answer" /\ sum'[m].stats = cache
      BY <2>10, Moved DEF SameRequest
    <3>2. UNCHANGED <<cache, range>> /\ sum[m].pc = "collect"
      BY <2>10 DEF Collect, mem, At
    <3> QED
      BY <2>3, <2>4, <3>1, <3>2 DEF Past, RightRange, Answered
  <2>11. CASE Finish(m)
    <3>0. sum'[m] = Idle
      BY <2>11, Moved
    <3>1. UNCHANGED <<cache, range>> /\ sum'[m].pc = "idle"
      BY <2>11, <3>0 DEF Finish, mem, Idle
    <3> QED
      BY <2>3, <2>4, <3>1 DEF Past
  <2> QED
    BY <1>2, <2>5, <2>6, <2>7, <2>8, <2>9, <2>10, <2>11
<1>3. ASSUME NEW S \in SUBSET Student, NEW T \in SUBSET Student, Recorded(S, T)
      PROVE  Entries' /\ \A m \in Summary : Adopted(m)' /\ Right(m)'
  <2>1. crowd = "one" /\ UNCHANGED <<cache, range>>
    BY <1>3 DEF Recorded, Record, mem
  <2> QED
    BY <1>3, <1>a, <2>1, Disturbed DEF Recorded, Record
<1>4. ASSUME NEW w \in Writer, NEW s \in Student, Invalidate(w, s)
      PROVE  Entries' /\ \A m \in Summary : Adopted(m)' /\ Right(m)'
  <2>1. crowd = "one" /\ range' = range /\ \A q \in Summary : Same(q)
    BY <1>4, Disturbed DEF Invalidate
  <2>2. \A t \in Student : cache'[t] # None => cache'[t] = cache[t]
    BY <1>4 DEF Invalidate, TypeInv, TypeOK, Table
  <2> QED
    BY <1>0, <2>1, <2>2 DEF Same, Past, RightRange, Answered
<1>5. CASE EditItem
  BY <1>a, <1>5, Disturbed DEF EditItem, mem, history
<1>6. CASE UNCHANGED vars
  BY <1>0, <1>6 DEF vars, mem, history, Past, RightRange, Answered
<1> QED
  BY <1>1, <1>2, <1>3, <1>4, <1>5, <1>6, Steps

-----------------------------------------------------------------------------
LEMMA FreshStep == TypeInv /\ CrowdInv /\ FreshInv /\ [Next]_vars => FreshInv'
<1> SUFFICES ASSUME TypeInv, CrowdInv, FreshInv, [Next]_vars PROVE FreshInv'
  OBVIOUS
<1> DEFINE Past0(m) == \A s \in Student : sum[m].since[s] <= work[s]
           Entries(m) == Past(m) => \A s \in Student :
                            cache[s] # None => cache[s].work >= sum[m].since[s]
           Stored(m) == sum[m].pc \in {"store", "answer"} =>
              \A s \in Answered(m) : sum[m].stats[s].work >= sum[m].since[s]
           Fresh(m) == sum[m].refresh => Entries(m) /\ Stored(m)
           Goal == /\ \A m \in Summary : Past0(m)
                   /\ crowd = "one" => \A m \in Summary : Fresh(m)
<1> SUFFICES Goal'
  BY DEF FreshInv
<1>0. Goal
  BY DEF FreshInv
<1>t. /\ \A s \in Student : work[s] \in Nat
      /\ \A m \in Summary, s \in Student : sum[m].since[s] \in Nat
  BY DEF TypeInv, TypeOK, Local
<1>a. ASSUME crowd' = "one" => crowd = "one", cache' = cache,
             \A s \in Student : work'[s] \in Nat /\ work'[s] >= work[s],
             \A q \in Summary : Same(q)
      PROVE  Goal'
  <2>1. \A m \in Summary : Past0(m)'
    BY <1>0, <1>t, <1>a DEF Same
  <2>2. ASSUME crowd' = "one" PROVE \A m \in Summary : Fresh(m)'
    BY <1>0, <1>a, <2>2 DEF Same, Past, Answered
  <2> QED
    BY <2>1, <2>2
<1>1. ASSUME NEW m \in Summary, NEW g \in Range, NEW refresh \in BOOLEAN,
             Begin(m, g, refresh)
      PROVE  Goal'
  <2>b. Begun(m, g, refresh)
    BY <1>1, Began
  <2>1. work' = work /\ cache' = cache
    BY <1>1 DEF Begin, versions, mem
  <2>2. \A q \in Summary : q # m => Same(q)
    BY <2>b DEF Begun
  <2>3. /\ sum'[m].pc \in {"reset", "missing"} /\ sum'[m].since = work
        /\ sum'[m].pc = "missing" => ~sum'[m].refresh
    BY <2>b DEF Begun
  <2>4. \A q \in Summary : Past0(q)'
    BY <1>0, <1>t, <2>1, <2>2, <2>3 DEF Same
  <2>5. ASSUME crowd' = "one" PROVE \A q \in Summary : Fresh(q)'
    <3>1. crowd = "one"
      BY <1>1, <2>5 DEF Begin, Meet
    <3>2. Fresh(m)'
      BY <2>3 DEF Past
    <3>3. \A q \in Summary : q # m => Fresh(q)'
      BY <1>0, <2>1, <2>2, <3>1 DEF Same, Past, Answered
    <3> QED
      BY <3>2, <3>3
  <2> QED
    BY <2>4, <2>5
<1>2. ASSUME NEW m \in Summary,
             Reset(m) \/ FindMissing(m) \/ ReadItems(m) \/ ReadWork(m)
             \/ Store(m) \/ Collect(m) \/ Finish(m)
      PROVE  Goal'
  <2>1. crowd' = crowd /\ work' = work /\ sum[m].pc # "idle"
    BY <1>2 DEF Reset, FindMissing, ReadItems, ReadWork, Store, Collect, Finish, At, versions, history
  <2>2. \A q \in Summary : q # m => sum'[q] = sum[q]
    BY <1>2, Moved DEF Others
  <2>3. sum'[m] = Idle \/ (sum'[m].since = sum[m].since /\ sum'[m].refresh = sum[m].refresh)
    <3>1. sum'[m] = Idle \/ SameRequest(m)
      BY <1>2, Moved
    <3> QED
      BY <3>1 DEF SameRequest
  <2>4. \A q \in Summary : Past0(q)'
    <3>1. Past0(m)'
      BY <1>0, <1>t, <2>1, <2>3 DEF Idle
    <3> QED
      BY <1>0, <2>1, <2>2, <3>1
  <2>5. ASSUME crowd' = "one" PROVE \A q \in Summary : Fresh(q)'
    <3>1. \A q \in Summary : q # m => sum[q].pc = "idle"
      BY <2>1, <2>5 DEF CrowdInv, Busy, At
    <3>2. \A q \in Summary : q # m => Fresh(q)'
      BY <2>2, <3>1 DEF Past
    <3> SUFFICES ASSUME sum'[m].refresh PROVE Entries(m)' /\ Stored(m)'
      BY <3>2
    <3>3. CASE Reset(m)
      <4>1. sum'[m].pc = "missing" /\ cache' = Nothing
        BY <3>3, Moved DEF Reset
      <4> QED
        BY <4>1 DEF Nothing
    <3>4. CASE Finish(m)
      <4>1. sum'[m] = Idle
        BY <3>4, Moved
      <4> QED
        BY <4>1 DEF Idle, Past
    <3>5. ASSUME SameRequest(m) PROVE /\ sum'[m].since = sum[m].since
                                      /\ Entries(m) /\ Stored(m)
      BY <1>0, <2>1, <2>5, <3>5 DEF SameRequest
    <3>6. CASE FindMissing(m)
      <4>1. SameRequest(m) /\ sum'[m].pc \in {"items", "collect"}
        BY <3>6, Moved
      <4>2. cache' = cache /\ sum[m].pc = "missing"
        BY <3>6 DEF FindMissing, mem, At
      <4> QED
        BY <3>5, <4>1, <4>2 DEF Past
    <3>7. CASE ReadItems(m)
      <4>1. SameRequest(m) /\ sum'[m].pc = "work"
        BY <3>7, Moved
      <4>2. cache' = cache /\ sum[m].pc = "items"
        BY <3>7 DEF ReadItems, mem, At
      <4> QED
        BY <3>5, <4>1, <4>2 DEF Past
    <3>8. CASE ReadWork(m)
      <4>1. SameRequest(m) /\ sum'[m].pc = "store"
        BY <3>8, Moved
      <4>2. cache' = cache /\ sum[m].pc = "work"
        BY <3>8 DEF ReadWork, mem, At
      <4>3. \A s \in Student : sum'[m].stats[s] =
               IF s \in sum[m].missing
               THEN [range |-> sum[m].range, items |-> sum[m].items, work |-> work[s]]
               ELSE None
        <5>1. sum'[m].stats = [s \in Student |->
                 IF s \in sum[m].missing
                 THEN [range |-> sum[m].range, items |-> sum[m].items, work |-> work[s]]
                 ELSE None]
          BY <3>8, Moved
        <5> QED
          BY <5>1
      <4>4. ASSUME NEW s \in Student, sum'[m].stats[s] # None
            PROVE  sum'[m].stats[s].work >= sum'[m].since[s]
        <5>1. sum'[m].stats[s] = [range |-> sum[m].range, items |-> sum[m].items,
                                  work |-> work[s]]
          BY <4>3, <4>4
        <5>2. sum'[m].stats[s].work = work[s]
          BY <5>1
        <5> QED
          BY <1>0, <1>t, <3>5, <4>1, <5>2
      <4>5. Stored(m)'
        BY <4>4 DEF Answered
      <4> QED
        BY <3>5, <4>1, <4>2, <4>5 DEF Past
    <3>9. CASE Store(m)
      <4>1. SameRequest(m) /\ sum'[m].pc = "collect"
        BY <3>9, Moved
      <4>2. sum[m].pc = "store"
        BY <3>9 DEF Store, At
      <4>3. \A s \in Student : cache'[s] = IF s \in sum[m].missing
                                           THEN sum[m].stats[s] ELSE cache[s]
        BY <3>9 DEF Store
      <4> QED
        BY <3>5, <4>1, <4>2, <4>3 DEF Past, Answered
    <3>10. CASE Collect(m)
      <4>1. SameRequest(m) /\ sum'[m].pc = "answer" /\ sum'[m].stats = cache
        BY <3>10, Moved
      <4>2. cache' = cache /\ sum[m].pc = "collect"
        BY <3>10 DEF Collect, mem, At
      <4> QED
        BY <3>5, <4>1, <4>2 DEF Past, Answered
    <3> QED
      BY <1>2, <3>3, <3>4, <3>6, <3>7, <3>8, <3>9, <3>10
  <2> QED
    BY <2>4, <2>5
<1>3. ASSUME NEW S \in SUBSET Student, NEW T \in SUBSET Student, Recorded(S, T)
      PROVE  Goal'
  <2>1. cache' = cache /\ (crowd' = "one" => crowd = "one")
    BY <1>3 DEF Recorded, Record, mem
  <2>2. \A s \in Student : work'[s] = IF s \in S THEN work[s] + 1 ELSE work[s]
    BY <1>3 DEF Recorded, Record
  <2>3. \A q \in Summary : Same(q)
    BY <1>3, Disturbed DEF Recorded, Record
  <2>4. \A s \in Student : work'[s] \in Nat /\ work'[s] >= work[s]
    BY <1>t, <2>2
  <2> QED
    BY <1>a, <2>1, <2>3, <2>4
<1>4. ASSUME NEW w \in Writer, NEW s \in Student, Invalidate(w, s)
      PROVE  Goal'
  <2>1. crowd' = crowd /\ work' = work /\ \A q \in Summary : Same(q)
    BY <1>4, Disturbed DEF Invalidate, versions
  <2>2. \A t \in Student : cache'[t] # None => cache'[t] = cache[t]
    BY <1>4 DEF Invalidate, TypeInv, TypeOK, Table
  <2> QED
    BY <1>0, <2>1, <2>2 DEF Same, Past, Answered
<1>5. CASE EditItem
  <2>1. UNCHANGED <<work, crowd, cache>> /\ \A q \in Summary : Same(q)
    BY <1>5, Disturbed DEF EditItem, mem, history
  <2>2. \A s \in Student : work'[s] \in Nat /\ work'[s] >= work[s]
    BY <1>t, <2>1
  <2> QED
    BY <1>a, <2>1, <2>2
<1>6. CASE UNCHANGED vars
  BY <1>0, <1>6 DEF vars, mem, history, versions, Past, Answered
<1> QED
  BY <1>1, <1>2, <1>3, <1>4, <1>5, <1>6, Steps

-----------------------------------------------------------------------------
LEMMA AloneStep == TypeInv /\ AloneInv /\ [Next]_vars => AloneInv'
<1> SUFFICES ASSUME TypeInv, AloneInv, [Next]_vars,
                    NEW m \in Summary, sum'[m].alone
             PROVE  /\ \A q \in Summary : q # m => sum'[q].pc = "idle"
                    /\ \A w \in Writer : wr'[w] = {}
                    /\ sum'[m].refresh =>
                       /\ sum'[m].pc \in {"missing", "items", "work", "store"} =>
                             cache' = Nothing
                       /\ sum'[m].pc \in {"items", "work", "store"} =>
                             sum'[m].missing = Student
                       /\ sum'[m].pc \in {"work", "store"} => sum'[m].items = items'
                       /\ sum'[m].pc \in {"store", "answer"} =>
                             sum'[m].stats = Current(m)'
                       /\ sum'[m].pc = "collect" => cache' = Current(m)'
  BY DEF AloneInv, At
<1> DEFINE Apart == /\ \A q \in Summary : q # m => sum[q].pc = "idle"
                    /\ \A w \in Writer : wr[w] = {}
           Path == /\ sum[m].pc \in {"missing", "items", "work", "store"} => cache = Nothing
                   /\ sum[m].pc \in {"items", "work", "store"} => sum[m].missing = Student
                   /\ sum[m].pc \in {"work", "store"} => sum[m].items = items
                   /\ sum[m].pc \in {"store", "answer"} => sum[m].stats = Current(m)
                   /\ sum[m].pc = "collect" => cache = Current(m)
<1> SUFFICES Apart' /\ (sum'[m].refresh => Path')
  OBVIOUS
<1>0. sum[m].alone => Apart /\ (sum[m].refresh => Path)
  BY DEF AloneInv, At
<1>n. Student = {} => Nothing = Current(m)
  BY DEF Nothing, Current
<1>a. ASSUME \A q \in Summary : Same(q) /\ sum'[q].alone = FALSE PROVE FALSE
  BY <1>a
<1>1. ASSUME NEW p \in Summary, NEW g \in Range, NEW refresh \in BOOLEAN,
             Begin(p, g, refresh)
      PROVE  Apart' /\ (sum'[m].refresh => Path')
  <2>b. Begun(p, g, refresh)
    BY <1>1, Began
  <2>1. p = m
    BY <2>b DEF Begun
  <2>2. sum'[m].alone = Quiet /\ (sum'[m].refresh => sum'[m].pc = "reset")
    BY <2>b, <2>1 DEF Begun
  <2>3. \A q \in Summary : q # m => Same(q)
    BY <2>b, <2>1 DEF Begun
  <2>4. wr' = wr
    BY <1>1 DEF Begin
  <2> QED
    BY <2>2, <2>3, <2>4 DEF Quiet, Same, At
<1>2. ASSUME NEW p \in Summary,
             Reset(p) \/ FindMissing(p) \/ ReadItems(p) \/ ReadWork(p)
             \/ Store(p) \/ Collect(p) \/ Finish(p)
      PROVE  Apart' /\ (sum'[m].refresh => Path')
  <2>1. sum[p].pc # "idle" /\ wr' = wr
    BY <1>2 DEF Reset, FindMissing, ReadItems, ReadWork, Store, Collect, Finish, At
  <2>2. \A q \in Summary : q # p => sum'[q] = sum[q]
    BY <1>2, Moved DEF Others
  <2>3. p = m
    BY <1>0, <2>1, <2>2
  <2>4. CASE Finish(p)
    <3>1. sum'[m] = Idle
      BY <2>3, <2>4, Moved
    <3> QED
      BY <3>1 DEF Idle
  <2>5. CASE ~Finish(p)
    <3>1. SameRequest(m)
      BY <1>2, <2>3, <2>5, Moved
    <3>2. sum[m].alone /\ sum'[m].refresh = sum[m].refresh /\ sum'[m].range = sum[m].range
      BY <3>1 DEF SameRequest
    <3>3. Apart'
      BY <1>0, <2>1, <2>2, <2>3, <3>2
    <3> SUFFICES ASSUME Path PROVE Path'
      BY <1>0, <3>2, <3>3
    <3>4. Current(m)' = Current(m) /\ items' = items
      <4>1. items' = items /\ work' = work
        BY <1>2, <2>5 DEF Reset, FindMissing, ReadItems, ReadWork, Store, Collect, versions
      <4> QED
        BY <3>2, <4>1 DEF Current
    <3>5. CASE Reset(m)
      <4>1. sum'[m].pc = "missing" /\ cache' = Nothing
        BY <3>5, Moved DEF Reset
      <4> QED
        BY <4>1
    <3>6. CASE FindMissing(m)
      <4>1. /\ sum'[m].missing = {s \in Student : cache[s] = None}
            /\ sum'[m].pc = IF sum'[m].missing = {} THEN "collect" ELSE "items"
        BY <3>6, Moved
      <4>2. cache' = cache /\ cache = Nothing
        BY <3>6 DEF FindMissing, mem, At
      <4>3. sum'[m].missing = Student
        BY <4>1, <4>2 DEF Nothing
      <4> QED
        BY <1>n, <3>4, <4>1, <4>2, <4>3
    <3>7. CASE ReadItems(m)
      <4>1. sum'[m].pc = "work" /\ sum'[m].items = items /\ sum'[m].missing = sum[m].missing
        BY <3>7, Moved
      <4>2. cache' = cache /\ sum[m].pc = "items"
        BY <3>7 DEF ReadItems, mem, At
      <4> QED
        BY <3>4, <4>1, <4>2
    <3>8. CASE ReadWork(m)
      <4>1. /\ sum'[m].pc = "store" /\ sum'[m].items = sum[m].items
            /\ sum'[m].missing = sum[m].missing
        BY <3>8, Moved
      <4>2. cache' = cache /\ sum[m].pc = "work"
        BY <3>8 DEF ReadWork, mem, At
      <4>3. sum'[m].stats = [s \in Student |->
               IF s \in sum[m].missing
               THEN [range |-> sum[m].range, items |-> sum[m].items, work |-> work[s]]
               ELSE None]
        BY <3>8, Moved
      <4>4. sum[m].missing = Student /\ sum[m].items = items
        BY <4>2
      <4>5. sum'[m].stats = Current(m)
        BY <4>3, <4>4 DEF Current
      <4> QED
        BY <3>4, <4>1, <4>2, <4>5
    <3>9. CASE Store(m)
      <4>1. sum'[m].pc = "collect"
        BY <3>9, Moved
      <4>2. sum[m].missing = Student /\ sum[m].stats = Current(m)
        BY <3>9 DEF Store, At
      <4>3. cache' = [s \in Student |-> Current(m)[s]]
        BY <3>9, <4>2 DEF Store
      <4>4. cache' = Current(m)
        BY <4>3 DEF Current
      <4> QED
        BY <3>4, <4>1, <4>4
    <3>10. CASE Collect(m)
      <4>1. sum'[m].pc = "answer" /\ sum'[m].stats = cache
        BY <3>10, Moved
      <4>2. sum[m].pc = "collect"
        BY <3>10 DEF Collect, At
      <4> QED
        BY <3>4, <4>1, <4>2
    <3> QED
      BY <1>2, <2>3, <2>5, <3>5, <3>6, <3>7, <3>8, <3>9, <3>10
  <2> QED
    BY <2>4, <2>5
<1>3. ASSUME NEW S \in SUBSET Student, NEW T \in SUBSET Student, Recorded(S, T) PROVE FALSE
  BY <1>3, <1>a, Disturbed DEF Recorded, Record
<1>4. ASSUME NEW w \in Writer, NEW s \in Student, Invalidate(w, s) PROVE FALSE
  BY <1>4, <1>a, Disturbed DEF Invalidate
<1>5. CASE EditItem
  BY <1>5, <1>a, Disturbed DEF EditItem
<1>6. CASE UNCHANGED vars
  BY <1>0, <1>6 DEF vars, mem, versions, Current
<1> QED
  BY <1>1, <1>2, <1>3, <1>4, <1>5, <1>6, Steps

-----------------------------------------------------------------------------
LEMMA Invariance == Spec => []IInv
<1>1. IInv /\ [Next]_vars => IInv'
  BY TypeStep, CrowdStep, StaleWorkStep, RangeStep, FreshStep, AloneStep DEF IInv
<1> QED
  BY <1>1, InitInv, PTL DEF Spec

\* The cache holds well-formed entries, and a stale count in it is about to be
\* removed, or was written by a handler that tells nobody of the student, or was
\* read before the write and stored after it: however many requests overlap, a
\* handler that tells leaves no stale count behind.
THEOREM CacheStaysSound == Spec => []CacheIsSound
<1>1. IInv => CacheIsSound
  BY DEF IInv, TypeInv, CacheIsSound
<1> QED
  BY <1>1, Invariance, PTL

\* HandleAdminProgressSummary answers for the range that was asked for, as long
\* as summaries do not overlap.
THEOREM RangeIsHonoured == Spec => []RangeHonoured
<1>1. IInv => RangeHonoured
  BY DEF IInv, RangeInv, RangeHonoured, At
<1> QED
  BY <1>1, Invariance, PTL

\* A refresh shows nothing older than the click, as long as summaries do not
\* overlap, whatever the writers do beside it.
THEOREM RefreshShowsNoOlder == Spec => []RefreshIsFresh
<1>1. IInv => RefreshIsFresh
  BY DEF IInv, FreshInv, RefreshIsFresh, At
<1> QED
  BY <1>1, Invariance, PTL

\* A refresh nobody disturbs answers with the current statistics.
THEOREM RefreshRepairs == Spec => []RefreshRecovers
<1>1. IInv => RefreshRecovers
  BY DEF IInv, AloneInv, RefreshRecovers, Current, At
<1> QED
  BY <1>1, Invariance, PTL

\* The refresh button keeps both its promises, for any number of summaries and
\* writers (HandleAdminProgressSummary).
THEOREM RefreshKeepsItsWord == Spec => []RefreshWorks
<1>1. RefreshIsFresh /\ RefreshRecovers => RefreshWorks
  BY DEF RefreshWorks
<1> QED
  BY RefreshShowsNoOlder, RefreshRepairs, <1>1, PTL

-----------------------------------------------------------------------------
(* LiveRefresh: the inductive invariant *)

\* A client of the hub is a stream in its loop with an open channel.
Clients == /\ ~broken
           /\ \A c \in clients : open[c] /\ stream[c] = "loop"
           /\ closed => clients = {}

\* A page that connects or is connected reads a stream of its own, which is in use.
Links == /\ \A p \in Pages : link[p] = NoConn <=> status[p] \in {"off", "waiting"}
         /\ \A p \in Pages : link[p] # NoConn => stream[link[p]] # "unused"
         /\ \A p, q \in Pages : p # q => link[p] = NoConn \/ link[p] # link[q]

\* Only a stream in its loop has events in its channel.
Silent == \A c \in Conns : stream[c] # "loop" => chan[c] = <<>>

\* A page that never had a token has no stream.
Barred == \A p \in Pages : token[p] = "none" => link[p] = NoConn

RInv == RTypeOK /\ Clients /\ Links /\ Silent /\ Barred /\ StaleHasReason

-----------------------------------------------------------------------------
(* LiveRefresh: types *)

\* What a page is blamed for not being told.
LEMMA BlameTypes ==
    ASSUME RTypeOK, NEW p \in Pages, NEW S
    PROVE  /\ Blame(p, S) \in [Views -> {"none", "missed"}]
           /\ \A v \in Views : Blame(p, S)[v] = IF v \in S THEN "missed" ELSE why[p][v]
BY DEF RTypeOK, Blame

LEMMA RefetchTypes ==
    ASSUME RTypeOK, NEW p \in Pages, NEW S
    PROVE  /\ Refetch(p, S) \in [Views -> {"idle", "asked", "read"}]
           /\ \A v \in Views : Refetch(p, S)[v] = IF v \in S THEN "asked" ELSE fetch[p][v]
BY DEF RTypeOK, Refetch

\* The channels and what is in them.
ChannelTypes ==
    /\ closed \in BOOLEAN /\ broken \in BOOLEAN
    /\ clients \subseteq Conns
    /\ open \in [Conns -> BOOLEAN]
    /\ chan \in [Conns -> Seq(Kinds)] /\ \A c \in Conns : Len(chan[c]) <= Buffer

\* What the pages and the streams are.
PageTypes ==
    /\ stream \in [Conns -> {"unused", "asked", "refused", "flushed", "loop", "ended"}]
    /\ link \in [Pages -> Conns \cup {NoConn}]
    /\ status \in [Pages -> {"off", "waiting", "connecting", "connected"}]
    /\ once \in [Pages -> BOOLEAN]

\* What they show.
ViewTypes ==
    /\ fetch \in [Pages -> [Views -> {"idle", "asked", "read"}]]
    /\ got \in [Pages -> [Views -> 0..MaxWrite]]
    /\ shown \in [Pages -> [Views -> 0..MaxWrite]]
    /\ why \in [Pages -> [Views -> {"none", "missed"}]]

\* The database and the server.
ServerTypes ==
    /\ db \in [Views -> 0..MaxWrite]
    /\ write \in [Requests -> Kinds \cup {NoKind}]
    /\ server \in {"up", "closing", "closed", "down"}
    /\ losses \in 0..MaxLoss /\ stops \in 0..MaxStop

\* Sessions and tokens.
CredentialTypes ==
    /\ session \in [Pages -> {"valid", "lost"}]
    /\ token \in [Pages -> {"none", "valid", "expired"}]

LEMMA TypeParts ==
    RTypeOK <=> ChannelTypes /\ PageTypes /\ ViewTypes /\ ServerTypes /\ CredentialTypes
BY DEF RTypeOK, ChannelTypes, PageTypes, ViewTypes, ServerTypes, CredentialTypes

LEMMA RefreshInit == RInit => RInv
<1> SUFFICES ASSUME RInit PROVE RInv
  OBVIOUS
<1>1. ServerTypes
  BY RefreshBounds DEF RInit, ServerTypes
<1>2. PageTypes
  BY DEF RInit, PageTypes
<1>3. ViewTypes
  BY RefreshBounds DEF RInit, ViewTypes
<1>4. ChannelTypes
  <2>1. closed \in BOOLEAN /\ broken \in BOOLEAN
    BY Zenon DEF RInit
  <2>2. open \in [Conns -> BOOLEAN] /\ clients \subseteq Conns
    BY Zenon DEF RInit
  <2>3. chan \in [Conns -> Seq(Kinds)] /\ \A c \in Conns : Len(chan[c]) <= Buffer
    BY RefreshAssumption DEF RInit
  <2> QED  BY <2>1, <2>2, <2>3 DEF ChannelTypes
<1>5. Clients /\ Links /\ Silent /\ Barred
  BY DEF RInit, Clients, Links, Silent, Barred
<1>6. StaleHasReason
  BY DEF RInit, StaleHasReason
<1>7. CredentialTypes
  BY DEF RInit, CredentialTypes
<1> QED  BY <1>1, <1>2, <1>3, <1>4, <1>5, <1>6, <1>7, TypeParts DEF RInv

\* Every step keeps the types of the database and the server.
LEMMA ServerTypesStep == RTypeOK /\ RNext => ServerTypes'
<1> SUFFICES ASSUME RTypeOK, RNext PROVE ServerTypes'
  OBVIOUS
<1>1. ServerTypes
  BY TypeParts
<1> USE DEF ServerTypes
<1>2. ASSUME NEW r \in Requests, NEW k \in Kinds, Commit(r, k) PROVE ServerTypes'
  BY <1>1, <1>2, RefreshBounds DEF Commit
<1>3. ASSUME NEW r \in Requests, Tell(r) PROVE ServerTypes'
  BY <1>1, <1>3 DEF Tell, Broadcast, FailAfterCommit
<1>4. CASE Sync
  BY <1>1, <1>4, RefreshBounds DEF Sync
<1>5. CASE Stream
  BY <1>1, <1>5 DEF Stream, Handle, Answer, SendToLogin, Refuse, Flush, Subscribe,
                    Deliver, EndOfStream, Notice
<1>6. ASSUME NEW p \in Pages, Lose(p) \/ SessionEnds(p) PROVE ServerTypes'
  BY <1>1, <1>6, RefreshBounds DEF Lose, SessionEnds
<1>7. ASSUME NEW p \in Pages, NEW v \in Views,
             Refocus(p, v) \/ Read(p, v) \/ Show(p, v) \/ FetchFails(p, v)
      PROVE  ServerTypes'
  BY <1>1, <1>7 DEF Refocus, Read, Show, FetchFails
<1>9. ASSUME NEW p \in Pages, Run(p) PROVE ServerTypes'
  BY <1>1, <1>9 DEF Run, ConnectOff, Connect, Connected, SeesRefusal, SeesEnd
<1>10. ASSUME NEW p \in Pages, SignIn(p) \/ TokenExpires(p) \/ RenewToken(p) \/ LogIn(p)
       PROVE  ServerTypes'
  BY <1>1, <1>10 DEF SignIn, TokenExpires, RenewToken, LogIn
<1>8. CASE Shutdown \/ CloseStore \/ Exit \/ Crash \/ Restart
  BY <1>1, <1>8, RefreshBounds DEF Shutdown, CloseStore, Exit, Crash, Restart, Gone
<1> QED  BY <1>2, <1>3, <1>4, <1>5, <1>6, <1>7, <1>8, <1>9, <1>10 DEF RNext, Request, Page

\* ... of the sessions and tokens ...
LEMMA CredentialTypesStep == RTypeOK /\ RNext => CredentialTypes'
<1> SUFFICES ASSUME RTypeOK, RNext PROVE CredentialTypes'
  OBVIOUS
<1>1. CredentialTypes
  BY TypeParts
<1> USE DEF CredentialTypes
<1>2. ASSUME UNCHANGED credentials PROVE CredentialTypes'
  BY <1>1, <1>2 DEF credentials
<1>3. ASSUME NEW p \in Pages, NEW v \in Views,
             Refocus(p, v) \/ Read(p, v) \/ Show(p, v) \/ FetchFails(p, v)
      PROVE  CredentialTypes'
  BY <1>1, <1>3 DEF Refocus, Read, Show, FetchFails, credentials
<1>4. ASSUME NEW p \in Pages, SignIn(p) \/ TokenExpires(p) \/ RenewToken(p)
                               \/ SessionEnds(p) \/ LogIn(p)
      PROVE  CredentialTypes'
  BY <1>1, <1>4 DEF SignIn, TokenExpires, RenewToken, SessionEnds, LogIn
<1>5. CASE Restart
  BY <1>1, <1>5 DEF Restart
<1>6. CASE Request \/ Sync
  BY <1>2, <1>6 DEF Request, Tell, Commit, Broadcast, FailAfterCommit, Sync
<1>7. CASE Stream
  BY <1>2, <1>7 DEF Stream, Handle, Answer, SendToLogin, Refuse, Flush, Subscribe,
                    Deliver, EndOfStream, Notice
<1>8. ASSUME NEW p \in Pages, Run(p) \/ Lose(p) PROVE CredentialTypes'
  BY <1>2, <1>8 DEF Run, ConnectOff, Connect, Connected, SeesRefusal, SeesEnd, Lose
<1>9. CASE Shutdown \/ CloseStore \/ Exit \/ Crash
  BY <1>2, <1>9 DEF Shutdown, CloseStore, Exit, Crash, Gone
<1> QED  BY <1>3, <1>4, <1>5, <1>6, <1>7, <1>8, <1>9 DEF RNext, Page

LEMMA PageTypesStep == RTypeOK /\ Links /\ RNext => PageTypes'
<1> SUFFICES ASSUME RTypeOK, Links, RNext PROVE PageTypes'
  OBVIOUS
<1>1. PageTypes
  BY TypeParts
<1> USE DEF PageTypes
<1>2. CASE Request \/ Sync
  BY <1>1, <1>2 DEF Request, Tell, Commit, Broadcast, FailAfterCommit, Sync, pageVars
<1>3. CASE Stream
  BY <1>1, <1>3 DEF Stream, Handle, Answer, SendToLogin, Refuse, Flush, Subscribe,
                    Deliver, EndOfStream, Notice, pageVars
<1>4. ASSUME NEW p \in Pages, Connect(p) PROVE PageTypes'
  BY <1>1, <1>4 DEF Connect
<1>5. ASSUME NEW p \in Pages, Connected(p) \/ ConnectOff(p) \/ SignIn(p)
      PROVE  PageTypes'
  BY <1>1, <1>5 DEF Connected, ConnectOff, SignIn
<1>6. ASSUME NEW p \in Pages, Lose(p) \/ SeesRefusal(p) \/ SeesEnd(p) PROVE PageTypes'
  BY <1>1, <1>6 DEF Lose, SeesRefusal, SeesEnd, Disconnect, Links
<1>10. ASSUME NEW p \in Pages, TokenExpires(p) \/ RenewToken(p) \/ SessionEnds(p) \/ LogIn(p)
       PROVE  PageTypes'
  BY <1>1, <1>10 DEF TokenExpires, RenewToken, SessionEnds, LogIn, pageVars
<1>7. ASSUME NEW p \in Pages, NEW v \in Views,
             Refocus(p, v) \/ Read(p, v) \/ Show(p, v) \/ FetchFails(p, v)
      PROVE  PageTypes'
  BY <1>1, <1>7 DEF Refocus, Read, Show, FetchFails, pageVars
<1>8. CASE Shutdown \/ CloseStore \/ Restart
  BY <1>1, <1>8 DEF Shutdown, CloseStore, Restart, pageVars
<1>9. CASE Exit \/ Crash
  BY <1>1, <1>9 DEF Exit, Crash, Gone
<1> QED  BY <1>2, <1>3, <1>4, <1>5, <1>6, <1>7, <1>8, <1>9, <1>10 DEF RNext, Page, Run

LEMMA ViewTypesStep == RTypeOK /\ RNext => ViewTypes'
<1> SUFFICES ASSUME RTypeOK, RNext PROVE ViewTypes'
  OBVIOUS
<1>1. ViewTypes /\ ServerTypes /\ RTypeOK
  BY TypeParts
<1> USE DEF ViewTypes
<1>3. ASSUME NEW r \in Requests, Broadcast(r) PROVE ViewTypes'
  <2>1. \A p \in Pages : Blame(p, Missed(p, write[r])) \in
            [Views -> {"none", "missed"}]
    BY BlameTypes
  <2> QED  BY <1>1, <1>3, <2>1 DEF Broadcast
<1>4. ASSUME Sync \/ \E r \in Requests : FailAfterCommit(r) PROVE ViewTypes'
  <2>1. \A p \in Pages : Blame(p, Views) \in [Views -> {"none", "missed"}]
    BY BlameTypes
  <2> QED  BY <1>1, <1>4, <2>1 DEF Sync, FailAfterCommit
<1>5. ASSUME NEW r \in Requests, NEW k \in Kinds, Commit(r, k) PROVE ViewTypes'
  BY <1>1, <1>5 DEF Commit, viewVars
<1>6. ASSUME NEW c \in Conns, Answer(c) \/ Subscribe(c) \/ EndOfStream(c) \/ Notice(c)
      PROVE  ViewTypes'
  BY <1>1, <1>6 DEF Answer, SendToLogin, Refuse, Flush, Subscribe, EndOfStream, Notice,
                    viewVars
<1>7. ASSUME NEW c \in Conns, Deliver(c) PROVE ViewTypes'
  <2>1. \A p \in Pages : Refetch(p, Invalidated(Head(chan[c]))) \in
            [Views -> {"idle", "asked", "read"}]
    BY RefetchTypes
  <2> QED  BY <1>1, <1>7, <2>1 DEF Deliver
<1>8. ASSUME NEW p \in Pages, ConnectOff(p) \/ Connect(p) \/ SeesRefusal(p) \/ SeesEnd(p)
      PROVE  ViewTypes'
  BY <1>1, <1>8 DEF ConnectOff, Connect, SeesRefusal, SeesEnd, viewVars
<1>14. ASSUME NEW p \in Pages, SignIn(p) \/ TokenExpires(p) \/ RenewToken(p)
                                \/ SessionEnds(p) \/ LogIn(p)
       PROVE  ViewTypes'
  BY <1>1, <1>14 DEF SignIn, TokenExpires, RenewToken, SessionEnds, LogIn, viewVars
<1>9. ASSUME NEW p \in Pages, Connected(p) PROVE ViewTypes'
  <2>1. Refetch(p, Views) \in [Views -> {"idle", "asked", "read"}]
    BY RefetchTypes
  <2> QED  BY <1>1, <1>9, <2>1 DEF Connected
<1>10. ASSUME NEW p \in Pages, Lose(p) PROVE ViewTypes'
  <2>1. Blame(p, LostWith(p)) \in [Views -> {"none", "missed"}]
    BY BlameTypes
  <2> QED  BY <1>1, <1>10, <2>1 DEF Lose
<1>11. ASSUME NEW p \in Pages, NEW v \in Views,
              Refocus(p, v) \/ Read(p, v) \/ Show(p, v) \/ FetchFails(p, v)
       PROVE  ViewTypes'
  <2>1. CASE Refocus(p, v)
    BY <1>1, <2>1 DEF Refocus
  <2>2. CASE Read(p, v)
    BY <1>1, <2>2 DEF Read, ServerTypes
  <2>3. CASE Show(p, v)
    BY <1>1, <2>3, RefreshBounds DEF Show
  <2>4. CASE FetchFails(p, v)
    BY <1>1, <2>4 DEF FetchFails
  <2> QED  BY <1>11, <2>1, <2>2, <2>3, <2>4
<1>12. CASE Shutdown \/ CloseStore \/ Restart
  BY <1>1, <1>12 DEF Shutdown, CloseStore, Restart, viewVars
<1>13. CASE Exit \/ Crash
  <2>1. Gone
    BY <1>13 DEF Exit, Crash
  <2>2. \A p \in Pages : Blame(p, {v \in Views : Committed \/ Queued(p, v)}) \in
            [Views -> {"none", "missed"}]
    BY BlameTypes
  <2> QED  BY <1>1, <2>1, <2>2 DEF Gone
<1> QED  BY <1>3, <1>4, <1>5, <1>6, <1>7, <1>8, <1>9, <1>10, <1>11, <1>12, <1>13, <1>14
            DEF RNext, Request, Tell, Stream, Handle, Page, Run

\* Every step keeps the types of the channels.
LEMMA ChannelTypesStep == RTypeOK /\ RNext => ChannelTypes'
<1> SUFFICES ASSUME RTypeOK, RNext PROVE ChannelTypes'
  OBVIOUS
<1>1. ChannelTypes /\ RTypeOK /\ Buffer \in Nat \ {0}
  BY TypeParts, RefreshAssumption
<1>2. <<>> \in Seq(Kinds) /\ Len(<<>>) = 0
  OBVIOUS
<1>3. \A c \in Conns : chan[c] \in Seq(Kinds) /\ Len(chan[c]) <= Buffer /\ Len(chan[c]) \in Nat
  BY <1>1 DEF ChannelTypes
<1>4. ASSUME UNCHANGED hubVars PROVE ChannelTypes'
  BY <1>1, <1>4 DEF hubVars, ChannelTypes
<1>5. ASSUME NEW r \in Requests, Broadcast(r) PROVE ChannelTypes'
  <2>1. write[r] \in Kinds
    BY <1>5 DEF Broadcast, RTypeOK
  <2>2. chan' = [c \in Conns |-> IF Receives(c, write[r]) THEN Append(chan[c], write[r])
                                 ELSE chan[c]]
    BY <1>5 DEF Broadcast
  <2>3. \A c \in Conns : Receives(c, write[r]) => Len(chan[c]) < Buffer
    BY DEF Receives
  <2>4. \A c \in Conns : chan'[c] \in Seq(Kinds) /\ Len(chan'[c]) <= Buffer
    BY <1>1, <1>3, <2>1, <2>2, <2>3
  <2>5. chan' \in [Conns -> Seq(Kinds)] /\ \A c \in Conns : Len(chan'[c]) <= Buffer
    BY <2>2, <2>4
  <2>6. broken' \in BOOLEAN
    BY <1>5, Zenon DEF Broadcast
  <2>7. UNCHANGED <<closed, clients, open>>
    BY <1>5 DEF Broadcast
  <2> QED  BY <1>1, <2>5, <2>6, <2>7 DEF ChannelTypes
<1>6. ASSUME NEW c \in Conns, Subscribe(c) PROVE ChannelTypes'
  <2>1. open' \in [Conns -> BOOLEAN]
    <3>1. open' = [open EXCEPT ![c] = ~closed] /\ open \in [Conns -> BOOLEAN]
      BY <1>1, <1>6 DEF Subscribe, ChannelTypes
    <3>2. (~closed) \in BOOLEAN
      BY Zenon
    <3> QED  BY <3>1, <3>2, Zenon
  <2>2. chan' \in [Conns -> Seq(Kinds)] /\ \A d \in Conns : Len(chan'[d]) <= Buffer
    BY <1>1, <1>2, <1>6 DEF Subscribe, ChannelTypes
  <2>3. clients' \subseteq Conns /\ UNCHANGED <<closed, broken>>
    BY <1>1, <1>6 DEF Subscribe, ChannelTypes
  <2> QED  BY <1>1, <2>1, <2>2, <2>3 DEF ChannelTypes
<1>7. ASSUME NEW c \in Conns, Unsubscribe(c) PROVE ChannelTypes'
  <2>1. open' \in [Conns -> BOOLEAN]
    <3>1. open' = [open EXCEPT ![c] = FALSE] /\ open \in [Conns -> BOOLEAN]
      BY <1>1, <1>7 DEF Unsubscribe, ChannelTypes
    <3> QED  BY <3>1, Zenon
  <2>2. chan' \in [Conns -> Seq(Kinds)] /\ \A d \in Conns : Len(chan'[d]) <= Buffer
    BY <1>1, <1>2, <1>7 DEF Unsubscribe, ChannelTypes
  <2>3. clients' \subseteq Conns /\ UNCHANGED closed
    BY <1>1, <1>7 DEF Unsubscribe, ChannelTypes
  <2>4. broken' \in BOOLEAN
    BY <1>7, Zenon DEF Unsubscribe
  <2> QED  BY <1>1, <2>1, <2>2, <2>3, <2>4 DEF ChannelTypes
<1>8. ASSUME NEW c \in Conns, Deliver(c) PROVE ChannelTypes'
  <2>1. chan[c] # <<>> /\ chan' = [chan EXCEPT ![c] = Tail(chan[c])]
        /\ UNCHANGED <<closed, clients, open, broken>>
    BY <1>8 DEF Deliver
  <2>2. Tail(chan[c]) \in Seq(Kinds) /\ Len(Tail(chan[c])) = Len(chan[c]) - 1
    BY <1>3, <2>1
  <2> QED  BY <1>1, <1>3, <2>1, <2>2 DEF ChannelTypes
<1>9. ASSUME CloseHub PROVE ChannelTypes'
  <2>1. closed' \in BOOLEAN /\ broken' \in BOOLEAN
    BY <1>9, Zenon DEF CloseHub
  <2>2. open' \in [Conns -> BOOLEAN]
    BY <1>9, Zenon DEF CloseHub
  <2> QED  BY <1>1, <1>9, <2>1, <2>2 DEF ChannelTypes, CloseHub
<1>10. ASSUME Gone PROVE ChannelTypes'
  <2>1. open' \in [Conns -> BOOLEAN]
    BY <1>10, Zenon DEF Gone
  <2>2. chan' \in [Conns -> Seq(Kinds)] /\ \A c \in Conns : Len(chan'[c]) <= Buffer
    BY <1>1, <1>2, <1>10 DEF Gone
  <2> QED  BY <1>1, <1>10, <2>1, <2>2 DEF ChannelTypes, Gone
<1>11. ASSUME Restart PROVE ChannelTypes'
  <2>1. closed' \in BOOLEAN
    BY <1>11, Zenon DEF Restart
  <2> QED  BY <1>1, <1>11, <2>1 DEF ChannelTypes, Restart
<1>12. CASE Request
  BY <1>4, <1>5, <1>12 DEF Request, Tell, Commit, FailAfterCommit
<1>13. CASE Stream
  BY <1>4, <1>6, <1>7, <1>8, <1>13 DEF Stream, Handle, Answer, SendToLogin, Refuse, Flush,
                                       EndOfStream, Notice
<1>14. CASE Page
  BY <1>4, <1>14 DEF Page, Run, ConnectOff, Connect, Connected, SeesRefusal, SeesEnd, Lose,
                     SignIn, TokenExpires, RenewToken, SessionEnds, LogIn,
                     Refocus, Read, Show, FetchFails
<1> QED  BY <1>4, <1>9, <1>10, <1>11, <1>12, <1>13, <1>14
            DEF RNext, Sync, Shutdown, CloseStore, Exit, Crash

-----------------------------------------------------------------------------
(* LiveRefresh: the hub *)

\* What is said of the clients, the links and the quiet channels looks at
\* these variables only.
LEMMA HubUntouched ==
    ASSUME Clients, Links, Silent,
           UNCHANGED <<closed, clients, open, broken, chan, stream, link, status>>
    PROVE  Clients' /\ Links' /\ Silent'
<1>1. Clients'
  BY Zenon DEF Clients
<1>2. Links'
  BY DEF Links
<1>3. Silent'
  BY DEF Silent
<1> QED  BY <1>1, <1>2, <1>3

\* A closed channel is not closed again, and is not written to.
LEMMA BroadcastHub ==
    ASSUME RTypeOK, Clients, Links, Silent, NEW r \in Requests, Broadcast(r)
    PROVE  Clients' /\ Links' /\ Silent'
<1>1. ~broken /\ \A c \in clients : open[c] /\ stream[c] = "loop"
  BY DEF Clients
<1>2. UNCHANGED <<closed, clients, open, stream, link, status>>
  BY DEF Broadcast, pageVars
<1>3. ~broken'
  BY <1>1, Zenon DEF Broadcast
<1>4. Clients'
  BY <1>2, <1>3, Zenon DEF Clients
<1>5. Links'
  BY <1>2 DEF Links
<1>6. Silent'
  <2>1. \A c \in Conns : stream[c] # "loop" => ~Receives(c, write[r])
    BY <1>1 DEF Receives
  <2> QED  BY <1>2, <2>1 DEF Silent, Broadcast
<1> QED  BY <1>4, <1>5, <1>6

\* A request for a stream is answered, one way or another.
LEMMA AnswerHub ==
    ASSUME RTypeOK, Clients, Links, Silent, NEW c \in Conns, Answer(c)
    PROVE  Clients' /\ Links' /\ Silent'
<1>1. /\ stream \in [Conns -> {"unused", "asked", "refused", "flushed", "loop", "ended"}]
      /\ link \in [Pages -> Conns \cup {NoConn}] /\ clients \subseteq Conns
  BY DEF RTypeOK
<1>2. /\ stream[c] = "asked" /\ stream'[c] \in {"ended", "refused", "flushed"}
      /\ \A d \in Conns : d # c => stream'[d] = stream[d]
      /\ UNCHANGED <<closed, clients, open, broken, chan, link, status>>
  BY <1>1 DEF Answer, SendToLogin, Refuse, Flush, hubVars, pageVars
<1>3. Clients'
  <2>1. \A d \in clients : open'[d]
    BY <1>2, Zenon DEF Clients
  <2>2. \A d \in clients : stream'[d] = "loop"
    BY <1>1, <1>2 DEF Clients
  <2>3. ~broken' /\ (closed' => clients' = {})
    BY <1>2, Zenon DEF Clients
  <2> QED  BY <1>2, <2>1, <2>2, <2>3 DEF Clients
<1>4. Links' /\ Silent'
  BY <1>1, <1>2 DEF Links, Silent
<1> QED  BY <1>3, <1>4

LEMMA SubscribeHub ==
    ASSUME RTypeOK, Clients, Links, Silent, NEW c \in Conns, Subscribe(c)
    PROVE  Clients' /\ Links' /\ Silent'
<1>1. /\ stream \in [Conns -> {"unused", "asked", "refused", "flushed", "loop", "ended"}]
      /\ link \in [Pages -> Conns \cup {NoConn}] /\ clients \subseteq Conns
      /\ open \in [Conns -> BOOLEAN] /\ DOMAIN chan = Conns
  BY DEF RTypeOK
<1>2. /\ stream[c] = "flushed" /\ stream'[c] = "loop"
      /\ chan' = [chan EXCEPT ![c] = <<>>]
      /\ open' = [open EXCEPT ![c] = ~closed]
      /\ clients' = IF closed THEN clients ELSE clients \cup {c}
      /\ \A d \in Conns : d # c => stream'[d] = stream[d]
      /\ UNCHANGED <<closed, broken, link, status>>
  BY <1>1 DEF Subscribe, pageVars
<1>3. Clients'
  <2>1. ~broken /\ (closed => clients = {})
    BY DEF Clients
  <2>2. CASE closed
    <3>1. clients' = {}
      BY <1>2, <2>1, <2>2
    <3> QED  BY <1>2, <2>1, <3>1, Zenon DEF Clients
  <2>3. CASE ~closed
    <3>1. clients' = clients \cup {c}
      BY <1>2, <2>3
    <3>2. open'[c] /\ \A d \in Conns : d # c => open'[d] = open[d]
      BY <1>1, <1>2, <2>3, Zenon
    <3>3. \A d \in clients' : open'[d]
      BY <1>1, <3>1, <3>2, Zenon DEF Clients
    <3>4. \A d \in clients' : stream'[d] = "loop"
      BY <1>1, <1>2, <3>1 DEF Clients
    <3>5. ~broken' /\ ~closed'
      BY <1>2, <2>1, <2>3, Zenon
    <3> QED  BY <3>3, <3>4, <3>5 DEF Clients
  <2> QED  BY <2>2, <2>3
<1>4. Links'
  BY <1>1, <1>2 DEF Links
<1>5. Silent'
  BY <1>1, <1>2 DEF Silent
<1> QED  BY <1>3, <1>4, <1>5

\* A stream that nobody reads is given up, or one that is read ends.
LEMMA UnsubscribeHub ==
    ASSUME RTypeOK, Clients, Links, Silent, NEW c \in Conns, Unsubscribe(c),
           stream[c] = "loop", UNCHANGED <<link, status>>,
           NEW s \in {"unused", "ended"}, stream' = [stream EXCEPT ![c] = s],
           s = "unused" => Reader(c) = {}
    PROVE  Clients' /\ Links' /\ Silent'
<1>1. /\ stream \in [Conns -> {"unused", "asked", "refused", "flushed", "loop", "ended"}]
      /\ link \in [Pages -> Conns \cup {NoConn}] /\ clients \subseteq Conns
      /\ open \in [Conns -> BOOLEAN] /\ DOMAIN chan = Conns
  BY DEF RTypeOK
<1>2. /\ clients' = clients \ {c} /\ UNCHANGED closed
      /\ open' = [open EXCEPT ![c] = FALSE]
      /\ chan' = [chan EXCEPT ![c] = <<>>]
      /\ \A d \in Conns : d # c => stream'[d] = stream[d]
  BY <1>1 DEF Unsubscribe
<1>3. stream'[c] = s
  BY <1>1
<1>4. Clients'
  <2>1. ~broken'
    BY Zenon DEF Unsubscribe, Clients
  <2>2. \A d \in Conns : d # c => open'[d] = open[d]
    BY <1>1, <1>2, Zenon
  <2>3. \A d \in clients' : open'[d]
    BY <1>1, <1>2, <2>2, Zenon DEF Clients
  <2>4. \A d \in clients' : stream'[d] = "loop"
    BY <1>1, <1>2 DEF Clients
  <2>5. closed' => clients' = {}
    BY <1>2 DEF Clients
  <2> QED  BY <2>1, <2>3, <2>4, <2>5 DEF Clients
<1>5. Links'
  BY <1>1, <1>2, <1>3 DEF Links, Reader
<1>6. Silent'
  BY <1>1, <1>2, <1>3 DEF Silent
<1> QED  BY <1>4, <1>5, <1>6

LEMMA DeliverHub ==
    ASSUME RTypeOK, Clients, Links, Silent, NEW c \in Conns, Deliver(c)
    PROVE  Clients' /\ Links' /\ Silent'
<1>1. /\ stream[c] = "loop" /\ UNCHANGED <<closed, clients, open, broken, stream, link, status>>
      /\ chan' = [chan EXCEPT ![c] = Tail(@)]
  BY DEF Deliver, pageVars
<1>2. Clients'
  BY <1>1, Zenon DEF Clients
<1>3. Links' /\ Silent'
  BY <1>1 DEF Links, Silent, RTypeOK
<1> QED  BY <1>2, <1>3

\* What a page does to its link leaves the streams in their loops alone.
LEMMA PageHub ==
    ASSUME RTypeOK, Clients, Links, Silent, Barred, NEW p \in Pages,
           Run(p) \/ Lose(p) \/ SignIn(p)
    PROVE  Clients' /\ Links' /\ Silent'
<1>1. /\ stream \in [Conns -> {"unused", "asked", "refused", "flushed", "loop", "ended"}]
      /\ link \in [Pages -> Conns \cup {NoConn}] /\ clients \subseteq Conns
      /\ status \in [Pages -> {"off", "waiting", "connecting", "connected"}]
      /\ NoConn \notin Conns
  BY RefreshAssumption DEF RTypeOK
<1>2. UNCHANGED <<closed, clients, open, broken, chan>>
  BY DEF Run, ConnectOff, Connect, Connected, SeesRefusal, SeesEnd, Lose, SignIn, hubVars
<1>3. /\ \A c \in Conns : stream[c] = "loop" <=> stream'[c] = "loop"
      /\ Links'
  <2>1. CASE Connect(p)
    BY <1>1, <2>1 DEF Connect, Links
  <2>2. CASE Connected(p)
    BY <1>1, <2>2 DEF Connected, Links
  <2>3. CASE Lose(p)
    BY <1>1, <2>3 DEF Lose, Disconnect, Links
  <2>4. CASE SeesEnd(p)
    BY <1>1, <2>4 DEF SeesEnd, Disconnect, Links
  <2>5. CASE SeesRefusal(p)
    BY <1>1, <2>5 DEF SeesRefusal, Disconnect, Links
  <2>6. CASE ConnectOff(p)
    BY <1>1, <2>6 DEF ConnectOff, Links
  <2>7. CASE SignIn(p)
    <3>1. link[p] = NoConn
      BY <2>7 DEF SignIn, Barred
    <3> QED  BY <1>1, <2>7, <3>1 DEF SignIn, Links
  <2> QED  BY <2>1, <2>2, <2>3, <2>4, <2>5, <2>6, <2>7 DEF Run
<1>4. Clients'
  <2>1. \A c \in clients : open'[c]
    BY <1>2, Zenon DEF Clients
  <2>2. \A c \in clients : stream'[c] = "loop"
    BY <1>1, <1>3 DEF Clients
  <2>3. ~broken' /\ (closed' => clients' = {})
    BY <1>2, Zenon DEF Clients
  <2> QED  BY <1>2, <2>1, <2>2, <2>3 DEF Clients
<1>5. Silent'
  BY <1>2, <1>3 DEF Silent
<1> QED  BY <1>3, <1>4, <1>5

LEMMA ShutdownHub ==
    ASSUME RTypeOK, Clients, Links, Silent, Shutdown
    PROVE  Clients' /\ Links' /\ Silent'
<1>1. CloseHub /\ UNCHANGED <<stream, link, status, chan>>
  BY DEF Shutdown, pageVars, CloseHub
<1>2. ~broken'
  BY <1>1, Zenon DEF CloseHub, Clients
<1>3. clients' = {}
  BY <1>1 DEF CloseHub
<1>4. Clients'
  BY <1>2, <1>3 DEF Clients
<1> QED  BY <1>1, <1>4 DEF Links, Silent

LEMMA GoneHub ==
    ASSUME RTypeOK, Clients, Links, Silent, Gone
    PROVE  Clients' /\ Links' /\ Silent'
<1>1. clients' = {} /\ UNCHANGED broken
  BY DEF Gone
<1>2. Clients'
  BY <1>1, Zenon DEF Clients
<1> QED  BY <1>2, RefreshAssumption DEF Gone, Links, Silent, RTypeOK

LEMMA RestartHub ==
    ASSUME RTypeOK, Clients, Links, Silent, Restart
    PROVE  Clients' /\ Links' /\ Silent'
<1>1. UNCHANGED <<clients, open, broken, chan, stream, link, status>> /\ ~closed'
  BY Zenon DEF Restart, pageVars
<1>2. Clients'
  BY <1>1, Zenon DEF Clients
<1> QED  BY <1>1, <1>2 DEF Links, Silent

LEMMA HubStep ==
    RTypeOK /\ Clients /\ Links /\ Silent /\ Barred /\ RNext => Clients' /\ Links' /\ Silent'
<1> SUFFICES ASSUME RTypeOK, Clients, Links, Silent, Barred, RNext
             PROVE  Clients' /\ Links' /\ Silent'
  OBVIOUS
<1>1. CASE Request
  BY <1>1, BroadcastHub, HubUntouched DEF Request, Tell, Commit, FailAfterCommit,
                                          hubVars, pageVars
<1>2. CASE Sync \/ CloseStore
  BY <1>2, HubUntouched DEF Sync, CloseStore, hubVars, pageVars
<1>3. ASSUME NEW c \in Conns, EndOfStream(c) PROVE Clients' /\ Links' /\ Silent'
  <2> DEFINE s == IF Reader(c) = {} THEN "unused" ELSE "ended"
  <2>1. /\ stream[c] = "loop" /\ Unsubscribe(c) /\ UNCHANGED <<link, status>>
        /\ stream' = [stream EXCEPT ![c] = s]
    BY <1>3 DEF EndOfStream, pageVars
  <2>2. s \in {"unused", "ended"} /\ (s = "unused" => Reader(c) = {})
    OBVIOUS
  <2> HIDE DEF s
  <2> QED  BY <2>1, <2>2, UnsubscribeHub
<1>4. ASSUME NEW c \in Conns, Notice(c) PROVE Clients' /\ Links' /\ Silent'
  BY <1>4, UnsubscribeHub DEF Notice, pageVars
<1>5. CASE Stream
  BY <1>3, <1>4, <1>5, AnswerHub, SubscribeHub, DeliverHub DEF Stream, Handle
<1>6. ASSUME NEW p \in Pages, NEW v \in Views,
             Refocus(p, v) \/ Read(p, v) \/ Show(p, v) \/ FetchFails(p, v)
      PROVE  Clients' /\ Links' /\ Silent'
  BY <1>6, HubUntouched DEF Refocus, Read, Show, FetchFails, hubVars, pageVars
<1>7. ASSUME NEW p \in Pages, TokenExpires(p) \/ RenewToken(p) \/ SessionEnds(p) \/ LogIn(p)
      PROVE  Clients' /\ Links' /\ Silent'
  BY <1>7, HubUntouched DEF TokenExpires, RenewToken, SessionEnds, LogIn, hubVars, pageVars
<1>8. CASE Page
  BY <1>6, <1>7, <1>8, PageHub DEF Page
<1>9. CASE Exit \/ Crash
  BY <1>9, GoneHub DEF Exit, Crash
<1> QED  BY <1>1, <1>2, <1>5, <1>8, <1>9, ShutdownHub, RestartHub DEF RNext

\* A page gets its first token before it connects, and never loses it.
LEMMA BarredStep == RTypeOK /\ Barred /\ RNext => Barred'
<1> SUFFICES ASSUME RTypeOK, Barred, RNext PROVE Barred'
  OBVIOUS
<1>1. token \in [Pages -> {"none", "valid", "expired"}]
      /\ link \in [Pages -> Conns \cup {NoConn}]
  BY DEF RTypeOK
<1>2. ASSUME UNCHANGED <<link, token>> PROVE Barred'
  BY <1>2 DEF Barred
<1>3. CASE Request \/ Sync
  BY <1>2, <1>3 DEF Request, Tell, Commit, Broadcast, FailAfterCommit, Sync, pageVars,
                    credentials
<1>4. CASE Stream
  BY <1>2, <1>4 DEF Stream, Handle, Answer, SendToLogin, Refuse, Flush, Subscribe, Deliver,
                    EndOfStream, Notice, pageVars, credentials
<1>5. ASSUME NEW p \in Pages, Run(p) \/ Lose(p) PROVE Barred'
  BY <1>1, <1>5 DEF Run, ConnectOff, Connect, Connected, SeesRefusal, SeesEnd, Lose,
                    Disconnect, Barred, credentials
<1>6. ASSUME NEW p \in Pages, SignIn(p) \/ TokenExpires(p) \/ RenewToken(p)
                               \/ SessionEnds(p) \/ LogIn(p)
      PROVE  Barred'
  BY <1>1, <1>6 DEF SignIn, TokenExpires, RenewToken, SessionEnds, LogIn, Barred, pageVars
<1>7. ASSUME NEW p \in Pages, NEW v \in Views,
             Refocus(p, v) \/ Read(p, v) \/ Show(p, v) \/ FetchFails(p, v)
      PROVE  Barred'
  BY <1>1, <1>7 DEF Refocus, Read, Show, FetchFails, Barred, pageVars, credentials
<1>8. CASE Shutdown \/ CloseStore \/ Exit \/ Crash \/ Restart
  BY <1>1, <1>8 DEF Shutdown, CloseStore, Exit, Crash, Restart, Gone, Barred, pageVars,
                    credentials
<1> QED  BY <1>3, <1>4, <1>5, <1>6, <1>7, <1>8 DEF RNext, Page

-----------------------------------------------------------------------------
(* LiveRefresh: what a page shows *)

Latest(p, v) == IF fetch[p][v] = "read" THEN got[p][v] ELSE shown[p][v]
Excused(p, v) == why[p][v] # "none" \/ Committed \/ Queued(p, v)
Settled(p, v) == fetch[p][v] = "asked" \/ Latest(p, v) = db[v] \/ Excused(p, v)

LEMMA SettledMeans == StaleHasReason <=> \A p \in Pages, v \in Views : Settled(p, v)
BY DEF StaleHasReason, Settled, Latest, Excused

LEMMA SettledMeansNext ==
    StaleHasReason' <=> \A p \in Pages, v \in Views : Settled(p, v)'
BY DEF StaleHasReason, Settled, Latest, Excused

\* Nothing is read, written or told.
LEMMA StaleKept ==
    ASSUME StaleHasReason, UNCHANGED <<db, write, fetch, got, shown, why>>,
           \A p \in Pages, v \in Views : Queued(p, v) => Queued(p, v)'
    PROVE  StaleHasReason'
<1>1. Committed' <=> Committed
  BY DEF Committed
<1>2. \A p \in Pages, v \in Views : Settled(p, v)'
  BY <1>1, SettledMeans DEF Settled, Latest, Excused
<1> QED  BY <1>2, SettledMeansNext

\* What is in a channel on its way to a page stays there.
LEMMA QueuedKept ==
    ASSUME UNCHANGED <<link, chan>>
    PROVE  \A p \in Pages, v \in Views : Queued(p, v)' <=> Queued(p, v)
BY DEF Queued

LEMMA StaleUntouched ==
    ASSUME StaleHasReason, UNCHANGED <<db, write, fetch, got, shown, why, link, chan>>
    PROVE  StaleHasReason'
BY StaleKept, QueuedKept

\* Every page is told what a request has committed, or has a reason.
LEMMA BroadcastStale ==
    ASSUME RInv, NEW r \in Requests, Broadcast(r)
    PROVE  StaleHasReason'
<1> SUFFICES ASSUME NEW p \in Pages, NEW v \in Views PROVE Settled(p, v)'
  BY SettledMeansNext
<1> DEFINE k == write[r]
           c == link[p]
<1>1. /\ RTypeOK /\ Clients /\ Links
      /\ k \in Kinds /\ UNCHANGED <<link, fetch>>
  BY DEF RInv, Broadcast, pageVars, RTypeOK
<1>2. /\ chan' = [d \in Conns |-> IF Receives(d, k) THEN Append(chan[d], k) ELSE chan[d]]
      /\ why' = [q \in Pages |-> Blame(q, Missed(q, k))]
  BY DEF Broadcast
<1>3. /\ c \in Conns \cup {NoConn} /\ NoConn \notin Conns /\ clients \subseteq Conns
      /\ \A d \in Conns : chan[d] \in Seq(Kinds) /\ Len(chan[d]) <= Buffer
                          /\ Len(chan[d]) \in Nat
      /\ Buffer \in Nat
  BY <1>1, RefreshAssumption DEF RTypeOK
<1> HIDE DEF k
<1>4. CASE v \in Missed(p, k)
  <2>1. why'[p][v] = "missed"
    BY <1>1, <1>2, <1>4, BlameTypes
  <2> QED  BY <2>1 DEF Settled, Excused
<1>5. CASE v \notin Missed(p, k)
  <2>0. /\ ReadBy(p) \cap clients # {} /\ CanReceive(p, k) /\ Len(chan[c]) # Buffer
        /\ v \in Invalidated(k)
    BY <1>5 DEF Missed
  <2>1. c \in clients /\ c \in Conns
    BY <1>3, <2>0 DEF ReadBy
  <2>2. Queued(p, v)'
    <3>1. \A q \in Pages : link[q] = c => q = p
      BY <1>1, <1>3, <2>1 DEF Links
    <3>2. Receives(c, k)
      BY <1>3, <2>0, <2>1, <3>1 DEF Receives, Reader
    <3>3. chan'[c] = Append(chan[c], k)
      BY <1>2, <2>1, <3>2
    <3>4. Len(chan'[c]) = Len(chan[c]) + 1 /\ chan'[c][Len(chan[c]) + 1] = k
      BY <1>1, <1>3, <2>1, <3>3
    <3>5. link'[p] = c /\ c # NoConn
      BY <1>1, <1>3, <2>1
    <3>6. PICK i \in 1..Len(chan'[link'[p]]) : chan'[link'[p]][i] = k
      BY <1>3, <2>1, <3>4, <3>5
    <3> QED  BY <2>0, <3>5, <3>6 DEF Queued, Invalidated
  <2> QED  BY <2>2 DEF Settled, Excused
<1> QED  BY <1>4, <1>5

LEMMA CommitStale ==
    ASSUME RInv, NEW r \in Requests, NEW k \in Kinds, Commit(r, k)
    PROVE  StaleHasReason'
<1>1. k # NoKind
  BY RefreshAssumption DEF NoKind
<1>2. write'[r] = k
  BY DEF Commit, RInv, RTypeOK
<1>3. Committed'
  BY <1>1, <1>2 DEF Committed
<1> QED  BY <1>3, SettledMeansNext DEF Settled, Excused

\* Nobody is told, and everybody has a reason.
LEMMA UntoldStale ==
    ASSUME RInv, Sync \/ \E r \in Requests : FailAfterCommit(r)
    PROVE  StaleHasReason'
<1>1. \A p \in Pages, v \in Views : why'[p][v] = "missed"
  BY BlameTypes DEF Sync, FailAfterCommit, RInv
<1> QED  BY <1>1, SettledMeansNext DEF Settled, Excused

\* What a channel delivers, the page asks for again.
LEMMA DeliverStale ==
    ASSUME RInv, NEW c \in Conns, Deliver(c)
    PROVE  StaleHasReason'
<1> SUFFICES ASSUME NEW p \in Pages, NEW v \in Views PROVE Settled(p, v)'
  BY SettledMeansNext
<1>1. /\ RTypeOK /\ chan[c] # <<>> /\ chan' = [chan EXCEPT ![c] = Tail(chan[c])]
      /\ UNCHANGED <<db, write, link, got, shown, why>>
      /\ fetch' = [q \in Pages |-> IF q \in Reader(c)
                                   THEN Refetch(q, Invalidated(Head(chan[c]))) ELSE fetch[q]]
  BY DEF RInv, Deliver, pageVars
<1>2. Settled(p, v) /\ (Committed' <=> Committed)
  BY <1>1, SettledMeans DEF RInv, Committed
<1>3. \A d \in Conns : chan[d] \in Seq(Kinds) /\ Len(chan[d]) \in Nat
  BY <1>1 DEF RTypeOK
<1>4. link[p] \in Conns \cup {NoConn} /\ DOMAIN chan = Conns
  BY <1>1 DEF RTypeOK
<1>5. CASE p \notin Reader(c)
  <2>1. fetch'[p] = fetch[p]
    BY <1>1, <1>5
  <2>2. link[p] # c
    BY <1>5 DEF Reader
  <2>3. link[p] # NoConn => chan'[link[p]] = chan[link[p]]
    BY <1>1, <1>4, <2>2
  <2>4. Queued(p, v) => Queued(p, v)'
    BY <1>1, <2>3 DEF Queued, Invalidated
  <2> QED  BY <1>1, <1>2, <2>1, <2>4 DEF Settled, Latest, Excused
<1>6. CASE p \in Reader(c)
  <2>1. link[p] = c
    BY <1>6 DEF Reader
  <2>2. fetch'[p][v] = IF v \in Invalidated(Head(chan[c])) THEN "asked" ELSE fetch[p][v]
    BY <1>1, <1>6, RefetchTypes
  <2>3. CASE v \in Invalidated(Head(chan[c]))
    BY <2>2, <2>3 DEF Settled
  <2>4. CASE v \notin Invalidated(Head(chan[c]))
    <3>1. Queued(p, v) => Queued(p, v)'
      <4> SUFFICES ASSUME Queued(p, v) PROVE Queued(p, v)'
        OBVIOUS
      <4>1. PICK i \in 1..Len(chan[c]) : v \in Invalidated(chan[c][i])
        BY <2>1 DEF Queued
      <4>2. i # 1
        BY <1>1, <1>3, <2>4, <4>1
      <4>3. /\ chan'[c] = Tail(chan[c]) /\ Len(Tail(chan[c])) = Len(chan[c]) - 1
            /\ \A j \in 1..Len(Tail(chan[c])) : Tail(chan[c])[j] = chan[c][j + 1]
        BY <1>1, <1>3, <1>4
      <4>4. i - 1 \in 1..Len(chan'[c]) /\ chan'[c][i - 1] = chan[c][i]
        BY <1>3, <4>1, <4>2, <4>3
      <4>5. link'[p] = c /\ c # NoConn
        BY <1>1, <2>1, RefreshAssumption
      <4>6. PICK j \in 1..Len(chan'[link'[p]]) : chan'[link'[p]][j] = chan[c][i]
        BY <4>4, <4>5
      <4> QED  BY <4>1, <4>5, <4>6 DEF Queued, Invalidated
    <3>2. fetch'[p][v] = fetch[p][v]
      BY <2>2, <2>4
    <3> QED  BY <1>1, <1>2, <3>1, <3>2 DEF Settled, Latest, Excused
  <2> QED  BY <2>3, <2>4
<1> QED  BY <1>5, <1>6

LEMMA StreamStale ==
    ASSUME RInv, NEW c \in Conns,
           Answer(c) \/ Subscribe(c) \/ EndOfStream(c) \/ Notice(c)
    PROVE  StaleHasReason'
<1>1. /\ StaleHasReason /\ UNCHANGED <<db, write, fetch, got, shown, why, link>>
      /\ chan \in [Conns -> Seq(Kinds)]
  BY DEF RInv, RTypeOK, Answer, SendToLogin, Refuse, Flush, Subscribe, EndOfStream, Notice,
         viewVars, pageVars
<1>2. CASE Answer(c)
  BY <1>1, <1>2, StaleUntouched DEF Answer, SendToLogin, Refuse, Flush, hubVars
<1>3. CASE Subscribe(c)
  <2>1. chan[c] = <<>> /\ chan' = [chan EXCEPT ![c] = <<>>]
    BY <1>3 DEF Subscribe, RInv, Silent
  <2>2. chan' = chan
    BY <1>1, <2>1
  <2> QED  BY <1>1, <2>2, StaleUntouched
<1>4. CASE EndOfStream(c)
  <2>1. chan[c] = <<>> /\ chan' = [chan EXCEPT ![c] = <<>>]
    BY <1>4 DEF EndOfStream, Unsubscribe
  <2>2. chan' = chan
    BY <1>1, <2>1
  <2> QED  BY <1>1, <2>2, StaleUntouched
<1>5. CASE Notice(c)
  <2>1. chan' = [chan EXCEPT ![c] = <<>>] /\ \A p \in Pages : link[p] # c
    BY <1>5 DEF Notice, Unsubscribe, Reader
  <2>2. \A p \in Pages : chan'[link[p]] = chan[link[p]]
    BY <1>1, <2>1
  <2>3. \A p \in Pages, v \in Views : Queued(p, v) => Queued(p, v)'
    BY <1>1, <2>2 DEF Queued, Invalidated
  <2> QED  BY <1>1, <2>3, StaleKept
<1> QED  BY <1>2, <1>3, <1>4, <1>5

\* A page that changes its stream: nothing was on its way, or it has a reason.
LEMMA LinkStale ==
    ASSUME RInv, NEW p \in Pages, Run(p) \/ Lose(p)
    PROVE  StaleHasReason'
<1>1. /\ StaleHasReason /\ RTypeOK /\ Links /\ Silent
      /\ UNCHANGED <<db, write, got, shown, chan>>
  BY DEF RInv, Run, ConnectOff, Connect, Connected, SeesRefusal, SeesEnd, Lose,
         viewVars, hubVars
<1>2. CASE Connect(p)
  <2>1. UNCHANGED <<fetch, why>> /\ link[p] = NoConn
        /\ \A q \in Pages : q # p => link'[q] = link[q]
    BY <1>1, <1>2 DEF Connect, viewVars, Links, RTypeOK
  <2>2. \A q \in Pages, v \in Views : Queued(q, v) => Queued(q, v)'
    BY <1>1, <2>1 DEF Queued, Invalidated
  <2> QED  BY <1>1, <2>1, <2>2, StaleKept
<1>3. CASE SeesRefusal(p) \/ SeesEnd(p)
  <2>1. UNCHANGED <<fetch, why>> /\ stream[link[p]] # "loop"
        /\ \A q \in Pages : q # p => link'[q] = link[q]
    BY <1>1, <1>3 DEF SeesRefusal, SeesEnd, Disconnect, viewVars, RTypeOK
  <2>2. link[p] # NoConn => link[p] \in Conns /\ chan[link[p]] = <<>>
    BY <1>1, <2>1 DEF Silent, RTypeOK
  <2>3. \A v \in Views : ~Queued(p, v)
    BY <2>2 DEF Queued
  <2>4. \A q \in Pages, v \in Views : Queued(q, v) => Queued(q, v)'
    BY <1>1, <2>1, <2>3 DEF Queued, Invalidated
  <2> QED  BY <1>1, <2>1, <2>4, StaleKept
<1>4. CASE Connected(p)
  <2>1. /\ UNCHANGED <<why, link>>
        /\ fetch' = [fetch EXCEPT ![p] = IF once[p] THEN Refetch(p, Views) ELSE @]
    BY <1>4 DEF Connected
  <2>2. \A q \in Pages, v \in Views : fetch'[q][v] \in {"asked", fetch[q][v]}
    BY <1>1, <2>1, RefetchTypes DEF RTypeOK
  <2>3. Committed' <=> Committed
    BY <1>1 DEF Committed
  <2>4. \A q \in Pages, v \in Views : Queued(q, v)' <=> Queued(q, v)
    BY <1>1, <2>1, QueuedKept
  <2>5. ASSUME NEW q \in Pages, NEW v \in Views PROVE Settled(q, v)'
    BY <1>1, <2>1, <2>2, <2>3, <2>4, SettledMeans DEF Settled, Latest, Excused
  <2> QED  BY <2>5, SettledMeansNext
<1>5. CASE Lose(p)
  <2>1. /\ UNCHANGED fetch
        /\ why' = [why EXCEPT ![p] = Blame(p, LostWith(p))]
        /\ \A q \in Pages : q # p => link'[q] = link[q]
    BY <1>1, <1>5 DEF Lose, Disconnect, RTypeOK
  <2>2. Committed' <=> Committed
    BY <1>1 DEF Committed
  <2>3. ASSUME NEW q \in Pages \ {p}, NEW v \in Views PROVE Settled(q, v)'
    <3>1. why'[q] = why[q] /\ link'[q] = link[q]
      BY <1>1, <2>1 DEF RTypeOK
    <3>2. Queued(q, v)' <=> Queued(q, v)
      BY <1>1, <3>1 DEF Queued, Invalidated
    <3> QED  BY <1>1, <2>1, <2>2, <3>1, <3>2, SettledMeans DEF Settled, Latest, Excused
  <2>4. ASSUME NEW v \in Views PROVE Settled(p, v)'
    <3>1. why'[p][v] = IF v \in LostWith(p) THEN "missed" ELSE why[p][v]
      BY <1>1, <2>1, BlameTypes DEF RTypeOK
    <3>2. Queued(p, v) => why'[p][v] = "missed"
      BY <3>1 DEF LostWith
    <3> QED  BY <1>1, <2>1, <2>2, <3>1, <3>2, SettledMeans DEF Settled, Latest, Excused
  <2> QED  BY <2>3, <2>4, SettledMeansNext
<1>6. CASE ConnectOff(p)
  BY <1>1, <1>6, StaleUntouched DEF ConnectOff, viewVars
<1> QED  BY <1>2, <1>3, <1>4, <1>5, <1>6 DEF Run

\* A fetch that is answered, shown or given up.
LEMMA FetchStale ==
    ASSUME RInv, NEW p \in Pages, NEW v \in Views,
           Refocus(p, v) \/ Read(p, v) \/ Show(p, v) \/ FetchFails(p, v)
    PROVE  StaleHasReason'
<1>1. /\ RTypeOK /\ StaleHasReason
      /\ UNCHANGED <<db, write, link, chan>>
  BY DEF RInv, Refocus, Read, Show, FetchFails, pageVars, hubVars
<1>2. Committed' <=> Committed
  BY <1>1 DEF Committed
<1>3. \A q \in Pages, w \in Views : Queued(q, w)' <=> Queued(q, w)
  BY <1>1, QueuedKept
<1>4. ASSUME NEW q \in Pages, NEW w \in Views, q # p \/ w # v
      PROVE  Settled(q, w)'
  <2>1. /\ fetch'[q][w] = fetch[q][w] /\ got'[q][w] = got[q][w]
        /\ shown'[q][w] = shown[q][w] /\ why'[q][w] = why[q][w]
    BY <1>1, <1>4 DEF Refocus, Read, Show, FetchFails, RTypeOK
  <2> QED  BY <1>1, <1>2, <1>3, <2>1, SettledMeans DEF Settled, Latest, Excused
<1>5. Settled(p, v)'
  <2>1. CASE Refocus(p, v)
    BY <1>1, <2>1 DEF Refocus, Settled, RTypeOK
  <2>2. CASE Read(p, v)
    BY <1>1, <2>2 DEF Read, Settled, Latest, RTypeOK
  <2>3. CASE Show(p, v)
    <3>1. /\ fetch[p][v] = "read" /\ fetch'[p][v] = "idle"
          /\ shown'[p][v] = got[p][v] /\ why' = why
      BY <1>1, <2>3 DEF Show, RTypeOK
    <3> QED  BY <1>1, <1>2, <1>3, <3>1, SettledMeans DEF Settled, Latest, Excused
  <2>4. CASE FetchFails(p, v)
    BY <1>1, <2>4 DEF FetchFails, Settled, Excused, RTypeOK
  <2> QED  BY <2>1, <2>2, <2>3, <2>4
<1> QED  BY <1>4, <1>5, SettledMeansNext

\* Whoever would have been told has a reason when the process is gone.
LEMMA GoneStale ==
    ASSUME RInv, Gone
    PROVE  StaleHasReason'
<1> SUFFICES ASSUME NEW p \in Pages, NEW v \in Views PROVE Settled(p, v)'
  BY SettledMeansNext
<1>1. /\ UNCHANGED <<db, fetch, got, shown>> /\ RTypeOK /\ Settled(p, v)
      /\ why' = [q \in Pages |->
                    Blame(q, {w \in Views : Committed \/ Queued(q, w)})]
  BY SettledMeans DEF RInv, Gone
<1>2. why'[p][v] = IF Committed \/ Queued(p, v) THEN "missed" ELSE why[p][v]
  BY <1>1, BlameTypes
<1> QED  BY <1>1, <1>2 DEF Settled, Latest, Excused

LEMMA StaleStep == RInv /\ RNext => StaleHasReason'
<1> SUFFICES ASSUME RInv, RNext PROVE StaleHasReason'
  OBVIOUS
<1>1. CASE Request
  BY <1>1, BroadcastStale, CommitStale, UntoldStale DEF Request, Tell
<1>2. CASE Stream
  BY <1>2, StreamStale, DeliverStale DEF Stream, Handle
<1>6. ASSUME NEW p \in Pages, SignIn(p) \/ TokenExpires(p) \/ RenewToken(p)
                               \/ SessionEnds(p) \/ LogIn(p)
      PROVE  StaleHasReason'
  BY <1>6, StaleUntouched DEF RInv, SignIn, TokenExpires, RenewToken, SessionEnds, LogIn,
                              hubVars, pageVars, viewVars
<1>3. CASE Page
  BY <1>3, <1>6, LinkStale, FetchStale DEF Page
<1>4. CASE Shutdown \/ CloseStore \/ Restart
  BY <1>4, StaleUntouched DEF RInv, Shutdown, CloseHub, CloseStore, Restart, viewVars, pageVars, hubVars
<1>5. CASE Exit \/ Crash
  BY <1>5, GoneStale DEF Exit, Crash
<1> QED  BY <1>1, <1>2, <1>3, <1>4, <1>5, UntoldStale DEF RNext

-----------------------------------------------------------------------------
(* LiveRefresh: the theorems *)

\* In every state: clients have open channels, pages have streams of their own,
\* and what is not shown has a reason.
THEOREM RefreshInvariance == RSpec => []RInv
<1>1. RInv /\ [RNext]_refreshVars => RInv'
  <2> SUFFICES ASSUME RInv, [RNext]_refreshVars PROVE RInv'
    OBVIOUS
  <2>1. CASE RNext
    <3>1. RTypeOK'
      <4>1. RTypeOK' <=> ChannelTypes' /\ PageTypes' /\ ViewTypes' /\ ServerTypes'
                         /\ CredentialTypes'
        BY DEF RTypeOK, ChannelTypes, PageTypes, ViewTypes, ServerTypes, CredentialTypes
      <4> QED  BY <2>1, <4>1, ChannelTypesStep, PageTypesStep, ViewTypesStep, ServerTypesStep,
                  CredentialTypesStep DEF RInv
    <3>2. Clients' /\ Links' /\ Silent' /\ Barred'
      BY <2>1, HubStep, BarredStep DEF RInv
    <3>3. StaleHasReason'
      BY <2>1, StaleStep
    <3> QED  BY <3>1, <3>2, <3>3 DEF RInv
  <2>2. CASE UNCHANGED refreshVars
    <3>1. UNCHANGED <<db, write, server, hubVars, stream, pageVars, viewVars,
                    credentials, losses, stops>>
      BY <2>2 DEF refreshVars
    <3>2. Clients' /\ Links' /\ Silent' /\ Barred'
      BY <3>1, HubUntouched DEF RInv, Barred, hubVars, pageVars, credentials
    <3>3. StaleHasReason'
      BY <3>1, StaleUntouched DEF RInv, hubVars, pageVars, viewVars
    <3>4. RTypeOK'
      BY <3>1 DEF RInv, RTypeOK, hubVars, pageVars, viewVars, credentials
    <3> QED  BY <3>2, <3>3, <3>4 DEF RInv
  <2> QED  BY <2>1, <2>2
<1> QED  BY RefreshInit, <1>1, PTL DEF RSpec

\* A channel is not closed twice and not written to after it was closed, in
\* whatever order streams end, pages leave and the hub is closed (sse_hub.go).
THEOREM ChannelsStaySound == RSpec => []ChannelsAreSound
<1>1. RInv => ChannelsAreSound
  BY DEF RInv, Clients, ChannelsAreSound
<1> QED  BY <1>1, RefreshInvariance, PTL

\* A view that is older than the database is about to be told, is told on its
\* way, or has a reason (Broadcast, handleSSEEvent).
THEOREM StaleIsExplained == RSpec => []StaleHasReason
<1>1. RInv => StaleHasReason
  BY DEF RInv
<1> QED  BY <1>1, RefreshInvariance, PTL
=============================================================================
