----------------------------- MODULE ProgressCache -----------------------------
(***************************************************************************)
(* The cache of progress statistics behind the admin page:                 *)
(*   HandleAdminProgressSummary          (internal/handlers/tracker.go)    *)
(*   InvalidateProgressCache             (internal/handlers/app.go)        *)
(* and the handlers that write what the statistics are computed from: some *)
(* tell the cache of every student they wrote for, one of them tells it of *)
(* the owner of an item only, and some tell it of nobody.                  *)
(*                                                                         *)
(* progressMu guards each access to the cache, but a summary takes and     *)
(* releases it four times and queries the database in between, and a       *)
(* writer commits before it invalidates.  A step here is one critical      *)
(* section or one query.                                                   *)
(***************************************************************************)
EXTENDS Naturals

CONSTANTS
    Summary,    \* summaries in flight at one time
    Writer,     \* requests that change responses or assigned todos
    Student,    \* active students
    Range,      \* date ranges an admin may ask for
    NoRange,    \* progressStart = progressEnd = ""
    None,       \* no entry; also a nil map
    MaxWrites   \* bound: writes and item edits

ASSUME RangeAssumption == NoRange \notin Range
ASSUME NoneAssumption  == None \notin [range : Range, items : Nat, work : Nat]
ASSUME BoundsAssumption == MaxWrites \in Nat

VARIABLES
    items,      \* version of the todos, edited by handlers that tell nobody
    work,       \* per student: version of what invalidating handlers write
    isNil,      \* progressCache == nil
    cache,      \* progressCache
    range,      \* progressStart, progressEnd
    sum,        \* the local state of every summary
    wr,         \* students a writer has still to invalidate
    excused,    \* history: whose entry may be out of date, and nobody will tell
    crowd       \* history: "several" once two summaries have overlapped

versions == <<items, work>>
mem      == <<isNil, cache, range>>
history  == <<excused, crowd>>
vars     == <<versions, mem, sum, wr, history>>

-----------------------------------------------------------------------------
Stats == [range : Range, items : Nat, work : Nat]
Table == [Student -> Stats \cup {None}]
Local == [pc : {"idle", "reset", "missing", "items", "work", "store",
                "collect", "answer"},
          range : Range \cup {NoRange},
          refresh : BOOLEAN,
          missing : SUBSET Student,
          items : Nat,          \* what the item queries returned
          stats : Table,        \* computed statistics; at "answer", the answer
          since : [Student -> Nat],  \* history: work when the request began
          alone : BOOLEAN]      \* history: nothing else happened since

Nothing == [s \in Student |-> None]
Idle == [pc |-> "idle", range |-> NoRange, refresh |-> FALSE, missing |-> {},
         items |-> 0, stats |-> Nothing, since |-> [s \in Student |-> 0],
         alone |-> FALSE]

\* One type invariant; a nil cache has no entries.
TypeOK ==
    /\ items \in Nat /\ work \in [Student -> Nat]
    /\ isNil \in BOOLEAN /\ cache \in Table
    /\ range \in Range \cup {NoRange}
    /\ sum \in [Summary -> Local]
    /\ wr \in [Writer -> SUBSET Student]
    /\ excused \subseteq Student /\ crowd \in {"one", "several"}
    /\ isNil => cache = Nothing

At(m, pc) == sum[m].pc = pc
Quiet == /\ \A m \in Summary : At(m, "idle")
         /\ \A w \in Writer : wr[w] = {}

\* A summary begins: is another one under way?
Meet == crowd' = IF \E q \in Summary : ~At(q, "idle") THEN "several" ELSE crowd

\* Whoever else is at work is no longer alone.
Disturb(f, m) ==
    [q \in Summary |-> IF q = m THEN f ELSE [sum[q] EXCEPT !.alone = FALSE]]
DisturbAll == [q \in Summary |-> [sum[q] EXCEPT !.alone = FALSE]]

-----------------------------------------------------------------------------
(* HandleAdminProgressSummary *)

\* (mutant) a new date range keeps the entries of the old one
Begin_KeepRange(m, g, refresh) ==
    /\ At(m, "idle") /\ Meet
    /\ sum' = Disturb([Idle EXCEPT
                  !.pc = IF refresh \/ isNil THEN "reset" ELSE "missing",
                  !.range = g, !.refresh = refresh,
                  !.since = work, !.alone = Quiet], m)
    /\ UNCHANGED <<versions, mem, wr, excused>>
\* (mutant) the refresh button is ignored
Begin_NoRefresh(m, g, refresh) ==
    /\ At(m, "idle") /\ Meet
    /\ sum' = Disturb([Idle EXCEPT
                  !.pc = IF range # g \/ isNil THEN "reset" ELSE "missing",
                  !.range = g, !.refresh = refresh,
                  !.since = work, !.alone = Quiet], m)
    /\ UNCHANGED <<versions, mem, wr, excused>>

\* Under the read lock: is a reset due?
Begin(m, g, refresh) ==
    /\ At(m, "idle") /\ Meet
    /\ sum' = Disturb([Idle EXCEPT
                  !.pc = IF refresh \/ range # g \/ isNil
                         THEN "reset" ELSE "missing",
                  !.range = g, !.refresh = refresh,
                  !.since = work, !.alone = Quiet], m)
    /\ UNCHANGED <<versions, mem, wr, excused>>

\* Under the lock: forget everything, adopt the new range.
Reset(m) ==
    /\ At(m, "reset")
    /\ isNil' = TRUE /\ cache' = Nothing
    /\ range' = sum[m].range
    /\ excused' = {}
    /\ sum' = [sum EXCEPT ![m].pc = "missing"]
    /\ UNCHANGED <<versions, wr, crowd>>

\* Under the read lock: which students have no entry?
FindMissing(m) ==
    LET missing == {s \in Student : cache[s] = None} IN
    /\ At(m, "missing")
    /\ sum' = [sum EXCEPT
                  ![m].pc = IF missing = {} THEN "collect" ELSE "items",
                  ![m].missing = missing]
    /\ UNCHANGED <<versions, mem, wr, history>>

\* GetProgressStats reads the todos and what was done in separate queries.
ReadItems(m) ==
    /\ At(m, "items")
    /\ sum' = [sum EXCEPT ![m].pc = "work", ![m].items = items]
    /\ UNCHANGED <<versions, mem, wr, history>>

ReadWork(m) ==
    /\ At(m, "work")
    /\ sum' = [sum EXCEPT
                  ![m].pc = "store",
                  ![m].stats = [s \in Student |->
                      IF s \in sum[m].missing
                      THEN [range |-> sum[m].range, items |-> sum[m].items,
                            work |-> work[s]]
                      ELSE None]]
    /\ UNCHANGED <<versions, mem, wr, history>>

\* Students written for since the summary read what it stores.
Overtaken(m) == {s \in sum[m].missing : sum[m].stats[s].work # work[s]}

\* Under the lock: an entry for every student that was missing.
Store(m) ==
    /\ At(m, "store")
    /\ isNil' = FALSE
    /\ cache' = [s \in Student |-> IF s \in sum[m].missing
                                   THEN sum[m].stats[s] ELSE cache[s]]
    /\ excused' = (excused \ sum[m].missing) \cup Overtaken(m)
    /\ sum' = [sum EXCEPT ![m].pc = "collect"]
    /\ UNCHANGED <<versions, range, wr, crowd>>

\* Under the read lock: whatever the cache holds now is the answer.
Collect(m) ==
    /\ At(m, "collect")
    /\ sum' = [sum EXCEPT ![m].pc = "answer", ![m].stats = cache]
    /\ UNCHANGED <<versions, mem, wr, history>>

\* The answer is sent, or a query failed and an error is.
Finish(m) ==
    /\ sum[m].pc \in {"answer", "missing", "items", "work"}
    /\ sum' = [sum EXCEPT ![m] = Idle]
    /\ UNCHANGED <<versions, mem, wr, history>>

-----------------------------------------------------------------------------
(* The writers *)

\* A write for the students S commits; its handler will tell those of T.
Record(S, T) ==
    /\ \A s \in Student : work[s] < MaxWrites
    /\ work' = [s \in Student |-> IF s \in S THEN work[s] + 1 ELSE work[s]]
    /\ excused' = excused \cup (S \ T)
    /\ sum' = DisturbAll
    /\ UNCHANGED <<items, mem, crowd>>

\* HandleTrackerRespond, HandleLateSignoff and HandleTrackerBulkAssign commit
\* first and then tell of everyone they wrote for.
Write(w, S) ==
    /\ wr[w] = {} /\ Record(S, S)
    /\ wr' = [wr EXCEPT ![w] = S]

\* HandleTrackerComplete tells of the student the item belongs to: nobody when
\* the item is of a center or a class, or cannot be read any more.  Taking a
\* sign-off back removes those of every student, late ones included.
Complete(w, owner, S) ==
    /\ wr[w] = {} /\ Record(S, owner)
    /\ wr' = [wr EXCEPT ![w] = owner]

\* SaveProfileTrackerValues, AutoAssignProfileTasks and HandleAssignLibraryItem
\* tell of nobody.
WriteUntold(S) == Record(S, {}) /\ UNCHANGED wr

\* (mutant) the entry is left in the cache
Invalidate_Forgotten(w, s) ==
    /\ s \in wr[w]
    /\ wr' = [wr EXCEPT ![w] = @ \ {s}]
    /\ sum' = DisturbAll
    /\ UNCHANGED <<versions, mem, history>>

\* InvalidateProgressCache, once for each student written
Invalidate(w, s) ==
    /\ s \in wr[w]
    /\ cache' = [cache EXCEPT ![s] = None]
    /\ wr' = [wr EXCEPT ![w] = @ \ {s}]
    /\ excused' = excused \ {s}
    /\ sum' = DisturbAll
    /\ UNCHANGED <<versions, isNil, range, crowd>>

\* HandleTrackerItems and HandleTrackerItemDelete do not touch the cache.
EditItem ==
    /\ items < MaxWrites
    /\ items' = items + 1
    /\ sum' = DisturbAll
    /\ UNCHANGED <<work, mem, wr, history>>

-----------------------------------------------------------------------------
Init ==
    /\ items = 0 /\ work = [s \in Student |-> 0]
    /\ isNil = TRUE /\ cache = Nothing /\ range = NoRange
    /\ sum = [m \in Summary |-> Idle]
    /\ wr = [w \in Writer |-> {}]
    /\ excused = {} /\ crowd = "one"

SummaryStep(m) ==
    \/ \E g \in Range, refresh \in BOOLEAN : Begin(m, g, refresh)
    \/ Reset(m) \/ FindMissing(m) \/ ReadItems(m) \/ ReadWork(m)
    \/ Store(m) \/ Collect(m) \/ Finish(m)
WriterStep(w) ==
    \/ \E S \in SUBSET Student \ {{}} : Write(w, S)
    \/ \E owner \in {{}} \cup {{s} : s \in Student}, S \in SUBSET Student :
            Complete(w, owner, S)
    \/ \E s \in Student : Invalidate(w, s)

Next ==
    \/ \E m \in Summary : SummaryStep(m)
    \/ \E w \in Writer : WriterStep(w)
    \/ \E S \in SUBSET Student \ {{}} : WriteUntold(S)
    \/ EditItem

Spec == Init /\ [][Next]_vars

-----------------------------------------------------------------------------
(* Properties *)

Answered(m) == {s \in Student : sum[m].stats[s] # None}

RightRange(m) ==
    \A s \in Answered(m) : sum[m].stats[s].range = sum[m].range

\* The statistics of an answer are of the range that was asked for: "if ... the
\* date range changed, clear entire cache" (HandleAdminProgressSummary), unless
\* two summaries have overlapped.
RangeHonoured ==
    \A m \in Summary : At(m, "answer") /\ crowd = "one" => RightRange(m)

\* What the refresh button shows is not older than the click, although
\* writers and their late invalidations run beside the summary.
RefreshIsFresh ==
    \A m \in Summary :
        At(m, "answer") /\ sum[m].refresh /\ crowd = "one" =>
            \A s \in Answered(m) : sum[m].stats[s].work >= sum[m].since[s]

\* Whatever overlapping summaries and writers left in the cache, a refresh
\* nobody disturbs answers with the current statistics of every student.
RefreshRecovers ==
    \A m \in Summary : At(m, "answer") /\ sum[m].alone /\ sum[m].refresh =>
        sum[m].stats = [s \in Student |->
            [range |-> sum[m].range, items |-> items, work |-> work[s]]]

\* An entry whose count is out of date has one of three reasons: its handler is
\* about to remove it, the handler that wrote tells nobody of this student, or
\* the write fell between the summary's query and its store.
NoStaleWork ==
    \A s \in Student : \/ cache[s] = None \/ cache[s].work = work[s]
                       \/ \E w \in Writer : s \in wr[w]
                       \/ s \in excused

\* The cache at every moment, however summaries and writers overlap: well
\* formed, and no stale count in it that a handler has told of since it was
\* stored (handlers/tracker.go:691, app.go:99).
CacheIsSound == TypeOK /\ NoStaleWork

\* The refresh button: nothing older than the click beside writers, and all of
\* it current when nobody disturbs (HandleAdminProgressSummary).
RefreshWorks == RefreshIsFresh /\ RefreshRecovers
=============================================================================
