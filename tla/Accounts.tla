------------------------------- MODULE Accounts -------------------------------
(***************************************************************************)
(* A browser session and the accounts in it:                               *)
(*   SessionStore                          (internal/auth/auth.go)         *)
(*   HandleAccountList, -Switch, -Remove, -Add                             *)
(*                                         (internal/handlers/account.go)  *)
(*   addOrCreateSession, HandleAdminLoginAPI, HandleLogout                 *)
(*                                         (internal/handlers/app.go)      *)
(*                                                                         *)
(* Every method of the store is a critical section, but Get returns a copy *)
(* of the Session, whose Identities slice is a header on the backing array *)
(* that the store goes on editing: removals shift its cells in place and   *)
(* additions use its spare capacity.  The arrays are therefore modelled.   *)
(***************************************************************************)
EXTENDS Naturals, Sequences

CONSTANTS
    Tab,        \* requests of one browser in flight at one time
    Account,    \* user name and role
    Super,      \* the accounts of superadmins
    Token,      \* session tokens, each drawn once
    Nothing,    \* no token, no account
    MaxArray    \* bound: backing arrays allocated

ASSUME AccountsAssumption == Super \subseteq Account
ASSUME NothingAssumption == Nothing \notin Account \cup Token
ASSUME ArraysAssumption == MaxArray \in Nat

VARIABLES
    array,      \* backing arrays: cells, as many as the capacity
    session,    \* SessionStore.sessions
    used,       \* tokens drawn
    cookie,     \* the browser's cookie
    tab,        \* the local state of every request
    blurred     \* history: sessions marked by a login that was disturbed

accountVars == <<array, session, used, cookie, tab, blurred>>

-----------------------------------------------------------------------------
Cell == [id : Account \cup {Nothing}, super : BOOLEAN]
Header == [arr : 0..MaxArray, len : Nat, active : Nat]
Gone == [arr |-> 0, len |-> 0, active |-> 0]

TabState == [pc : {"idle", "add", "switch", "create", "mark", "list", "encode"},
             login : BOOLEAN, token : Token \cup {Nothing}, id : Account \cup {Nothing},
             idx : Nat, head : Header,
             then : Seq(Account \cup {Nothing}),  \* history: the accounts when listed
             disturbed : BOOLEAN]                 \* history: by another request
FreeTab == [pc |-> "idle", login |-> FALSE, token |-> Nothing, id |-> Nothing, idx |-> 0,
         head |-> Gone, then |-> <<>>, disturbed |-> FALSE]

\* The identity that is added for an account: marked at once if it is due.
Entry(id) == [id |-> id, super |-> id \in Super]

Live(t) == t # Nothing /\ session[t] # Gone
\* The accounts a header shows; positions count from 1.
Ids(h) == [i \in 1..h.len |-> array[h.arr][i].id]
Active(t) == array[session[t].arr][session[t].active].id

TabAt(r, pc) == tab[r].pc = pc
Finish(r) == tab' = [tab EXCEPT ![r] = FreeTab]

\* One type invariant; a header fits its array.
ATypeOK ==
    /\ array \in Seq(Seq(Cell)) /\ Len(array) <= MaxArray
    /\ session \in [Token -> Header]
    /\ used \subseteq Token
    /\ cookie \in Token \cup {Nothing}
    /\ tab \in [Tab -> TabState]
    /\ blurred \subseteq Token
    /\ \A t \in Token : Live(t) =>
          /\ t \in used /\ session[t].arr \in 1..Len(array)
          /\ session[t].len \in 1..Len(array[session[t].arr])
          /\ session[t].active \in 1..session[t].len

\* Session t changes: that disturbs who has added to it and is not done; only
\* a removal counts for who is being sent its list.
Disturbed(t, shift) ==
    [q \in Tab |->
        IF tab[q].token = t /\ (tab[q].pc \in {"switch", "mark"} \/ (TabAt(q, "encode") /\ shift))
        THEN [tab[q] EXCEPT !.disturbed = TRUE]
        ELSE tab[q]]
Noted(r, t, shift, local) == tab' = [Disturbed(t, shift) EXCEPT ![r] = local]

-----------------------------------------------------------------------------
(* SessionStore: the methods on a live session t *)

Positions(t, id) ==
    {i \in 1..session[t].len : array[session[t].arr][i].id = id}
\* The index AddIdentity returns
Index(t, id) ==
    IF Positions(t, id) = {} THEN session[t].len + 1
    ELSE CHOOSE i \in Positions(t, id) : TRUE

Held(a) ==
    \/ \E t \in Token : session'[t].arr = a
    \/ \E r \in Tab : tab'[r].head.arr = a
\* The memory of an array that nobody holds any more is freed.
Freed == [a \in DOMAIN array |-> IF Held(a) THEN array[a] ELSE <<>>]

Spare(h) == h.len < Len(array[h.arr])
Blank == [id |-> Nothing, super |-> FALSE]
\* What append allocates: twice the capacity
Doubled(h, cell) ==
    [i \in 1..(2 * h.len) |-> IF i <= h.len THEN array[h.arr][i]
                              ELSE IF i = h.len + 1 THEN cell ELSE Blank]

\* append: into the spare capacity that a removal left, or into a new array
Appended(t, cell) ==
    LET h == session[t] IN
    \/ /\ Spare(h)
       /\ array' = [array EXCEPT ![h.arr][h.len + 1] = cell]
       /\ session' = [session EXCEPT ![t].len = @ + 1]
    \/ /\ ~Spare(h) /\ Len(array) < MaxArray
       /\ session' = [session EXCEPT ![t].len = @ + 1, ![t].arr = Len(array) + 1]
       /\ array' = Append(Freed, Doubled(h, cell))

\* (mutant) the newest account is put first, in place
AddIdentity_Front(t, cell) ==
    LET h == session[t] IN
    /\ Positions(t, cell.id) = {}
    /\ IF ~Spare(h) THEN Appended(t, cell)
       ELSE /\ array' = [array EXCEPT ![h.arr] = [i \in DOMAIN @ |->
                  IF i = 1 THEN cell ELSE IF i <= h.len + 1 THEN @[i - 1] ELSE @[i]]]
            /\ session' = [session EXCEPT ![t].len = @ + 1, ![t].active = @ + 1]
\* (mutant) an account that is there is added again
AddIdentity_Again(t, cell) == Appended(t, cell)
\* An account that is there is replaced in place.
AddIdentity(t, cell) ==
    \/ /\ Positions(t, cell.id) # {}
       /\ array' = [array EXCEPT ![session[t].arr][Index(t, cell.id)] = cell]
       /\ UNCHANGED session
    \/ /\ Positions(t, cell.id) = {}
       /\ Appended(t, cell)

\* (mutant) the accounts after the removed one do not move the active index
RemoveIdentity_KeepIndex(t, i) ==
    LET h == session[t]  n == h.len - 1 IN
    /\ array' = [array EXCEPT ![h.arr] =
                    [j \in DOMAIN @ |-> IF j \in i..n THEN @[j + 1] ELSE @[j]]]
    /\ session' = [session EXCEPT ![t] =
          IF n = 0 THEN Gone
          ELSE [arr |-> h.arr, len |-> n, active |-> IF h.active > n THEN n ELSE h.active]]
\* append(ids[:i], ids[i+1:]...) shifts the cells in place; the last one stays
\* behind the end of the slice.
RemoveIdentity(t, i) ==
    LET h == session[t]  n == h.len - 1 IN
    /\ array' = [array EXCEPT ![h.arr] =
                    [j \in DOMAIN @ |-> IF j \in i..n THEN @[j + 1] ELSE @[j]]]
    /\ session' = [session EXCEPT ![t] =
          IF n = 0 THEN Gone
          ELSE [arr |-> h.arr, len |-> n,
                active |-> IF h.active > n THEN n
                           ELSE IF h.active > i THEN h.active - 1 ELSE h.active]]

-----------------------------------------------------------------------------
(* Adding an account: HandleAccountAdd, and a login, which creates a session *)
(* if the browser has none.  The account is authenticated when these begin.  *)

BeginAdd(r, id, login) ==
    /\ TabAt(r, "idle") /\ (login \/ cookie # Nothing)
    /\ tab' = [tab EXCEPT ![r] =
          [FreeTab EXCEPT !.pc = "add", !.login = login, !.token = cookie, !.id = id]]
    /\ UNCHANGED <<array, session, used, cookie, blurred>>

\* No session, or none any more: a login creates one.
Missing(r) ==
    IF tab[r].login THEN tab' = [tab EXCEPT ![r].pc = "create"] ELSE Finish(r)

\* Get and AddIdentity: a session that is gone at the first is gone at the
\* second, and either way it is missing.  A login marks the account afterwards as well,
\* HandleAccountAdd does not.
Add(r) ==
    LET t == tab[r].token  id == tab[r].id IN
    /\ TabAt(r, "add")
    /\ IF Live(t)
         THEN /\ Noted(r, t, FALSE, [tab[r] EXCEPT !.pc = "switch", !.idx = Index(t, id)])
              /\ AddIdentity(t, Entry(id))
         ELSE Missing(r) /\ UNCHANGED <<array, session>>
    /\ UNCHANGED <<used, cookie, blurred>>

\* The error of SwitchIdentity is ignored.
Switch(r) ==
    LET t == tab[r].token  done == IF tab[r].login /\ tab[r].id \in Super
                                   THEN [tab[r] EXCEPT !.pc = "mark"] ELSE FreeTab IN
    /\ TabAt(r, "switch")
    /\ IF Live(t) /\ tab[r].idx <= session[t].len
         THEN /\ session' = [session EXCEPT ![t].active = tab[r].idx]
              /\ Noted(r, t, FALSE, done)
         ELSE tab' = [tab EXCEPT ![r] = done] /\ UNCHANGED session
    /\ UNCHANGED <<array, used, cookie, blurred>>

\* CreateWithDisplayName, SetSuperAdmin and the cookie: nobody else has the
\* token yet.
Create(r) ==
    /\ TabAt(r, "create") /\ Len(array) < MaxArray
    /\ \E t \in Token \ used :
          /\ array' = Append(array, <<Entry(tab[r].id)>>)
          /\ session' = [session EXCEPT ![t] = [arr |-> Len(array) + 1, len |-> 1, active |-> 1]]
          /\ used' = used \cup {t}
          /\ cookie' = t
    /\ Finish(r)
    /\ UNCHANGED blurred

\* SetSuperAdmin marks the account that is active now.
Mark(r) ==
    LET t == tab[r].token IN
    /\ TabAt(r, "mark")
    /\ IF Live(t)
         THEN /\ array' = [array EXCEPT ![session[t].arr][session[t].active].super = TRUE]
              /\ Noted(r, t, FALSE, FreeTab)
              /\ blurred' = IF tab[r].disturbed THEN blurred \cup {t} ELSE blurred
         ELSE Finish(r) /\ UNCHANGED <<array, blurred>>
    /\ UNCHANGED <<session, used, cookie>>

-----------------------------------------------------------------------------
(* The account page *)

\* HandleAccountSwitch: an index out of range is an error.
SwitchTo(r, i) ==
    /\ TabAt(r, "idle") /\ Live(cookie) /\ i \in 1..session[cookie].len
    /\ session' = [session EXCEPT ![cookie].active = i]
    /\ Noted(r, cookie, FALSE, FreeTab)
    /\ UNCHANGED <<array, used, cookie, blurred>>

\* HandleAccountRemove; the last account takes the session and the cookie
\* with it, otherwise the remaining accounts are listed.
Remove(r, i) ==
    /\ TabAt(r, "idle") /\ Live(cookie) /\ i \in 1..session[cookie].len
    /\ RemoveIdentity(cookie, i)
    /\ Noted(r, cookie, TRUE, IF session[cookie].len = 1 THEN FreeTab
                              ELSE [FreeTab EXCEPT !.pc = "list", !.token = cookie])
    /\ cookie' = IF session[cookie].len = 1 THEN Nothing ELSE cookie
    /\ UNCHANGED <<used, blurred>>

\* Get copies the header under the lock: for HandleAccountList, or for the
\* reply of HandleAccountRemove.
List(r) ==
    LET t == IF TabAt(r, "list") THEN tab[r].token ELSE cookie IN
    /\ (TabAt(r, "idle") /\ cookie # Nothing) \/ TabAt(r, "list")
    /\ IF Live(t)
         THEN tab' = [tab EXCEPT ![r] = [FreeTab EXCEPT !.pc = "encode", !.token = t,
                                           !.head = session[t], !.then = Ids(session[t])]]
         ELSE Finish(r)
    /\ UNCHANGED <<array, session, used, cookie, blurred>>

\* The JSON encoder reads the cells outside the lock, until it is done.
Encode(r) ==
    /\ TabAt(r, "encode")
    /\ Finish(r)
    /\ UNCHANGED <<array, session, used, cookie, blurred>>

Logout ==
    /\ cookie # Nothing
    /\ session' = [session EXCEPT ![cookie] = Gone]
    /\ cookie' = Nothing
    /\ tab' = Disturbed(cookie, FALSE)
    /\ array' = Freed
    /\ UNCHANGED <<used, blurred>>

\* Eight hours after it was created; the next Get deletes it.
Expire(t) ==
    /\ Live(t)
    /\ session' = [session EXCEPT ![t] = Gone]
    /\ tab' = Disturbed(t, FALSE)
    /\ array' = Freed
    /\ UNCHANGED <<used, cookie, blurred>>

\* The store is in memory only; the browser keeps its cookie.
StoreRestart ==
    /\ array' = <<>>
    /\ session' = [t \in Token |-> Gone]
    /\ tab' = [r \in Tab |-> FreeTab]
    /\ UNCHANGED <<used, cookie, blurred>>

-----------------------------------------------------------------------------
AInit ==
    /\ array = <<>>
    /\ session = [t \in Token |-> Gone]
    /\ used = {} /\ cookie = Nothing
    /\ tab = [r \in Tab |-> FreeTab]
    /\ blurred = {}

Handler(r) ==
    \/ \E id \in Account, login \in BOOLEAN : BeginAdd(r, id, login)
    \/ Add(r)
    \/ Switch(r)
    \/ Create(r)
    \/ Mark(r)
    \/ Live(cookie) /\ \E i \in 1..session[cookie].len : SwitchTo(r, i) \/ Remove(r, i)
    \/ List(r)
    \/ Encode(r)

ANext ==
    \/ \E r \in Tab : Handler(r)
    \/ Logout
    \/ \E t \in Token : Expire(t)
    \/ StoreRestart

ASpec == AInit /\ [][ANext]_accountVars

-----------------------------------------------------------------------------
(* Properties *)

\* A session has every account once, through removals that shift the cells
\* and additions that use what they left (auth.go:145, auth.go:184).
EachOnce ==
    \A t \in Token : Live(t) =>
        \A i, j \in 1..session[t].len : i # j =>
            Ids(session[t])[i] # Ids(session[t])[j] /\ Ids(session[t])[i] # Nothing

\* A list that a browser is sent shows the accounts of one moment although it
\* is read outside the lock, unless a removal overlapped: no other method
\* moves what a slice taken before it shows (auth.go:122, account.go:28).
ListsAreReal ==
    \A r \in Tab : TabAt(r, "encode") /\ ~tab[r].disturbed => Ids(tab[r].head) = tab[r].then

\* Only a superadmin's account has the mark, unless a login was disturbed
\* before it marked what was active by then (auth.go:110).
MarksRight ==
    \A t \in Token \ blurred : Live(t) =>
        \A i \in 1..session[t].len :
            array[session[t].arr][i].super => array[session[t].arr][i].id \in Super

\* Whoever removes another account stays who he is (auth.go:197-202).
StaysActive ==
    [][\A t \in Token :
        Live(t) /\ session'[t].len < session[t].len /\ session'[t] # Gone =>
            LET kept == {array'[session'[t].arr][i].id : i \in 1..session'[t].len} IN
            Active(t) \in kept =>
                array'[session'[t].arr][session'[t].active].id = Active(t)]_accountVars

\* An account that was added, by a login or to a session, is active and in
\* the session when its undisturbed request ends (account.go:139, app.go:602).
AddedIsActive ==
    [][\A r \in Tab :
        (Switch(r) \/ Mark(r)) /\ tab'[r] = FreeTab /\ ~tab[r].disturbed =>
            \E t \in Token :
                /\ session'[t] # Gone
                /\ array'[session'[t].arr][session'[t].active] = Entry(tab[r].id)]_accountVars

\* The sessions at every moment: slices within their arrays, every account
\* once, and the mark where it belongs (auth.go:145, auth.go:110).
SessionsAreSound == ATypeOK /\ EachOnce /\ MarksRight

\* Who is active: removals of others do not change it, and an account that was
\* added is, once its undisturbed request ends (auth.go:145, auth.go:184).
ActiveIsRight == StaysActive /\ AddedIsActive
=============================================================================
