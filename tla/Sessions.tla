------------------------------ MODULE Sessions ------------------------------
(***************************************************************************)
(* The sessions of one user and their revocation (redis-session.ts,         *)
(* session-revocation.ts and auth-server/): logins, requests that resolve   *)
(* and refresh a session, logouts, and the administration that revokes      *)
(* sessions and blocks or readmits the user.                                *)
(*                                                                         *)
(* Everything is kept in Redis under the user's key, one command is one     *)
(* step, and nothing holds a lock between two.  A process remembers for     *)
(* TTL that the user has no control state at all.                           *)
(***************************************************************************)
EXTENDS Integers, Sequences

CONSTANTS
    SessionIds,  \* of this user; an id is used again once nothing refers to it
    Requests,    \* requests under way at a time
    Processes,   \* server processes, each with a cache of its own
    Writers,     \* administrative operations under way at a time
    TTL,         \* SESSION_CONTROL_ABSENT_CACHE_TTL_MS, in ticks
    SessionTTL,  \* sessionTtlMs: absolute lifetime of a session
    TokenTTL,    \* lifetime of an access token
    Skew,        \* TOKEN_REFRESH_SKEW_MS
    Buffer,      \* sessionRedisTtlBufferMs
    MaxTime,     \* bound on the clock
    MaxWrites    \* bound on administrative operations

ASSUME TimesAssumption ==
    /\ TTL \in Nat \ {0} /\ SessionTTL \in Nat /\ TokenTTL \in Nat /\ Skew \in Nat /\ Buffer \in Nat
    /\ MaxTime \in Nat /\ MaxWrites \in Nat

VARIABLES
    store,     \* the session records
    index,     \* the ids under the user's index key, and when that key expires
    control,   \* the control state
    login,     \* OIDC callbacks under way, by the id of the session they create
    request,   \* requests, and what the last one was told
    cache,     \* absentSessionControlCache: expiry of the entry, 0 if there is none
    writer,    \* revocations and readmissions under way
    now, writes,
    revokedAt, \* history: when each revocation was written
    blockedAt, \* history: since when the control state blocks, -1 if it does not
    barred,    \* history: which revocation ordered the irrevocable block in force, 0 if none
    lost       \* history: how many writes replaced a control state their operation had not read

redis == <<store, index, control>>
history == <<revokedAt, blockedAt, barred, lost>>
vars == <<redis, login, request, cache, writer, now, writes, history>>

None == [none |-> TRUE]
Idle == [pc |-> "idle"]
Least(a, b) == IF a <= b THEN a ELSE b

\* The record holds, as history, how many revocations its login knew of, and how
\* many writes were lost by then.
Record == [version : Nat \ {0}, issued : 0..MaxTime,
           expires : 0..MaxTime + SessionTTL, epoch : Nat, era : Nat]
\* No control state at all, or one that may block until readmission or for good.
Control == {None} \cup [min : Nat \ {0, 1}, reauth : 0..MaxTime,
                        block : {"no", "suspended", "barred"}]
Blocks(c) == c # None /\ c.block # "no"

Init ==
    /\ store = [s \in SessionIds |-> None]
    /\ index = [ids |-> {}, until |-> 0]
    /\ control = None
    /\ login = [s \in SessionIds |-> Idle]
    /\ request = [r \in Requests |-> Idle]
    /\ cache = [p \in Processes |-> 0]
    /\ writer = [w \in Writers |-> Idle]
    /\ now = 0 /\ writes = 0
    /\ revokedAt = <<>> /\ blockedAt = -1 /\ barred = 0 /\ lost = 0

\* A record is served until its expiry; one found expired is deleted.
Serves(s) == store[s] # None /\ store[s].expires >= now
Expired(s) == store[s] # None /\ store[s].expires < now
\* The index key is gone with the last id.
IndexOf(ids) == [ids |-> ids, until |-> IF ids = {} THEN 0 ELSE index.until]
StoreWithout(D) == [s \in SessionIds |-> IF s \in D THEN None ELSE store[s]]
Delete(D) ==
    /\ store' = StoreWithout(D)
    /\ index' = IndexOf(index.ids \ {s \in D : store[s] # None})
    /\ UNCHANGED control
DeleteIfExpired(s) == IF Expired(s) THEN Delete({s}) ELSE UNCHANGED redis

\* The index key gets the lifetime of the session added last.
Put(s, rec) ==
    /\ store' = [store EXCEPT ![s] = rec]
    /\ UNCHANGED <<index, control>>
AddToIndex(s, rec) == index' = [ids |-> index.ids \cup {s}, until |-> rec.expires + Buffer]

-----------------------------------------------------------------------------
(***************************************************************************)
(* Login: the callback stamps the session, reads the control state, stores  *)
(* the record and then adds it to the index.                               *)
(***************************************************************************)
InUse(s) ==
    \/ store[s] # None \/ login[s] # Idle
    \/ \E r \in Requests : request[r].pc \notin {"idle", "in"} /\ request[r].session = s

\* The id is a fresh one: what the last session of that id left behind is not its.
LoginStarts(s) ==
    /\ ~InUse(s)
    /\ login' = [login EXCEPT ![s] = [pc |-> "stamped", issued |-> now]]
    /\ index' = IndexOf(index.ids \ {s})
    /\ writer' = [w \in Writers |-> IF writer[w].pc = "deleting"
                                   THEN [writer[w] EXCEPT !.ids = @ \ {s}] ELSE writer[w]]
    /\ UNCHANGED <<store, control, request, cache, now, writes, history>>

LoginReadsAsFirst(s) ==  \* mutant: every session is of the first version
    /\ login[s].pc = "stamped"
    /\ login' = [login EXCEPT ![s] =
                    IF Blocks(control) THEN Idle
                    ELSE [pc |-> "read",
                          rec |-> [version |-> 1, issued |-> login[s].issued,
                                   expires |-> login[s].issued + Least(TokenTTL, SessionTTL),
                                   epoch |-> Len(revokedAt), era |-> lost]]]
    /\ UNCHANGED <<redis, request, cache, writer, now, writes, history>>

LoginReads(s) ==
    /\ login[s].pc = "stamped"
    /\ login' = [login EXCEPT ![s] =
                    IF Blocks(control) THEN Idle
                    ELSE [pc |-> "read",
                          rec |-> [version |-> IF control = None THEN 1 ELSE control.min,
                                   issued |-> login[s].issued,
                                   expires |-> login[s].issued + Least(TokenTTL, SessionTTL),
                                   epoch |-> Len(revokedAt), era |-> lost]]]
    /\ UNCHANGED <<redis, request, cache, writer, now, writes, history>>

LoginStores(s) ==
    /\ login[s].pc = "read"
    /\ Put(s, login[s].rec)
    /\ login' = [login EXCEPT ![s].pc = "stored"]
    /\ UNCHANGED <<request, cache, writer, now, writes, history>>

LoginIndexes(s) ==
    /\ login[s].pc = "stored"
    /\ AddToIndex(s, login[s].rec)
    /\ login' = [login EXCEPT ![s] = Idle]
    /\ UNCHANGED <<store, control, request, cache, writer, now, writes, history>>

\* The index key expires on its own.
IndexExpires ==
    /\ index.ids # {} /\ index.until < now
    /\ index' = IndexOf({})
    /\ UNCHANGED <<store, control, login, request, cache, writer, now, writes, history>>
-----------------------------------------------------------------------------
(***************************************************************************)
(* resolveSessionUser: the session is read, judged by the control state     *)
(* unless the process remembers that there is none, and refreshed when its  *)
(* token is about to expire.                                               *)
(***************************************************************************)
Goto(r, pc) == request' = [request EXCEPT ![r].pc = pc, ![r].at = 0, ![r].control = None]
LetIn(r) ==
    request' = [request EXCEPT ![r] = [pc |-> "in", started |-> request[r].started,
                                       issued |-> request[r].rec.issued,
                                       epoch |-> request[r].rec.epoch,
                                       era |-> request[r].rec.era]]
TurnAway(r) == request' = [request EXCEPT ![r] = Idle]

ReadSession(r, p, s) ==
    /\ request[r].pc \in {"idle", "in"} /\ login[s] = Idle
    /\ IF Serves(s)
       THEN request' = [request EXCEPT ![r] = [pc |-> "check", process |-> p, session |-> s,
                                               started |-> now, rec |-> store[s],
                                               at |-> 0, control |-> None]]
       ELSE TurnAway(r)
    /\ DeleteIfExpired(s)
    /\ UNCHANGED <<login, cache, writer, now, writes, history>>

\* What follows a favourable verdict.
Passes(r) ==
    IF request[r].rec.expires > now + Skew THEN LetIn(r) ELSE Goto(r, "reread")

CacheHit(r) ==
    /\ request[r].pc = "check" /\ cache[request[r].process] > now
    /\ Passes(r)
    /\ UNCHANGED <<redis, login, cache, writer, now, writes, history>>

CacheMiss(r) ==
    /\ request[r].pc = "check" /\ cache[request[r].process] <= now
    /\ cache' = [cache EXCEPT ![request[r].process] = 0]
    /\ request' = [request EXCEPT ![r].pc = "ask", ![r].at = now]
    /\ UNCHANGED <<redis, login, writer, now, writes, history>>

ReadControl(r) ==
    /\ request[r].pc = "ask"
    /\ request' = [request EXCEPT ![r].pc = "judge", ![r].control = control]
    /\ UNCHANGED <<redis, login, cache, writer, now, writes, history>>

Refuses(c, rec) ==
    c # None /\ (c.block # "no" \/ rec.version < c.min \/ rec.issued < c.reauth)

JudgeCachesLate(r) ==  \* mutant: the entry lives from the answer on, not from the question
    /\ request[r].pc = "judge"
    /\ LET q == request[r] IN
       /\ cache' = [cache EXCEPT ![q.process] = IF q.control = None THEN now + TTL ELSE 0]
       /\ IF Refuses(q.control, q.rec) THEN Goto(r, "delete") ELSE Passes(r)
    /\ UNCHANGED <<redis, login, writer, now, writes, history>>

Judge(r) ==
    /\ request[r].pc = "judge"
    /\ LET q == request[r] IN
       /\ cache' = [cache EXCEPT ![q.process] = IF q.control = None THEN q.at + TTL ELSE 0]
       /\ IF Refuses(q.control, q.rec) THEN Goto(r, "delete") ELSE Passes(r)
    /\ UNCHANGED <<redis, login, writer, now, writes, history>>

DeleteRefused(r) ==
    /\ request[r].pc = "delete"
    /\ Delete({request[r].session}) /\ TurnAway(r)
    /\ UNCHANGED <<login, cache, writer, now, writes, history>>

\* The session is read again; without a refresh token it is served as it is.
Reread(r) ==
    /\ request[r].pc = "reread"
    /\ LET s == request[r].session IN
       /\ IF Serves(s)
          THEN \/ request' = [request EXCEPT ![r].pc = "grant", ![r].rec = store[s]]
               \/ request' = [request EXCEPT ![r] = [pc |-> "in", started |-> @.started,
                                 issued |-> store[s].issued, epoch |-> store[s].epoch,
                                 era |-> store[s].era]]
          ELSE TurnAway(r)
       /\ DeleteIfExpired(s)
    /\ UNCHANGED <<login, cache, writer, now, writes, history>>

\* handleRefreshFailure: a session that has not expired yet is served.
RefreshFailed(r) ==
    IF request[r].rec.expires < now
    THEN Delete({request[r].session}) /\ TurnAway(r)
    ELSE UNCHANGED redis /\ LetIn(r)

GrantFails(r) ==
    /\ request[r].pc = "grant"
    /\ RefreshFailed(r)
    /\ UNCHANGED <<login, cache, writer, now, writes, history>>

\* Keycloak grants new tokens, whose lifetime begins; updateSession reads the
\* record it will replace.
UpdateReads(r) ==
    /\ request[r].pc = "grant"
    /\ LET s == request[r].session IN
       IF Serves(s)
       THEN /\ request' = [request EXCEPT ![r].pc = "write", ![r].rec = store[s], ![r].at = now]
            /\ UNCHANGED redis
       ELSE RefreshFailed(r)
    /\ UNCHANGED <<login, cache, writer, now, writes, history>>

UpdateWritesSliding(r) ==  \* mutant: the lifetime counts from the refresh
    /\ request[r].pc = "write"
    /\ LET rec == [request[r].rec EXCEPT !.expires = request[r].at + Least(TokenTTL, SessionTTL)]
       IN store' = [store EXCEPT ![request[r].session] = rec] /\ AddToIndex(request[r].session, rec)
    /\ LetIn(r)
    /\ UNCHANGED <<control, login, cache, writer, now, writes, history>>

\* The record is written whole, and is written back if it was deleted meanwhile.
UpdateWrites(r) ==
    /\ request[r].pc = "write"
    /\ LET q == request[r]
           rec == [q.rec EXCEPT !.expires = Least(q.at + TokenTTL, q.rec.issued + SessionTTL)]
       IN store' = [store EXCEPT ![q.session] = rec] /\ AddToIndex(q.session, rec)
    /\ LetIn(r)
    /\ UNCHANGED <<control, login, cache, writer, now, writes, history>>

Logout(s) ==
    /\ store[s] # None /\ login[s] = Idle
    /\ Delete({s})
    /\ UNCHANGED <<login, request, cache, writer, now, writes, history>>
-----------------------------------------------------------------------------
(***************************************************************************)
(* Administration.  Both operations read the control state, write a whole   *)
(* new one, and do not look whether it is still the one they read.  A       *)
(* revocation takes its time stamp at some time between the two.           *)
(***************************************************************************)
Modes == {"suspend", "bar", "delete", "readmit"}

AdminReadsAnyBlock(w, mode) ==  \* mutant: readmission lifts every block
    /\ writer[w] = Idle /\ writes < MaxWrites /\ writes' = writes + 1
    /\ mode = "readmit" => Blocks(control)
    /\ writer' = [writer EXCEPT ![w] =
                     [pc |-> "write", mode |-> mode, seen |-> control, began |-> now,
                      since |-> Len(revokedAt)]]
    /\ UNCHANGED <<redis, login, request, cache, now, history>>

AdminReads(w, mode) ==
    /\ writer[w] = Idle /\ writes < MaxWrites /\ writes' = writes + 1
    /\ mode = "readmit" => control # None /\ control.block = "suspended"
    /\ writer' = [writer EXCEPT ![w] =
                     [pc |-> "write", mode |-> mode, seen |-> control, began |-> now,
                      since |-> Len(revokedAt)]]
    /\ UNCHANGED <<redis, login, request, cache, now, history>>

\* An irrevocable block outlives later suspensions, and ends with the account.
NextBlock(seen, mode) ==
    IF mode = "delete" THEN "no"
    ELSE IF seen # None /\ seen.block = "barred" THEN "barred"
    ELSE IF mode = "bar" THEN "barred" ELSE "suspended"

\* History.  An irrevocable block ends with the account; whoever had read the
\* control state before the block was written does not know of it, and ends it too.
KnowsBar(w) == barred # 0 /\ writer[w].since >= barred
NoteWrite(w) ==
    /\ lost' = IF control = writer[w].seen THEN lost ELSE lost + 1
    /\ blockedAt' = IF ~Blocks(control') THEN -1 ELSE IF Blocks(control) THEN blockedAt ELSE now
NoteRevocation(w) ==
    /\ NoteWrite(w)
    /\ revokedAt' = Append(revokedAt, now)
    /\ barred' = IF writer[w].mode = "bar" /\ barred = 0 THEN Len(revokedAt')
                 ELSE IF writer[w].mode = "bar" \/ (writer[w].mode = "suspend" /\ KnowsBar(w))
                 THEN barred ELSE 0

RevokeKeepsVersion(w) ==  \* mutant: the minimum version is not raised
    /\ writer[w].pc = "write" /\ writer[w].mode # "readmit"
    /\ \E t \in writer[w].began..now :
          control' = [min |-> IF writer[w].seen = None THEN 2 ELSE writer[w].seen.min,
                      reauth |-> t, block |-> NextBlock(writer[w].seen, writer[w].mode)]
    /\ NoteRevocation(w)
    /\ writer' = [writer EXCEPT ![w] = [pc |-> "list"]]
    /\ UNCHANGED <<store, index, login, request, cache, now, writes>>

RevokeWrites(w) ==
    /\ writer[w].pc = "write" /\ writer[w].mode # "readmit"
    /\ \E t \in writer[w].began..now :
          control' = [min |-> (IF writer[w].seen = None THEN 1 ELSE writer[w].seen.min) + 1,
                      reauth |-> t, block |-> NextBlock(writer[w].seen, writer[w].mode)]
    /\ NoteRevocation(w)
    /\ writer' = [writer EXCEPT ![w] = [pc |-> "list"]]
    /\ UNCHANGED <<store, index, login, request, cache, now, writes>>

RevokeLists(w) ==
    /\ writer[w].pc = "list"
    /\ writer' = [writer EXCEPT ![w] = [pc |-> "deleting", ids |-> index.ids]]
    /\ UNCHANGED <<redis, login, request, cache, now, writes, history>>

\* The deletions run side by side; the operation ends with the last one.
RevokeDeletes(w) ==
    /\ writer[w].pc = "deleting"
    /\ IF writer[w].ids = {}
       THEN writer' = [writer EXCEPT ![w] = Idle] /\ UNCHANGED redis
       ELSE \E s \in writer[w].ids :
               Delete({s}) /\ writer' = [writer EXCEPT ![w].ids = @ \ {s}]
    /\ UNCHANGED <<login, request, cache, now, writes, history>>

ReadmitStartsOver(w) ==  \* mutant: readmission forgets the versions as well
    /\ writer[w].pc = "write" /\ writer[w].mode = "readmit"
    /\ control' = [writer[w].seen EXCEPT !.block = "no", !.min = 1]
    /\ NoteWrite(w) /\ barred' = (IF KnowsBar(w) THEN barred ELSE 0)
    /\ writer' = [writer EXCEPT ![w] = Idle]
    /\ UNCHANGED <<store, index, login, request, cache, now, writes, revokedAt>>

ReadmitWrites(w) ==
    /\ writer[w].pc = "write" /\ writer[w].mode = "readmit"
    /\ control' = [writer[w].seen EXCEPT !.block = "no"]
    /\ NoteWrite(w) /\ barred' = (IF KnowsBar(w) THEN barred ELSE 0)
    /\ writer' = [writer EXCEPT ![w] = Idle]
    /\ UNCHANGED <<store, index, login, request, cache, now, writes, revokedAt>>

\* The process dies, or Redis cannot be reached: what is left is not done.
AdminStops(w) ==
    /\ writer[w] # Idle
    /\ writer' = [writer EXCEPT ![w] = Idle]
    /\ UNCHANGED <<redis, login, request, cache, now, writes, history>>

Tick ==
    /\ now < MaxTime /\ now' = now + 1
    /\ UNCHANGED <<redis, login, request, cache, writer, writes, history>>
-----------------------------------------------------------------------------
LoginStep(s) == LoginReads(s) \/ LoginStores(s) \/ LoginIndexes(s)
RequestStep(r) ==
    \/ CacheHit(r) \/ CacheMiss(r) \/ ReadControl(r) \/ Judge(r) \/ DeleteRefused(r)
    \/ Reread(r) \/ UpdateReads(r) \/ UpdateWrites(r)
AdminStep(w) == RevokeWrites(w) \/ RevokeLists(w) \/ RevokeDeletes(w) \/ ReadmitWrites(w)

Next ==
    \/ \E s \in SessionIds : LoginStarts(s) \/ LoginStep(s) \/ Logout(s)
    \/ \E r \in Requests : RequestStep(r) \/ GrantFails(r)
    \/ \E r \in Requests, p \in Processes, s \in SessionIds : ReadSession(r, p, s)
    \/ \E w \in Writers : AdminStep(w) \/ AdminStops(w) \/ \E m \in Modes : AdminReads(w, m)
    \/ IndexExpires \/ Tick

Spec == Init /\ [][Next]_vars

\* The server finishes what it has begun.  The user, like any browser, logs in
\* when there is no session and comes back with the one there is.
Fairness ==
    /\ \A s \in SessionIds :
          /\ WF_vars(LoginStep(s))
          /\ WF_vars((\A t \in SessionIds : store[t] = None) /\ LoginStarts(s))
    /\ \A r \in Requests :
          /\ WF_vars(RequestStep(r))
          /\ WF_vars(\E p \in Processes, s \in SessionIds : store[s] # None /\ ReadSession(r, p, s))

FairSpec == Spec /\ Fairness
-----------------------------------------------------------------------------
Stages == {"check", "ask", "judge", "delete", "reread", "grant", "write"}
Pending == [pc : Stages, process : Processes, session : SessionIds, started : 0..MaxTime,
            rec : Record, at : 0..MaxTime, control : Control]
Admitted == [pc : {"in"}, started : 0..MaxTime, issued : 0..MaxTime, epoch : Nat, era : Nat]

TypeOK ==
    /\ store \in [SessionIds -> Record \cup {None}]
    /\ index \in [ids : SUBSET SessionIds, until : 0..MaxTime + SessionTTL + Buffer]
    /\ control \in Control
    /\ cache \in [Processes -> 0..MaxTime + TTL]
    /\ now \in 0..MaxTime /\ writes \in 0..MaxWrites
    /\ revokedAt \in Seq(0..MaxTime)
    /\ blockedAt \in -1..MaxTime /\ barred \in 0..Len(revokedAt) /\ lost \in Nat
    /\ login \in [SessionIds -> {Idle} \cup [pc : {"stamped"}, issued : 0..MaxTime]
                               \cup [pc : {"read", "stored"}, rec : Record]]
    /\ request \in [Requests -> {Idle} \cup Pending \cup Admitted]
    /\ writer \in [Writers -> {Idle, [pc |-> "list"]}
                      \cup [pc : {"deleting"}, ids : SUBSET SessionIds]
                      \cup [pc : {"write"}, mode : Modes, seen : Control, began : 0..MaxTime, since : Nat]]

\* Once the control state blocks a user, no request that begins TTL later or
\* more is let in: whichever process it meets, whatever was cached, created or
\* refreshed meanwhile (auth-server/session.ts:28-76, callback.ts:153-159).
BlockedStaysOut ==
    \A r \in Requests : request[r].pc = "in" /\ blockedAt # -1 =>
        request[r].started < blockedAt + TTL

\* A session whose login did not know of a revocation does not outlive it by
\* TTL: not when it was stored, or written back by a refresh, after the
\* revocation had deleted what it found (session-revocation.ts:65-98,
\* redis-session.ts:379-416).  Of two administrative operations that overlap one
\* may be lost: that excuses the sessions there were by then, and no later one.
RevokedStaysOut ==
    \A r \in Requests :
        request[r].pc = "in" /\ request[r].era = lost /\ request[r].epoch < Len(revokedAt) =>
            request[r].started < revokedAt[request[r].epoch + 1] + TTL

\* An irrevocable block stands whatever is ordered later, the deletion of the
\* account excepted: only an operation that had begun before the block was
\* written can undo it, whatever was lost before
\* (session-revocation.ts:75-82, :100-104).
BarredStaysBarred == barred # 0 => Blocks(control) /\ control.block = "barred"

\* Refreshing does not prolong a session beyond its absolute lifetime
\* (shared.ts:66-80, session-refresh.ts:58-69).
LifetimeIsAbsolute ==
    \A r \in Requests : request[r].pc = "in" =>
        request[r].started <= request[r].issued + SessionTTL

\* A user who is not blocked for good gets in again and again: sessions that a
\* revocation made worthless are cleared away and a new login makes a good one.
ReadmittedGetsIn ==
    <>[]~Blocks(control) /\ <>[][\A s \in SessionIds : ~Logout(s)]_vars
        => []<>(\E r \in Requests : request[r].pc = "in")

=============================================================================
