----------------------------- MODULE LegalConsent -----------------------------
(***************************************************************************)
(* Legal texts, the consents of the users and the check in front of every   *)
(* protected route (legal-text-repository.ts, the two consent operations of *)
(* governance-workflow-executor.ts and legal-text-enforcement.ts).          *)
(*                                                                         *)
(* A consent looks its version up and is then inserted; the check asks the  *)
(* database, waits for the answer, and remembers in its process that        *)
(* nothing was pending, counted from the time the answer is handled.        *)
(***************************************************************************)
EXTENDS Integers, FiniteSets

CONSTANTS
    Texts,      \* versions of legal texts
    Users,
    Processes,  \* server processes, each with a cache of its own
    Checks,     \* requests under way at a time
    TTL,        \* ACCEPTED_LEGAL_TEXT_CACHE_TTL_MS, in ticks
    Latency,    \* ticks an answer of the database is under way at most
    MaxTime,    \* bound on the clock
    MaxChanges  \* bound on edits, withdrawals and failed queries

ASSUME TimesAssumption ==
    TTL \in Nat \ {0} /\ Latency \in Nat /\ MaxTime \in Nat /\ MaxChanges \in Nat

VARIABLES
    text,       \* status of a version, and the users its target roles and groups reach
    consents,   \* pairs <<user, text>> with a row of legal_text_acceptances
    live,       \* those with a row that is not revoked
    looking,    \* consents and withdrawals between lookup and write
    check,      \* a request at the compliance check
    cache,      \* acceptedLegalTextCache: expiry of an entry, 0 if there is none
    answer,     \* what a user was answered last
    now, changes,
    lastCompliant  \* history: when a user last had nothing to accept

data == <<text, consents, live>>
vars == <<data, looking, check, cache, answer, now, changes, lastCompliant>>

Statuses == {"draft", "valid", "archived"}
Idle == [pc |-> "idle"]

\* checkPendingLegalAcceptances counts every active version without a consent,
\* whomever it is addressed to ...
PendingOrArchived(u) ==  \* mutant: archived versions count as well
    {t \in Texts : text[t].status \in {"valid", "archived"} /\ <<u, t>> \notin live}
Pending(u) == {t \in Texts : text[t].status = "valid" /\ <<u, t>> \notin live}
\* ... loadPendingLegalTexts offers those that are addressed to the user.
Offered(u) == {t \in Pending(u) : u \in text[t].reach}

Init ==
    /\ text = [t \in Texts |-> [status |-> "none", reach |-> {}]]
    /\ consents = {} /\ live = {} /\ looking = {}
    /\ check = [c \in Checks |-> Idle]
    /\ cache = [p \in Processes |-> [u \in Users |-> 0]]
    /\ answer = [u \in Users |-> "none"]
    /\ now = 0 /\ changes = 0
    /\ lastCompliant = [u \in Users |-> 0]

Change == changes < MaxChanges /\ changes' = changes + 1

-----------------------------------------------------------------------------
(***************************************************************************)
(* Administration of the versions.  An update writes back what it read      *)
(* before and was not asked to change: whatever the status was meanwhile.   *)
(* As it writes the status with the target groups, the model keeps whom a   *)
(* version reaches only while it is valid, when alone that is looked at.    *)
(***************************************************************************)
Write(t) ==
    /\ \E s \in Statuses, r \in SUBSET Users :
          /\ s # "valid" => r = {}
          /\ text' = [text EXCEPT ![t] = [status |-> s, reach |-> r]]
    /\ UNCHANGED <<consents, live, looking, check, cache, answer, now>>

CreateLegalText(t) == text[t].status = "none" /\ Change /\ Write(t)
UpdateLegalText(t) == text[t].status \in Statuses /\ Change /\ Write(t)

DeleteLegalTextUnlessLive(t) ==  \* mutant: revoked consents do not count
    /\ text[t].status \in Statuses /\ Change
    /\ \A u \in Users : <<u, t>> \notin live
    /\ text' = [text EXCEPT ![t] = [status |-> "deleted", reach |-> {}]]
    /\ UNCHANGED <<consents, live, looking, check, cache, answer, now>>

DeleteLegalText(t) ==
    /\ text[t].status \in Statuses /\ Change
    /\ \A u \in Users : <<u, t>> \notin consents
    /\ text' = [text EXCEPT ![t] = [status |-> "deleted", reach |-> {}]]
    /\ UNCHANGED <<consents, live, looking, check, cache, answer, now>>

-----------------------------------------------------------------------------
(***************************************************************************)
(* acceptLegalText: the version must be active when it is looked up; it may *)
(* be archived, or deleted, before the row is written.  A consent may be    *)
(* repeated; one withdrawal ends every row of it.                          *)
(***************************************************************************)
LookUp(u, t, op) ==
    /\ text[t].status = "valid"
    /\ looking' = looking \cup {<<op, u, t>>}
    /\ UNCHANGED <<data, check, cache, answer, now>>

LookUpToAccept(u, t) == LookUp(u, t, "accept") /\ UNCHANGED changes
LookUpToRevoke(u, t) == LookUp(u, t, "revoke") /\ Change

Accept(u, t) ==
    /\ <<"accept", u, t>> \in looking
    /\ IF text[t].status \in Statuses
       THEN consents' = consents \cup {<<u, t>>} /\ live' = live \cup {<<u, t>>}
       ELSE UNCHANGED <<consents, live>>  \* the foreign key refuses the row
    /\ looking' = looking \ {<<"accept", u, t>>}
    /\ UNCHANGED <<text, check, cache, answer, now, changes>>

Revoke(u, t) ==
    /\ <<"revoke", u, t>> \in looking
    /\ live' = live \ {<<u, t>>}
    /\ looking' = looking \ {<<"revoke", u, t>>}
    /\ UNCHANGED <<text, consents, check, cache, answer, now, changes>>

-----------------------------------------------------------------------------
(***************************************************************************)
(* withLegalTextCompliance: a fresh entry of the process answers, otherwise *)
(* the database does.                                                      *)
(***************************************************************************)
Fresh(p, u) == cache[p][u] > now

Answer(c, u, a) ==
    /\ answer' = [answer EXCEPT ![u] = a]
    /\ check' = [check EXCEPT ![c] =
                    IF a = "let in" THEN [pc |-> "passed", user |-> u, at |-> now] ELSE Idle]

CheckCachedSliding(c, p, u) ==  \* mutant: every hit prolongs the entry
    /\ check[c].pc # "asked" /\ Fresh(p, u)
    /\ Answer(c, u, "let in")
    /\ cache' = [cache EXCEPT ![p][u] = now + TTL]
    /\ UNCHANGED <<data, looking, now, changes>>

CheckCached(c, p, u) ==
    /\ check[c].pc # "asked" /\ Fresh(p, u)
    /\ Answer(c, u, "let in")
    /\ UNCHANGED <<data, looking, cache, now, changes>>

\* An expired entry is removed; the database counts what is pending.
CheckAsks(c, p, u) ==
    /\ check[c].pc # "asked" /\ ~Fresh(p, u)
    /\ cache' = [cache EXCEPT ![p][u] = 0]
    /\ check' = [check EXCEPT ![c] =
                    [pc |-> "asked", process |-> p, user |-> u, at |-> now,
                     pending |-> Pending(u) # {}]]
    /\ UNCHANGED <<data, looking, answer, now, changes>>

CheckAnsweredTwice(c) ==  \* mutant: the lifetime is added once more
    /\ check[c].pc = "asked" /\ ~check[c].pending
    /\ Answer(c, check[c].user, "let in")
    /\ cache' = [cache EXCEPT ![check[c].process][check[c].user] = now + TTL + TTL]
    /\ UNCHANGED <<data, looking, now, changes>>

CheckAnswered(c) ==
    /\ check[c].pc = "asked"
    /\ LET k == check[c] IN
       IF k.pending
       THEN Answer(c, k.user, "blocked") /\ UNCHANGED cache
       ELSE /\ Answer(c, k.user, "let in")
            /\ cache' = [cache EXCEPT ![k.process][k.user] = now + TTL]
    /\ UNCHANGED <<data, looking, now, changes>>

CheckFails(c) ==
    /\ check[c].pc = "asked" /\ Change
    /\ Answer(c, check[c].user, "error")
    /\ UNCHANGED <<data, looking, cache, now>>

\* A process restarts with an empty cache.
Restart(p) ==
    /\ Change
    /\ cache' = [cache EXCEPT ![p] = [u \in Users |-> 0]]
    /\ check' = [c \in Checks |->
                    IF check[c].pc = "asked" /\ check[c].process = p THEN Idle ELSE check[c]]
    /\ UNCHANGED <<data, looking, answer, now>>

Tick ==
    /\ now < MaxTime /\ now' = now + 1
    /\ \A c \in Checks : check[c].pc = "asked" => now < check[c].at + Latency
    /\ UNCHANGED <<data, looking, check, cache, answer, changes>>

-----------------------------------------------------------------------------
Step ==
    \/ \E t \in Texts : CreateLegalText(t) \/ UpdateLegalText(t) \/ DeleteLegalText(t)
    \/ \E u \in Users, t \in Texts :
          LookUpToAccept(u, t) \/ LookUpToRevoke(u, t) \/ Accept(u, t) \/ Revoke(u, t)
    \/ \E c \in Checks, p \in Processes, u \in Users : CheckCached(c, p, u) \/ CheckAsks(c, p, u)
    \/ \E c \in Checks : CheckAnswered(c) \/ CheckFails(c)
    \/ \E p \in Processes : Restart(p)
    \/ Tick

Observe ==
    lastCompliant' = [u \in Users |-> IF Pending(u)' = {} THEN now' ELSE lastCompliant[u]]

Next == Step /\ Observe
Spec == Init /\ [][Next]_vars

\* The server answers and finishes what it has begun.  A user who is blocked
\* accepts what is offered and, like any browser, comes back.
Fairness ==
    /\ \A c \in Checks : WF_vars(CheckAnswered(c) /\ Observe)
    /\ \A u \in Users : WF_vars(\E c \in Checks, p \in Processes :
                                (CheckAsks(c, p, u) \/ CheckCached(c, p, u)) /\ Observe)
    /\ \A u \in Users, t \in Texts :
          /\ WF_vars(Accept(u, t) /\ Observe)
          /\ WF_vars(answer[u] = "blocked" /\ t \in Offered(u) /\ LookUpToAccept(u, t) /\ Observe)

FairSpec == Spec /\ Fairness

-----------------------------------------------------------------------------
TypeOK ==
    /\ text \in [Texts -> [status : Statuses \cup {"none", "deleted"}, reach : SUBSET Users]]
    /\ consents \subseteq Users \X Texts /\ live \subseteq consents
    /\ looking \subseteq {"accept", "revoke"} \X Users \X Texts
    /\ check \in [Checks -> {Idle} \cup [pc : {"passed"}, user : Users, at : 0..MaxTime]
                      \cup [pc : {"asked"}, process : Processes, user : Users,
                            at : 0..MaxTime, pending : BOOLEAN]]
    /\ cache \in [Processes -> [Users -> 0..MaxTime + TTL]]
    /\ answer \in [Users -> {"none", "let in", "blocked", "error"}]
    /\ now \in 0..MaxTime /\ changes \in 0..MaxChanges
    /\ lastCompliant \in [Users -> 0..MaxTime]

\* Whoever is let in had nothing left to accept less than TTL + Latency ago,
\* whatever was published or withdrawn since and in whichever process
\* (legal-text-enforcement.ts:8, :39-100).
PassedWasCompliant ==
    \A c \in Checks : check[c].pc = "passed" =>
        check[c].at < lastCompliant[check[c].user] + TTL + Latency

\* A consent never loses its text: who has accepted a version can be shown it
\* (legal-text-repository.ts:492-513).
ConsentKeepsText ==
    \A u \in Users, t \in Texts : <<u, t>> \in consents => text[t].status \in Statuses

\* A user whom every valid text is addressed to can always get in: what blocks
\* is what is offered, and accepting it ends the blockade.
ReachedByAll(u) == \A t \in Texts : text[t].status = "valid" => u \in text[t].reach
BlockedGetIn ==
    \A u \in Users : <>[]ReachedByAll(u) => []<>(answer[u] = "let in")

=============================================================================
