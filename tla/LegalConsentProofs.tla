-------------------------- MODULE LegalConsentProofs --------------------------
(***************************************************************************)
(* Proofs about LegalConsent, for any number of texts, users, processes and *)
(* requests and any lifetime of a cache entry.                             *)
(***************************************************************************)
EXTENDS LegalConsent, TLAPS

\* An entry of the cache, and an answer that will make one, are not younger
\* than the last moment of compliance allows.
ClockOK == \A u \in Users : lastCompliant[u] <= now
CacheBounded ==
    \A p \in Processes, u \in Users : cache[p][u] <= lastCompliant[u] + TTL + Latency
AnswersBounded ==
    \A c \in Checks : check[c].pc = "asked" =>
        /\ now <= check[c].at + Latency
        /\ ~check[c].pending => check[c].at <= lastCompliant[check[c].user]

Inv == TypeOK /\ ClockOK /\ CacheBounded /\ AnswersBounded /\ PassedWasCompliant

Requests ==
    {Idle} \cup [pc : {"passed"}, user : Users, at : 0..MaxTime]
           \cup [pc : {"asked"}, process : Processes, user : Users,
                 at : 0..MaxTime, pending : BOOLEAN]

-----------------------------------------------------------------------------
LEMMA InitInv == Init => Inv
  <1> SUFFICES ASSUME Init PROVE Inv OBVIOUS
  <1>1. TypeOK
    <2>1. text \in [Texts -> [status : Statuses \cup {"none", "deleted"}, reach : SUBSET Users]]
      BY DEF Init, Statuses
    <2>2. consents \subseteq Users \X Texts /\ live \subseteq consents
          /\ looking \subseteq {"accept", "revoke"} \X Users \X Texts
      BY DEF Init
    <2>3. check \in [Checks -> Requests] BY DEF Init, Requests, Idle
    <2>4. cache \in [Processes -> [Users -> 0..MaxTime + TTL]]
      BY TimesAssumption DEF Init
    <2>5. answer \in [Users -> {"none", "let in", "blocked", "error"}] BY DEF Init
    <2>6. now \in 0..MaxTime /\ changes \in 0..MaxChanges
          /\ lastCompliant \in [Users -> 0..MaxTime]
      BY TimesAssumption DEF Init
    <2> QED BY <2>1, <2>2, <2>3, <2>4, <2>5, <2>6 DEF TypeOK, Requests
  <1>2. ClockOK BY DEF Init, ClockOK
  <1>3. CacheBounded BY TimesAssumption DEF Init, CacheBounded
  <1>4. AnswersBounded BY DEF Init, AnswersBounded, Idle
  <1>5. PassedWasCompliant BY DEF Init, PassedWasCompliant, Idle
  <1> QED BY <1>1, <1>2, <1>3, <1>4, <1>5 DEF Inv

-----------------------------------------------------------------------------
(***************************************************************************)
(* The clock and the history.                                              *)
(***************************************************************************)
LEMMA ObserveMonotone ==
  ASSUME TypeOK, ClockOK, now' \in Nat, now <= now', Observe
  PROVE  /\ lastCompliant' \in [Users -> Nat]
         /\ \A u \in Users : lastCompliant[u] <= lastCompliant'[u] /\ lastCompliant'[u] <= now'
         /\ \A u \in Users : Pending(u)' = {} => lastCompliant'[u] = now'
  <1>0. lastCompliant \in [Users -> 0..MaxTime] /\ now \in 0..MaxTime BY DEF TypeOK
  <1>1. lastCompliant \in [Users -> Nat] /\ now \in Nat BY <1>0, TimesAssumption
  <1>2. ASSUME NEW u \in Users
        PROVE  lastCompliant'[u] = IF Pending(u)' = {} THEN now' ELSE lastCompliant[u]
    BY DEF Observe
  <1>3. lastCompliant' \in [Users -> Nat]
    <2>1. DOMAIN lastCompliant' = Users /\ lastCompliant' = [u \in Users |-> lastCompliant'[u]]
      BY DEF Observe
    <2> QED BY <1>1, <1>2, <2>1
  <1> QED BY <1>1, <1>2, <1>3 DEF ClockOK

\* Every step keeps the clock or moves it on, by one.
LEMMA ClockMoves ==
  ASSUME TypeOK, Next
  PROVE  now' \in 0..MaxTime /\ now <= now' /\ (now' # now => Tick)
  <1>1. now \in 0..MaxTime BY DEF TypeOK
  <1>2. CASE Tick BY <1>1, <1>2, TimesAssumption DEF Tick
  <1>3. CASE now' = now BY <1>1, <1>3, TimesAssumption
  <1>4. Tick \/ now' = now
    BY DEF Next, Step, CreateLegalText, UpdateLegalText, DeleteLegalText, Write, LookUpToAccept,
           LookUpToRevoke, LookUp, Accept, Revoke, CheckCached, CheckAsks, CheckAnswered,
           CheckFails, Restart
  <1> QED BY <1>2, <1>3, <1>4

-----------------------------------------------------------------------------
(***************************************************************************)
(* Types, one part of the state at a time.                                 *)
(***************************************************************************)
LEMMA AskedShape ==
  ASSUME check \in [Checks -> Requests], NEW c \in Checks, check[c].pc = "asked"
  PROVE  /\ check[c].user \in Users /\ check[c].process \in Processes
         /\ check[c].at \in 0..MaxTime /\ check[c].pending \in BOOLEAN
  <1>1. check[c] # Idle BY DEF Idle
  <1>2. check[c] \notin [pc : {"passed"}, user : Users, at : 0..MaxTime] OBVIOUS
  <1>3. check[c] \in [pc : {"asked"}, process : Processes, user : Users,
                     at : 0..MaxTime, pending : BOOLEAN]
    BY <1>1, <1>2 DEF Requests
  <1> QED BY <1>3

LEMMA ChecksTyped ==
  ASSUME TypeOK, Next
  PROVE  check' \in [Checks -> Requests]
  <1> USE DEF Requests
  <1>1. check \in [Checks -> Requests] /\ now \in 0..MaxTime BY DEF TypeOK
  <1>2. ASSUME NEW c \in Checks, NEW u \in Users, NEW a, Answer(c, u, a)
        PROVE  check' \in [Checks -> Requests]
    BY <1>1, <1>2 DEF Answer
  <1>3. ASSUME NEW c \in Checks, NEW p \in Processes, NEW u \in Users, CheckAsks(c, p, u)
        PROVE  check' \in [Checks -> Requests]
    BY <1>1, <1>3 DEF CheckAsks
  <1>4. ASSUME NEW c \in Checks, CheckAnswered(c) \/ CheckFails(c)
        PROVE  check' \in [Checks -> Requests]
    <2>1. check[c].user \in Users BY <1>1, <1>4, AskedShape DEF CheckAnswered, CheckFails
    <2> QED BY <1>2, <1>4, <2>1 DEF CheckAnswered, CheckFails
  <1>5. ASSUME NEW p \in Processes, Restart(p) PROVE check' \in [Checks -> Requests]
    BY <1>1, <1>5 DEF Restart
  <1>6. CASE UNCHANGED check BY <1>1, <1>6
  <1> QED BY <1>2, <1>3, <1>4, <1>5, <1>6
      DEF Next, Step, CreateLegalText, UpdateLegalText, DeleteLegalText, Write, LookUpToAccept,
          LookUpToRevoke, LookUp, Accept, Revoke, CheckCached, Tick

LEMMA CacheTyped ==
  ASSUME TypeOK, Next
  PROVE  cache' \in [Processes -> [Users -> 0..MaxTime + TTL]]
  <1>1. cache \in [Processes -> [Users -> 0..MaxTime + TTL]] /\ now \in 0..MaxTime
        /\ check \in [Checks -> Requests]
    BY DEF TypeOK, Requests
  <1>2. ASSUME NEW c \in Checks, NEW p \in Processes, NEW u \in Users, CheckAsks(c, p, u)
        PROVE  cache' \in [Processes -> [Users -> 0..MaxTime + TTL]]
    BY <1>1, <1>2, TimesAssumption DEF CheckAsks
  <1>3. ASSUME NEW c \in Checks, CheckAnswered(c)
        PROVE  cache' \in [Processes -> [Users -> 0..MaxTime + TTL]]
    <2>1. check[c].user \in Users /\ check[c].process \in Processes
      BY <1>1, <1>3, AskedShape DEF CheckAnswered
    <2>2. now + TTL \in 0..MaxTime + TTL BY <1>1, TimesAssumption
    <2> DEFINE p == check[c].process
               u == check[c].user
    <2>3. cache' = cache \/ cache' = [cache EXCEPT ![p][u] = now + TTL]
      BY <1>3 DEF CheckAnswered
    <2>4. p \in Processes /\ u \in Users BY <2>1
    <2> HIDE DEF p, u
    <2> QED BY <1>1, <2>2, <2>3, <2>4
  <1>4. ASSUME NEW p \in Processes, Restart(p)
        PROVE  cache' \in [Processes -> [Users -> 0..MaxTime + TTL]]
    BY <1>1, <1>4, TimesAssumption DEF Restart
  <1>5. CASE UNCHANGED cache BY <1>1, <1>5
  <1> QED BY <1>2, <1>3, <1>4, <1>5
      DEF Next, Step, CreateLegalText, UpdateLegalText, DeleteLegalText, Write, LookUpToAccept,
          LookUpToRevoke, LookUp, Accept, Revoke, CheckCached, CheckFails, Tick

LEMMA DataTyped ==
  ASSUME TypeOK, Next
  PROVE  /\ text' \in [Texts -> [status : Statuses \cup {"none", "deleted"}, reach : SUBSET Users]]
         /\ consents' \subseteq Users \X Texts /\ live' \subseteq consents'
         /\ looking' \subseteq {"accept", "revoke"} \X Users \X Texts
  <1> DEFINE Versions == [status : Statuses \cup {"none", "deleted"}, reach : SUBSET Users]
             Lookups == {"accept", "revoke"} \X Users \X Texts
  <1>0. /\ text \in [Texts -> Versions] /\ looking \subseteq Lookups
        /\ consents \subseteq Users \X Texts /\ live \subseteq consents
    BY DEF TypeOK
  <1>1. ASSUME NEW t \in Texts, CreateLegalText(t) \/ UpdateLegalText(t)
        PROVE  text' \in [Texts -> Versions] /\ UNCHANGED <<consents, live, looking>>
    <2>1. PICK s \in Statuses, r \in SUBSET Users :
             text' = [text EXCEPT ![t] = [status |-> s, reach |-> r]]
      BY <1>1 DEF CreateLegalText, UpdateLegalText, Write
    <2>2. [status |-> s, reach |-> r] \in Versions OBVIOUS
    <2>3. UNCHANGED <<consents, live, looking>>
      BY <1>1 DEF CreateLegalText, UpdateLegalText, Write
    <2> HIDE DEF Versions
    <2> QED BY <1>0, <2>1, <2>2, <2>3
  <1>2. ASSUME NEW t \in Texts, DeleteLegalText(t)
        PROVE  text' \in [Texts -> Versions] /\ UNCHANGED <<consents, live, looking>>
    <2>1. text' = [text EXCEPT ![t] = [status |-> "deleted", reach |-> {}]]
      BY <1>2 DEF DeleteLegalText
    <2>2. [status |-> "deleted", reach |-> {}] \in Versions OBVIOUS
    <2>3. UNCHANGED <<consents, live, looking>> BY <1>2 DEF DeleteLegalText
    <2> HIDE DEF Versions
    <2> QED BY <1>0, <2>1, <2>2, <2>3
  <1>3. ASSUME NEW u \in Users, NEW t \in Texts, LookUpToAccept(u, t) \/ LookUpToRevoke(u, t)
        PROVE  looking' \subseteq Lookups /\ UNCHANGED <<text, consents, live>>
    <2>1. PICK op \in {"accept", "revoke"} : looking' = looking \cup {<<op, u, t>>}
      BY <1>3 DEF LookUpToAccept, LookUpToRevoke, LookUp
    <2>2. UNCHANGED <<text, consents, live>>
      BY <1>3 DEF LookUpToAccept, LookUpToRevoke, LookUp, data
    <2> QED BY <1>0, <2>1, <2>2
  <1>4. ASSUME NEW u \in Users, NEW t \in Texts, Accept(u, t) \/ Revoke(u, t)
        PROVE  /\ looking' \subseteq Lookups /\ UNCHANGED text
               /\ consents' \subseteq Users \X Texts /\ live' \subseteq consents'
    <2>1. looking' \subseteq looking /\ UNCHANGED text BY <1>4 DEF Accept, Revoke
    <2>2. CASE Accept(u, t)
      <3>1. <<u, t>> \in Users \X Texts OBVIOUS
      <3> QED BY <1>0, <2>1, <2>2, <3>1 DEF Accept
    <2>3. CASE Revoke(u, t) BY <1>0, <2>1, <2>3 DEF Revoke
    <2> QED BY <1>4, <2>2, <2>3
  <1>5. CASE UNCHANGED <<text, consents, live, looking>> BY <1>0, <1>5
  <1> HIDE DEF Versions, Lookups
  <1>6. /\ text' \in [Texts -> Versions] /\ looking' \subseteq Lookups
        /\ consents' \subseteq Users \X Texts /\ live' \subseteq consents'
   BY <1>0, <1>1, <1>2, <1>3, <1>4, <1>5
      DEF Next, Step, CheckCached, CheckAsks, CheckAnswered, CheckFails, Restart, Tick, data
  <1> QED BY <1>6 DEF Versions, Lookups

LEMMA TypeStep == TypeOK /\ ClockOK /\ [Next]_vars => TypeOK'
  <1> SUFFICES ASSUME TypeOK, ClockOK, [Next]_vars PROVE TypeOK' OBVIOUS
  <1>1. CASE UNCHANGED vars BY <1>1 DEF vars, data, TypeOK
  <1>2. CASE Next
    <2>1. now' \in 0..MaxTime /\ now <= now' BY <1>2, ClockMoves
    <2>2. lastCompliant' \in [Users -> 0..MaxTime]
      <3>1. lastCompliant' \in [Users -> Nat] /\ \A u \in Users : lastCompliant'[u] <= now'
        BY <1>2, <2>1, ObserveMonotone, TimesAssumption DEF Next
      <3> QED BY <2>1, <3>1, TimesAssumption
    <2>3. changes' \in 0..MaxChanges
      <3>1. changes \in 0..MaxChanges BY DEF TypeOK
      <3>2. CASE Change BY <3>1, <3>2, TimesAssumption DEF Change
      <3>3. CASE UNCHANGED changes BY <3>1, <3>3
      <3> QED BY <1>2, <3>2, <3>3
      DEF Next, Step, CreateLegalText, UpdateLegalText, DeleteLegalText, Write,
          LookUpToAccept, LookUpToRevoke, LookUp, Accept, Revoke, CheckCached, CheckAsks,
          CheckAnswered, CheckFails, Restart, Tick
    <2>4. answer' \in [Users -> {"none", "let in", "blocked", "error"}]
      BY <1>2
      DEF TypeOK, Next, Step, CreateLegalText, UpdateLegalText, DeleteLegalText, Write,
          LookUpToAccept, LookUpToRevoke, LookUp, Accept, Revoke, CheckCached, CheckAsks,
          CheckAnswered, CheckFails, Restart, Tick, Answer
    <2> QED BY <1>2, <2>1, <2>2, <2>3, <2>4, ChecksTyped, CacheTyped, DataTyped DEF TypeOK, Requests
  <1> QED BY <1>1, <1>2

-----------------------------------------------------------------------------
(***************************************************************************)
(* The bounds.                                                             *)
(***************************************************************************)
LEMMA BoundsStep == Inv /\ Next => CacheBounded' /\ AnswersBounded' /\ PassedWasCompliant'
  <1> SUFFICES ASSUME Inv, Next PROVE CacheBounded' /\ AnswersBounded' /\ PassedWasCompliant'
    OBVIOUS
  <1> USE TimesAssumption
  <1>1. /\ check \in [Checks -> Requests] /\ now \in Nat
        /\ cache \in [Processes -> [Users -> Nat]] /\ lastCompliant \in [Users -> Nat]
    <2>1. now \in 0..MaxTime /\ lastCompliant \in [Users -> 0..MaxTime]
          /\ cache \in [Processes -> [Users -> 0..MaxTime + TTL]]
      BY DEF Inv, TypeOK
    <2>2. 0..MaxTime \subseteq Nat /\ 0..MaxTime + TTL \subseteq Nat OBVIOUS
    <2>3. check \in [Checks -> Requests] BY DEF Inv, TypeOK, Requests
    <2> QED BY <2>1, <2>2, <2>3
  <1>2. /\ now' \in Nat /\ now <= now' /\ (now' # now => Tick)
        /\ lastCompliant' \in [Users -> Nat]
        /\ \A u \in Users : lastCompliant[u] <= lastCompliant'[u] /\ lastCompliant'[u] <= now'
    <2>1. now' \in 0..MaxTime /\ now <= now' /\ (now' # now => Tick) BY ClockMoves DEF Inv
    <2> QED BY <2>1, ObserveMonotone DEF Inv, Next
  <1>3. \A c \in Checks : check[c].pc = "asked" =>
           /\ check[c].user \in Users /\ check[c].process \in Processes /\ check[c].at \in Nat
    BY <1>1, AskedShape
  <1>4. \A c \in Checks : check[c].pc = "passed" =>
           check[c].user \in Users /\ check[c].at \in Nat
    BY <1>1 DEF Requests, Idle
  \* what keeps the old entries and answers within their bounds
  <1>5. \A p \in Processes, u \in Users : cache[p][u] <= lastCompliant'[u] + TTL + Latency
    BY <1>1, <1>2 DEF Inv, CacheBounded
  <1>6. ASSUME NEW c \in Checks, check'[c] = check[c]
        PROVE  /\ check'[c].pc = "passed" =>
                     check'[c].at < lastCompliant'[check'[c].user] + TTL + Latency
               /\ check'[c].pc = "asked" =>
                     /\ now' <= check'[c].at + Latency
                     /\ ~check'[c].pending => check'[c].at <= lastCompliant'[check'[c].user]
    <2>1. CASE check[c].pc = "passed"
      BY <1>1, <1>2, <1>4, <1>6, <2>1 DEF Inv, PassedWasCompliant
    <2>2. CASE check[c].pc = "asked"
      <3>1. now' <= check[c].at + Latency
        BY <1>1, <1>2, <1>3, <2>2 DEF Inv, AnswersBounded, Tick
      <3> QED BY <1>1, <1>2, <1>3, <1>6, <2>2, <3>1 DEF Inv, AnswersBounded
    <2> QED BY <1>6, <2>1, <2>2
  \* a request that is let in now
  <1>7. ASSUME NEW c \in Checks, NEW u \in Users, Answer(c, u, "let in"), now' = now,
               now < lastCompliant[u] + TTL + Latency
        PROVE  AnswersBounded' /\ PassedWasCompliant'
    <2>1. check'[c] = [pc |-> "passed", user |-> u, at |-> now]
          /\ \A d \in Checks \ {c} : check'[d] = check[d]
      BY <1>1, <1>7 DEF Answer
    <2>2. now < lastCompliant'[u] + TTL + Latency
      <3>1. lastCompliant[u] \in Nat /\ lastCompliant'[u] \in Nat
            /\ lastCompliant[u] <= lastCompliant'[u]
        BY <1>1, <1>2
      <3>2. now < lastCompliant[u] + TTL + Latency BY <1>7
      <3>3. now \in Nat BY <1>1
      <3> QED BY <3>1, <3>2, <3>3
    <2> QED BY <1>6, <2>1, <2>2 DEF AnswersBounded, PassedWasCompliant
  <1>8. ASSUME NEW c \in Checks, NEW u \in Users, NEW a, a # "let in", Answer(c, u, a)
        PROVE  AnswersBounded' /\ PassedWasCompliant'
    <2>1. check'[c] = Idle /\ \A d \in Checks \ {c} : check'[d] = check[d]
      BY <1>1, <1>8 DEF Answer
    <2> QED BY <1>6, <2>1 DEF AnswersBounded, PassedWasCompliant, Idle
  <1>9. ASSUME NEW c \in Checks, NEW p \in Processes, NEW u \in Users, CheckCached(c, p, u)
        PROVE  CacheBounded' /\ AnswersBounded' /\ PassedWasCompliant'
    <2>1. now < lastCompliant[u] + TTL + Latency
      <3>1. now < cache[p][u] /\ cache[p][u] <= lastCompliant[u] + TTL + Latency
        BY <1>1, <1>9 DEF CheckCached, Fresh, Inv, CacheBounded
      <3>2. cache[p][u] \in Nat /\ lastCompliant[u] \in Nat BY <1>1
      <3> QED BY <1>1, <3>1, <3>2
    <2> QED BY <1>5, <1>7, <1>9, <2>1 DEF CheckCached, CacheBounded
  <1>10. ASSUME NEW c \in Checks, NEW p \in Processes, NEW u \in Users, CheckAsks(c, p, u)
         PROVE  CacheBounded' /\ AnswersBounded' /\ PassedWasCompliant'
    <2>1. CacheBounded' BY <1>1, <1>2, <1>5, <1>10 DEF CheckAsks, CacheBounded
    <2>2. /\ check'[c] = [pc |-> "asked", process |-> p, user |-> u, at |-> now,
                          pending |-> Pending(u) # {}]
          /\ \A d \in Checks \ {c} : check'[d] = check[d]
      BY <1>1, <1>10 DEF CheckAsks
    <2>3. Pending(u)' = Pending(u) BY <1>10 DEF CheckAsks, Pending, data
    <2>4. Pending(u) = {} => lastCompliant'[u] = now'
      BY <1>2, <2>3, ObserveMonotone DEF Inv, Next
    <2>5. now' = now BY <1>10 DEF CheckAsks
    <2>6. /\ check'[c].pc = "asked" /\ check'[c].at = now /\ check'[c].user = u
          /\ check'[c].pending = (Pending(u) # {})
      BY <2>2
    <2>7. now' <= check'[c].at + Latency BY <1>1, <2>5, <2>6
    <2>8. ~check'[c].pending => check'[c].at <= lastCompliant'[check'[c].user]
      <3>1. ~check'[c].pending => Pending(u) = {} BY <2>6, Zenon
      <3>2. Pending(u) = {} => now <= lastCompliant'[u] BY <1>1, <2>4, <2>5
      <3> QED BY <2>6, <3>1, <3>2
    <2>9. AnswersBounded' BY <1>6, <2>2, <2>7, <2>8 DEF AnswersBounded
    <2>10. PassedWasCompliant' BY <1>6, <2>2, <2>6 DEF PassedWasCompliant
    <2> QED BY <2>1, <2>9, <2>10
  <1>11. ASSUME NEW c \in Checks, CheckAnswered(c)
         PROVE  CacheBounded' /\ AnswersBounded' /\ PassedWasCompliant'
    <2> DEFINE p == check[c].process
               u == check[c].user
    <2>1. p \in Processes /\ u \in Users BY <1>3, <1>11 DEF CheckAnswered
    <2>2. CASE check[c].pending
      <3>1. Answer(c, u, "blocked") /\ UNCHANGED cache BY <1>11, <2>2 DEF CheckAnswered
      <3> HIDE DEF p, u
      <3>2. AnswersBounded' /\ PassedWasCompliant' BY <1>8, <2>1, <3>1
      <3>3. CacheBounded' BY <1>5, <3>1 DEF CacheBounded
      <3> QED BY <3>2, <3>3
    <2>3. CASE ~check[c].pending
      <3>1. now <= lastCompliant[u] + Latency
        <4>1. now <= check[c].at + Latency /\ check[c].at <= lastCompliant[u]
          BY <1>11, <2>3 DEF CheckAnswered, Inv, AnswersBounded
        <4>2. check[c].at \in Nat /\ lastCompliant[u] \in Nat
          BY <1>1, <1>3, <1>11, <2>1 DEF CheckAnswered
        <4> QED BY <1>1, <4>1, <4>2
      <3>2. Answer(c, u, "let in") /\ now' = now /\ cache' = [cache EXCEPT ![p][u] = now + TTL]
        BY <1>11, <2>3 DEF CheckAnswered
      <3> HIDE DEF p, u
      <3>3. lastCompliant[u] \in Nat /\ lastCompliant'[u] \in Nat
            /\ lastCompliant[u] <= lastCompliant'[u]
        BY <1>1, <1>2, <2>1
      <3>4. now < lastCompliant[u] + TTL + Latency BY <1>1, <3>1, <3>3
      <3>5. AnswersBounded' /\ PassedWasCompliant' BY <1>7, <2>1, <3>2, <3>4
      <3>6. now + TTL <= lastCompliant'[u] + TTL + Latency BY <1>1, <3>1, <3>3
      <3>7. CacheBounded'
        <4> SUFFICES ASSUME NEW q \in Processes, NEW v \in Users
                     PROVE  cache'[q][v] <= lastCompliant'[v] + TTL + Latency
          BY DEF CacheBounded
        <4>1. cache'[q][v] = IF q = p /\ v = u THEN now + TTL ELSE cache[q][v]
          BY <1>1, <2>1, <3>2
        <4> QED BY <1>5, <3>6, <4>1
      <3> QED BY <3>5, <3>7
    <2> QED BY <2>2, <2>3
  <1>12. ASSUME NEW c \in Checks, CheckFails(c)
         PROVE  CacheBounded' /\ AnswersBounded' /\ PassedWasCompliant'
    BY <1>3, <1>5, <1>8, <1>12 DEF CheckFails, CacheBounded
  <1>13. ASSUME NEW p \in Processes, Restart(p)
         PROVE  CacheBounded' /\ AnswersBounded' /\ PassedWasCompliant'
    <2>1. CacheBounded' BY <1>1, <1>2, <1>5, <1>13 DEF Restart, CacheBounded
    <2>2. \A c \in Checks : check'[c] = Idle \/ check'[c] = check[c] BY <1>13 DEF Restart
    <2> QED BY <1>6, <2>1, <2>2 DEF AnswersBounded, PassedWasCompliant, Idle
  <1>14. CASE UNCHANGED <<cache, check>>
    BY <1>5, <1>6, <1>14 DEF CacheBounded, AnswersBounded, PassedWasCompliant
  <1> QED BY <1>9, <1>10, <1>11, <1>12, <1>13, <1>14
      DEF Next, Step, CreateLegalText, UpdateLegalText, DeleteLegalText, Write, LookUpToAccept,
          LookUpToRevoke, LookUp, Accept, Revoke, Tick

LEMMA InvStep == Inv /\ [Next]_vars => Inv'
  <1> SUFFICES ASSUME Inv, [Next]_vars PROVE Inv' OBVIOUS
  <1>1. TypeOK' BY TypeStep DEF Inv
  <1>2. CASE UNCHANGED vars
    BY <1>1, <1>2 DEF Inv, vars, ClockOK, CacheBounded, AnswersBounded, PassedWasCompliant
  <1>3. CASE Next
    <2>1. now' \in Nat /\ now <= now' BY <1>3, ClockMoves, TimesAssumption DEF Inv
    <2>2. ClockOK' BY <1>3, <2>1, ObserveMonotone DEF Inv, Next, ClockOK
    <2> QED BY <1>1, <1>3, <2>2, BoundsStep DEF Inv
  <1> QED BY <1>2, <1>3

-----------------------------------------------------------------------------
(***************************************************************************)
(* Consents and their texts.  What a lookup saw does not matter: the insert *)
(* itself is refused once the version is deleted.                          *)
(***************************************************************************)
LEMMA ConsentStep == TypeOK /\ ConsentKeepsText /\ [Next]_vars => ConsentKeepsText'
  <1> SUFFICES ASSUME TypeOK, ConsentKeepsText, [Next]_vars PROVE ConsentKeepsText' OBVIOUS
  <1>0. text \in [Texts -> [status : Statuses \cup {"none", "deleted"}, reach : SUBSET Users]]
    BY DEF TypeOK
  \* a version that stays a version keeps its consents
  <1>1. ASSUME NEW t \in Texts, CreateLegalText(t) \/ UpdateLegalText(t)
        PROVE  ConsentKeepsText'
    <2>1. PICK s \in Statuses, r \in SUBSET Users :
             text' = [text EXCEPT ![t] = [status |-> s, reach |-> r]]
      BY <1>1 DEF CreateLegalText, UpdateLegalText, Write
    <2>2. consents' = consents BY <1>1 DEF CreateLegalText, UpdateLegalText, Write
    <2>3. \A k \in Texts : text'[k].status \in Statuses \/ text'[k] = text[k]
      BY <1>0, <2>1
    <2> QED BY <2>2, <2>3 DEF ConsentKeepsText
  <1>2. ASSUME NEW t \in Texts, DeleteLegalText(t) PROVE ConsentKeepsText'
    <2>1. \A u \in Users : <<u, t>> \notin consents' BY <1>2 DEF DeleteLegalText
    <2>2. \A k \in Texts : k # t => text'[k] = text[k] BY <1>0, <1>2 DEF DeleteLegalText
    <2>3. consents' = consents BY <1>2 DEF DeleteLegalText
    <2> QED BY <2>1, <2>2, <2>3 DEF ConsentKeepsText
  <1>3. ASSUME NEW u \in Users, NEW t \in Texts, Accept(u, t) PROVE ConsentKeepsText'
    <2>1. text' = text BY <1>3 DEF Accept
    <2>2. CASE text[t].status \in Statuses
      <3>1. consents' = consents \cup {<<u, t>>} BY <1>3, <2>2 DEF Accept
      <3> QED BY <2>1, <2>2, <3>1 DEF ConsentKeepsText
    <2>3. CASE text[t].status \notin Statuses
      BY <1>3, <2>1, <2>3 DEF Accept, ConsentKeepsText
    <2> QED BY <2>2, <2>3
  <1>4. CASE UNCHANGED <<text, consents>> BY <1>4 DEF ConsentKeepsText
  <1> QED BY <1>1, <1>2, <1>3, <1>4
      DEF Next, Step, LookUpToAccept, LookUpToRevoke, LookUp, Revoke, CheckCached, CheckAsks,
          CheckAnswered, CheckFails, Restart, Tick, data, vars

-----------------------------------------------------------------------------
\* Every variable keeps its type: entries of the cache never outlive the clock
\* by more than their lifetime (legal-text-enforcement.ts:57-61).
THEOREM TypeCorrect == Spec => []TypeOK
  <1>1. Inv => TypeOK BY DEF Inv
  <1> QED BY <1>1, InitInv, InvStep, PTL DEF Spec

\* However many processes cache for however many users: nobody is let in who
\* had something to accept throughout the last TTL + Latency ticks
\* (legal-text-enforcement.ts:8, :39-100).
THEOREM StalenessBounded == Spec => []PassedWasCompliant
  <1>1. Inv => PassedWasCompliant BY DEF Inv
  <1> QED BY <1>1, InitInv, InvStep, PTL DEF Spec

\* Whoever has accepted a version, and even withdrawn that consent, can still be
\* shown it: a deletion between the lookup and the insert of a consent does not
\* leave a consent without its text (legal-text-repository.ts:492-513).
THEOREM ConsentsStand == Spec => []ConsentKeepsText
  <1>1. Init => ConsentKeepsText BY DEF Init, ConsentKeepsText
  <1> QED BY <1>1, ConsentStep, TypeCorrect, PTL DEF Spec

=============================================================================
