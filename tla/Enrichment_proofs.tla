-------------------------- MODULE Enrichment_proofs --------------------------
(***************************************************************************)
(* Theorems about Enrichment for any callers, hosts, pages and settings:   *)
(* IInv is inductive and BansAreHonoured follows from it; every profile is *)
(* one that Extraction makes of the last page, and what Extraction_proofs  *)
(* says of those holds of it.                                              *)
(***************************************************************************)
EXTENDS Enrichment, Extraction_proofs

USE SettingsAssumption, BoundAssumption, ValueAssumption

-----------------------------------------------------------------------------
(* Types *)

LEMMA InitTypeOK == Init => TypeOK
  BY DEF Init, TypeOK, Labels, Asking

\* What Extraction may make of a website, or of none.
Made == {ProfileOf[p] : p \in Pages} \cup {Unenriched}

LEMMA MadeIsProfile == Made \subseteq Profile
  BY ProfilesKeep DEF Made

LEMMA LeaveTypeOK ==
    ASSUME TypeOK, NEW c \in Callers, NEW result \in Outcomes \cup {"raised"},
           NEW made \in Profile \cup {NONE},
           Leave(c, result, made), UNCHANGED <<now, permits, changed>>,
           cache' \in [Hosts -> Rules \cup {NONE}], page' \in [Callers -> Pages \cup {NONE}]
    PROVE  TypeOK'
  BY DEF TypeOK, Leave, Labels, Asking

LEMMA FinishTypeOK ==
    ASSUME TypeOK, NEW c \in Callers, NEW result \in Outcomes,
           Finish(c, result), UNCHANGED <<now, permits, changed>>,
           cache' \in [Hosts -> Rules \cup {NONE}], page' \in [Callers -> Pages \cup {NONE}]
    PROVE  TypeOK'
<1>1. Unenriched \in Profile
  BY MadeIsProfile DEF Made
<1> QED BY <1>1, LeaveTypeOK DEF Finish

LEMMA FinishWithTypeOK ==
    ASSUME TypeOK, NEW c \in Callers, NEW p \in Pages,
           FinishWith(c, p), UNCHANGED <<now, permits, changed>>,
           cache' \in [Hosts -> Rules \cup {NONE}], page' \in [Callers -> Pages \cup {NONE}]
    PROVE  TypeOK'
<1>1. ProfileOf[p] \in Profile
  BY MadeIsProfile DEF Made
<1>2. Leave(c, "raised", NONE) \/ Finish(c, "empty") \/ Leave(c, "fetched", ProfileOf[p])
  BY DEF FinishWith
<1> QED BY <1>1, <1>2, FinishTypeOK, LeaveTypeOK DEF Outcomes

LEMMA GotoTypeOK ==
    ASSUME TypeOK, NEW c \in Callers, NEW label \in Labels, NEW t \in Nat,
           Goto(c, label, t), UNCHANGED <<now, permits, changed>>,
           cache' \in [Hosts -> Rules \cup {NONE}],
           site' \in [Callers -> Hosts \cup {NONE}],
           fetcher' \in [Callers -> {"httpx", "browser"}],
           heard' \in [Callers -> BOOLEAN],
           page' \in [Callers -> Pages \cup {NONE}],
           outcome' \in [Callers -> Outcomes \cup {"raised", NONE}],
           profile' \in [Callers -> Profile \cup {NONE}]
    PROVE  TypeOK'
  BY DEF TypeOK, Goto

LEMMA FollowTypeOK ==
    ASSUME TypeOK, NEW c \in Callers, NEW allowed \in BOOLEAN,
           Follow(c, allowed), UNCHANGED <<now, permits, changed>>,
           cache' \in [Hosts -> Rules \cup {NONE}]
    PROVE  TypeOK'
<1>1. page' \in [Callers -> Pages \cup {NONE}]
  BY DEF Follow, TypeOK
<1>2. CASE /\ Goto(c, "pageWait", now) /\ heard' = [heard EXCEPT ![c] = FALSE]
           /\ UNCHANGED <<site, fetcher, outcome, profile>>
  BY <1>1, <1>2, GotoTypeOK DEF TypeOK, Labels
<1>3. CASE Finish(c, "robots_denied")
  BY <1>1, <1>3, FinishTypeOK DEF Outcomes
<1>4. CASE Leave(c, "raised", NONE)
  BY <1>1, <1>4, LeaveTypeOK
<1> QED BY <1>2, <1>3, <1>4 DEF Follow

LEMMA ContinueTypeOK == ASSUME TypeOK, NEW c \in Callers, Continue(c), site[c] \in Hosts PROVE TypeOK'
<1>1. CASE LookupHit(c)
  <2>1. cache[site[c]].allows \in BOOLEAN
    BY <1>1 DEF LookupHit, Live, TypeOK, Rules
  <2> QED BY <1>1, <2>1, FollowTypeOK DEF LookupHit, TypeOK
<1>2. CASE LookupMiss(c)
  <2>1. cache' \in [Hosts -> Rules \cup {NONE}]
    BY <1>2 DEF LookupMiss, TypeOK
  <2> QED BY <1>2, <2>1, GotoTypeOK DEF LookupMiss, TypeOK, Labels
<1>3. CASE RobotsSend(c)
  BY <1>3, GotoTypeOK DEF RobotsSend, TypeOK, Labels, Asking
<1>4. CASE RobotsAnswer(c)
  <2>1. heard' \in [Callers -> BOOLEAN] /\ since[c] \in Nat
    BY <1>4 DEF RobotsAnswer, TypeOK
  <2> QED BY <1>4, <2>1, GotoTypeOK DEF RobotsAnswer, TypeOK, Labels, Asking
<1>5. CASE RobotsFails(c)
  <2>1. heard' \in [Callers -> BOOLEAN] /\ since[c] \in Nat
    BY <1>5 DEF RobotsFails, TypeOK
  <2> QED BY <1>5, <2>1, GotoTypeOK DEF RobotsFails, TypeOK, Labels, Asking
<1>6. CASE RobotsStore(c)
  <2>1. heard[c] \in BOOLEAN /\ now + Ttl \in Nat
    BY DEF TypeOK
  <2>2. cache' \in [Hosts -> Rules \cup {NONE}]
    BY <1>6, <2>1 DEF RobotsStore, TypeOK, Rules
  <2> QED BY <1>6, <2>1, <2>2, FollowTypeOK DEF RobotsStore
<1>7. CASE PageSend(c)
  BY <1>7, GotoTypeOK DEF PageSend, TypeOK, Labels
<1>8. CASE PageNone(c)
  <2>1. page[c] \in Pages \cup {NONE} /\ UNCHANGED <<now, permits, changed>>
        /\ cache' \in [Hosts -> Rules \cup {NONE}] /\ page' \in [Callers -> Pages \cup {NONE}]
    BY <1>8 DEF PageNone, TypeOK
  <2>2. CASE page[c] = NONE
    BY <1>8, <2>1, <2>2, FinishTypeOK DEF PageNone, Outcomes
  <2>3. CASE page[c] # NONE
    BY <1>8, <2>1, <2>3, FinishWithTypeOK DEF PageNone
  <2> QED BY <2>2, <2>3
<1>9. CASE PageAnswer(c)
  <2>1. PICK p \in Pages :
          /\ page' = [page EXCEPT ![c] = p]
          /\ \/ /\ fetcher' = [fetcher EXCEPT ![c] = "browser"]
                /\ Goto(c, "lookup", 0)
                /\ UNCHANGED <<site, heard, outcome, profile>>
             \/ FinishWith(c, p)
    BY <1>9 DEF PageAnswer
  <2>2. UNCHANGED <<now, permits, changed>> /\ cache' \in [Hosts -> Rules \cup {NONE}]
        /\ page' \in [Callers -> Pages \cup {NONE}]
    BY <1>9, <2>1 DEF PageAnswer, TypeOK
  <2>3. CASE FinishWith(c, p)
    BY <2>2, <2>3, FinishWithTypeOK
  <2>4. CASE /\ fetcher' = [fetcher EXCEPT ![c] = "browser"]
             /\ Goto(c, "lookup", 0)
             /\ UNCHANGED <<site, heard, outcome, profile>>
    <3>1. fetcher' \in [Callers -> {"httpx", "browser"}]
      BY <2>4 DEF TypeOK
    <3> QED BY <2>2, <2>4, <3>1, GotoTypeOK DEF TypeOK, Labels
  <2> QED BY <2>1, <2>3, <2>4
<1>10. CASE RequestRaises(c)
  BY <1>10, LeaveTypeOK DEF RequestRaises, TypeOK
<1> QED BY <1>1, <1>2, <1>3, <1>4, <1>5, <1>6, <1>7, <1>8, <1>9, <1>10 DEF Continue

LEMMA StartTypeOK == ASSUME TypeOK, NEW c \in Callers, Start(c) PROVE TypeOK'
<1>1. CASE Begin(c)
  <2>1. site' \in [Callers -> Hosts \cup {NONE}] /\ page' \in [Callers -> Pages \cup {NONE}]
        /\ outcome' \in [Callers -> Outcomes \cup {"raised", NONE}]
        /\ profile' \in [Callers -> Profile \cup {NONE}]
    BY <1>1 DEF Begin, TypeOK
  <2> QED BY <1>1, <2>1, GotoTypeOK DEF Begin, TypeOK, Labels
<1>2. CASE NothingToFetch(c)
  <2>1. cache' \in [Hosts -> Rules \cup {NONE}] /\ page' \in [Callers -> Pages \cup {NONE}]
    BY <1>2 DEF NothingToFetch, TypeOK
  <2> QED BY <1>2, <2>1, FinishTypeOK, LeaveTypeOK DEF NothingToFetch, Outcomes
<1> QED BY <1>1, <1>2 DEF Start

LEMMA AroundTypeOK ==
    ASSUME TypeOK, Tick \/ \E h \in Hosts : Republish(h) \/ Evict(h)
    PROVE  TypeOK'
<1>1. CASE Tick
  BY <1>1 DEF Tick, TypeOK, callerVars
<1>2. ASSUME NEW h \in Hosts, Republish(h) PROVE TypeOK'
  BY <1>2 DEF Republish, TypeOK, callerVars
<1>3. ASSUME NEW h \in Hosts, Evict(h) PROVE TypeOK'
  BY <1>3 DEF Evict, TypeOK, callerVars
<1> QED BY <1>1, <1>2, <1>3

-----------------------------------------------------------------------------
(* Rules on their way *)

\* The part of the invariant that speaks of one host, and of one enrichment.
HostInv(h) ==
    /\ changed[h] <= now
    /\ cache[h] # NONE => cache[h].expires <= now + Ttl
    /\ cache[h] # NONE /\ cache[h].allows /\ ~permits[h] =>
         cache[h].expires <= changed[h] + Ttl + Latency
CallerInv(c) ==
    /\ since[c] <= now
    /\ pc[c] # "idle" => site[c] # NONE
    /\ pc[c] \in Asking => now <= since[c] + Latency
    /\ pc[c] = "pageWait" => now <= since[c] + Wait
    /\ pc[c] = "robotsStore" /\ heard[c] /\ ~permits[site[c]] => since[c] <= changed[site[c]]
    /\ pc[c] = "pageWait" /\ ~permits[site[c]] => since[c] <= changed[site[c]] + Ttl + Latency

LEMMA Parts == Clocks /\ Outdated <=> (\A h \in Hosts : HostInv(h)) /\ (\A c \in Callers : CallerInv(c))
  BY DEF Clocks, Outdated, HostInv, CallerInv

\* What an enrichment does leaves the others alone.
LEMMA OthersKeep ==
    ASSUME TypeOK, NEW c \in Callers, Start(c) \/ Continue(c)
    PROVE  /\ UNCHANGED <<now, permits, changed>>
           /\ \A d \in Callers \ {c} :
                /\ pc'[d] = pc[d] /\ site'[d] = site[d]
                /\ heard'[d] = heard[d] /\ since'[d] = since[d]
<1>1. CASE Begin(c)
  BY <1>1 DEF Begin, Goto, TypeOK
<1>2. CASE Continue(c) /\ ~LookupHit(c) /\ ~RobotsStore(c)
  BY <1>2 DEF Continue, LookupMiss, RobotsSend, RobotsAnswer, RobotsFails,
              PageSend, PageNone, PageAnswer, RequestRaises, Goto, Finish, FinishWith, Leave, TypeOK
<1>3. CASE LookupHit(c)
  BY <1>3 DEF LookupHit, Follow, Goto, Finish, FinishWith, Leave, TypeOK
<1>4. CASE RobotsStore(c)
  BY <1>4 DEF RobotsStore, Follow, Goto, Finish, FinishWith, Leave, TypeOK
<1>5. CASE NothingToFetch(c)
  BY <1>5 DEF NothingToFetch, Finish, FinishWith, Leave, TypeOK
<1> QED BY <1>1, <1>2, <1>3, <1>4, <1>5 DEF Start

\* Rules enter the cache with no more than the lifetime they are given, counted
\* from when the request for them began.
LEMMA HostsKeep ==
    ASSUME TypeOK, NEW c \in Callers, CallerInv(c), \A h \in Hosts : HostInv(h),
           Start(c) \/ Continue(c), NEW h \in Hosts
    PROVE  HostInv(h)'
<1>1. UNCHANGED <<now, permits, changed>>
  BY OthersKeep
<1>2. CASE cache' = cache
  BY <1>1, <1>2 DEF HostInv
<1>3. CASE cache' # cache
  <2>1. LookupMiss(c) \/ RobotsStore(c)
    BY <1>3 DEF Start, Continue, Begin, NothingToFetch, LookupHit, RobotsSend, RobotsAnswer,
                RobotsFails, PageSend, PageNone, PageAnswer, RequestRaises
  <2>2. CASE LookupMiss(c)
    <3>1. cache'[h] = NONE \/ cache'[h] = cache[h]
      BY <2>2 DEF LookupMiss, TypeOK
    <3> QED BY <1>1, <3>1 DEF HostInv
  <2>3. CASE RobotsStore(c)
    <3>1. pc[c] = "robotsStore" /\ site[c] \in Hosts
      BY <2>3 DEF RobotsStore, CallerInv, TypeOK
    <3>2. CASE h # site[c]
      <4>1. cache'[h] = cache[h]
        BY <2>3, <3>2 DEF RobotsStore, TypeOK
      <4> QED BY <1>1, <4>1 DEF HostInv
    <3>3. CASE h = site[c]
      <4>1. cache'[h] = [allows |-> heard[c], expires |-> now + Ttl]
        BY <1>3, <2>3, <3>1, <3>3 DEF RobotsStore, TypeOK
      <4>2. cache'[h].allows = heard[c] /\ cache'[h].expires = now + Ttl
        BY <4>1
      <4>3. now \in Nat /\ since[c] \in Nat /\ changed[h] \in Nat /\ changed[h] <= now
        BY DEF TypeOK, HostInv
      <4>4. now <= since[c] + Latency /\ (heard[c] /\ ~permits[h] => since[c] <= changed[h])
        BY <3>1, <3>3 DEF CallerInv, Asking
      <4>5. heard[c] /\ ~permits[h] => now + Ttl <= changed[h] + Ttl + Latency
        BY <4>3, <4>4
      <4> QED BY <1>1, <4>2, <4>3, <4>5 DEF HostInv
    <3> QED BY <3>2, <3>3
  <2> QED BY <2>1, <2>2, <2>3
<1> QED BY <1>2, <1>3

\* An enrichment that follows rules waits for the limiter from now on, or ends.
LEMMA FollowKeeps ==
    ASSUME TypeOK, NEW c \in Callers, NEW allowed \in BOOLEAN, site[c] \in Hosts,
           Follow(c, allowed), UNCHANGED <<now, permits, changed>>,
           allowed /\ ~permits[site[c]] => now <= changed[site[c]] + Ttl + Latency
    PROVE  CallerInv(c)'
<1>1. CASE allowed /\ Goto(c, "pageWait", now) /\ UNCHANGED site
  <2>1. pc'[c] = "pageWait" /\ since'[c] = now /\ site'[c] = site[c] /\ now \in Nat
    BY <1>1 DEF Goto, TypeOK
  <2> QED BY <1>1, <2>1 DEF CallerInv, Asking, TypeOK
<1>2. CASE Finish(c, "robots_denied") \/ Leave(c, "raised", NONE)
  BY <1>2 DEF Finish, Leave, CallerInv, Asking, TypeOK
<1> QED BY <1>1, <1>2 DEF Follow

LEMMA CallerKeeps ==
    ASSUME TypeOK, NEW c \in Callers, CallerInv(c), \A h \in Hosts : HostInv(h),
           Start(c) \/ Continue(c)
    PROVE  CallerInv(c)'
<1> USE DEF Asking
<1>1. UNCHANGED <<now, permits, changed>>
  BY OthersKeep
<1>2. pc[c] # "idle" => site[c] \in Hosts
  BY DEF CallerInv, TypeOK
<1>3. CASE Begin(c)
  <2>1. pc'[c] = "lookup" /\ since'[c] = 0 /\ site'[c] \in Hosts
    BY <1>3 DEF Begin, Goto, TypeOK
  <2> QED BY <1>1, <2>1 DEF CallerInv, TypeOK
<1>4. CASE NothingToFetch(c)
  BY <1>4 DEF NothingToFetch, Finish, FinishWith, Leave, CallerInv, TypeOK
<1>5. CASE LookupHit(c)
  <2>1. site[c] \in Hosts /\ cache[site[c]] # NONE /\ cache[site[c]] \in Rules /\ now < cache[site[c]].expires
    BY <1>2, <1>5 DEF LookupHit, Live, TypeOK
  <2>2. cache[site[c]].allows \in BOOLEAN /\ cache[site[c]].expires \in Nat
    BY <2>1 DEF Rules
  <2>3. cache[site[c]].allows /\ ~permits[site[c]] =>
          cache[site[c]].expires <= changed[site[c]] + Ttl + Latency
    BY <2>1 DEF HostInv
  <2>4. changed[site[c]] \in Nat /\ now \in Nat
    BY <2>1 DEF TypeOK
  <2>5. cache[site[c]].allows /\ ~permits[site[c]] => now <= changed[site[c]] + Ttl + Latency
    BY <2>1, <2>2, <2>3, <2>4
  <2> QED BY <1>1, <1>5, <2>1, <2>2, <2>5, FollowKeeps DEF LookupHit
<1>6. CASE LookupMiss(c)
  BY <1>1, <1>2, <1>6 DEF LookupMiss, Goto, CallerInv, TypeOK
<1>7. CASE RobotsSend(c)
  <2>1. pc'[c] = "robotsAsk" /\ since'[c] = now /\ site'[c] = site[c] /\ site[c] # NONE /\ now \in Nat
    BY <1>2, <1>7 DEF RobotsSend, Goto, TypeOK, CallerInv
  <2> QED BY <1>1, <2>1 DEF CallerInv
<1>8. CASE RobotsAnswer(c)
  <2>1. /\ pc[c] = "robotsAsk" /\ pc'[c] = "robotsStore" /\ since'[c] = since[c]
        /\ site'[c] = site[c] /\ heard'[c] = permits[site[c]]
    BY <1>8 DEF RobotsAnswer, Goto, TypeOK
  <2> QED BY <1>1, <2>1 DEF CallerInv
<1>9. CASE RobotsFails(c)
  <2>1. /\ pc[c] = "robotsAsk" /\ pc'[c] = "robotsStore" /\ since'[c] = since[c]
        /\ site'[c] = site[c] /\ ~heard'[c]
    BY <1>9 DEF RobotsFails, Goto, TypeOK
  <2> QED BY <1>1, <2>1 DEF CallerInv
<1>10. CASE RobotsStore(c)
  <2>1. pc[c] = "robotsStore" /\ site[c] \in Hosts /\ heard[c] \in BOOLEAN
    BY <1>2, <1>10 DEF RobotsStore, TypeOK
  <2>2. now \in Nat /\ since[c] \in Nat /\ changed[site[c]] \in Nat
    BY <2>1 DEF TypeOK
  <2>3. now <= since[c] + Latency /\ (heard[c] /\ ~permits[site[c]] => since[c] <= changed[site[c]])
    BY <2>1 DEF CallerInv
  <2>4. heard[c] /\ ~permits[site[c]] => now <= changed[site[c]] + Ttl + Latency
    BY <2>2, <2>3
  <2> QED BY <1>1, <1>10, <2>1, <2>4, FollowKeeps DEF RobotsStore
<1>11. CASE PageSend(c)
  BY <1>1, <1>2, <1>11 DEF PageSend, Goto, CallerInv, TypeOK
<1>12. CASE PageNone(c)
  BY <1>12 DEF PageNone, Finish, FinishWith, Leave, CallerInv, TypeOK
<1>13. CASE PageAnswer(c)
  <2>1. /\ since'[c] = 0 /\ now \in Nat
        /\ \/ pc'[c] = "lookup" /\ site'[c] = site[c] /\ site[c] # NONE
           \/ pc'[c] = "idle"
    BY <1>2, <1>13 DEF PageAnswer, Goto, Finish, FinishWith, Leave, TypeOK, CallerInv
  <2> QED BY <1>1, <2>1 DEF CallerInv
<1>14. CASE RequestRaises(c)
  BY <1>14 DEF RequestRaises, Finish, FinishWith, Leave, CallerInv, TypeOK
<1> QED BY <1>3, <1>4, <1>5, <1>6, <1>7, <1>8, <1>9, <1>10, <1>11, <1>12, <1>13, <1>14
        DEF Start, Continue

LEMMA StepKeeps ==
    ASSUME IInv, NEW c \in Callers, Start(c) \/ Continue(c)
    PROVE  (Clocks /\ Outdated)'
<1>1. TypeOK /\ (\A h \in Hosts : HostInv(h)) /\ \A d \in Callers : CallerInv(d)
  BY Parts DEF IInv
<1>2. \A h \in Hosts : HostInv(h)'
  BY <1>1, HostsKeep
<1>3. CallerInv(c)'
  BY <1>1, CallerKeeps
<1>4. ASSUME NEW d \in Callers, d # c PROVE CallerInv(d)'
  <2>1. UNCHANGED <<now, permits, changed>> /\ pc'[d] = pc[d] /\ site'[d] = site[d]
        /\ heard'[d] = heard[d] /\ since'[d] = since[d]
    BY <1>1, <1>4, OthersKeep
  <2> QED BY <1>1, <2>1 DEF CallerInv
<1>5. (\A h \in Hosts : HostInv(h)') /\ \A d \in Callers : CallerInv(d)'
  BY <1>2, <1>3, <1>4
<1> QED BY <1>5 DEF Clocks, Outdated, HostInv, CallerInv

-----------------------------------------------------------------------------
(* Around the enrichments *)

LEMMA TickKeeps == ASSUME IInv, Tick PROVE (Clocks /\ Outdated)'
<1>1. TypeOK /\ (\A h \in Hosts : HostInv(h)) /\ \A d \in Callers : CallerInv(d)
  BY Parts DEF IInv
<1>2. now \in Nat /\ now' = now + 1 /\ UNCHANGED <<permits, changed, cache, callerVars>>
  BY <1>1 DEF Tick, TypeOK
<1>3. ASSUME NEW h \in Hosts PROVE HostInv(h)'
  <2>1. changed[h] \in Nat /\ (cache[h] # NONE => cache[h].expires \in Nat)
    BY <1>1 DEF TypeOK, Rules
  <2> QED BY <1>1, <1>2, <2>1 DEF HostInv
<1>4. ASSUME NEW c \in Callers PROVE CallerInv(c)'
  <2>1. since[c] \in Nat /\ InTime(c)
    BY <1>1 DEF TypeOK, Tick
  <2> QED BY <1>1, <1>2, <2>1 DEF CallerInv, InTime, Asking, callerVars
<1> QED BY <1>3, <1>4 DEF Clocks, Outdated, HostInv, CallerInv

\* A ban begins now, after whatever is on its way was asked for.
LEMMA RepublishKeeps ==
    ASSUME IInv, NEW g \in Hosts, Republish(g)
    PROVE  (Clocks /\ Outdated)'
<1>1. TypeOK /\ (\A h \in Hosts : HostInv(h)) /\ \A d \in Callers : CallerInv(d)
  BY Parts DEF IInv
<1>2. /\ now \in Nat /\ UNCHANGED <<now, cache, callerVars>>
      /\ \A h \in Hosts : IF h = g THEN changed'[h] = now
                           ELSE changed'[h] = changed[h] /\ permits'[h] = permits[h]
  BY <1>1 DEF Republish, TypeOK
<1>3. ASSUME NEW h \in Hosts PROVE HostInv(h)'
  <2>1. cache[h] # NONE => cache[h].expires \in Nat
    BY <1>1 DEF TypeOK, Rules
  <2>2. cache[h] # NONE => cache[h].expires <= now + Ttl /\ now + Ttl <= now + Ttl + Latency
    BY <1>1, <1>2, <2>1 DEF HostInv
  <2>3. CASE h = g
    BY <1>2, <2>1, <2>2, <2>3 DEF HostInv
  <2>4. CASE h # g
    BY <1>1, <1>2, <2>4 DEF HostInv
  <2> QED BY <2>3, <2>4
<1>4. ASSUME NEW c \in Callers PROVE CallerInv(c)'
  <2>1. since[c] \in Nat /\ (pc[c] # "idle" => site[c] \in Hosts) /\ since[c] <= now
    BY <1>1 DEF TypeOK, CallerInv
  <2>2. UNCHANGED <<now, pc, site, heard, since>>
    BY <1>2 DEF callerVars
  <2>3. CASE site[c] = g
    BY <1>1, <1>2, <2>1, <2>2, <2>3 DEF CallerInv
  <2>4. CASE site[c] # g
    BY <1>1, <1>2, <2>1, <2>2, <2>4 DEF CallerInv
  <2> QED BY <2>3, <2>4
<1> QED BY <1>3, <1>4 DEF Clocks, Outdated, HostInv, CallerInv

LEMMA EvictKeeps ==
    ASSUME IInv, NEW g \in Hosts, Evict(g)
    PROVE  (Clocks /\ Outdated)'
<1>1. UNCHANGED <<now, permits, changed, callerVars>> /\ \A h \in Hosts : cache'[h] \in {NONE, cache[h]}
  BY DEF Evict, IInv, TypeOK
<1> QED BY <1>1 DEF IInv, Clocks, Outdated, callerVars

-----------------------------------------------------------------------------
LEMMA InitIInv == Init => IInv
<1> SUFFICES ASSUME Init PROVE IInv
  OBVIOUS
<1>1. TypeOK
  BY InitTypeOK
<1>2. BansAreHonoured /\ Clocks /\ Outdated
  BY DEF Init, BansAreHonoured, Clocks, Outdated, Asking
<1> QED BY <1>1, <1>2 DEF IInv

LEMMA NextIInv == IInv /\ [Next]_vars => IInv'
<1> SUFFICES ASSUME IInv, [Next]_vars PROVE IInv'
  OBVIOUS
<1>1. CASE UNCHANGED vars
  BY <1>1 DEF vars, callerVars, IInv, TypeOK, BansAreHonoured, Clocks, Outdated
<1>2. CASE Next
  <2>1. TypeOK' /\ (Clocks /\ Outdated)'
    <3>1. CASE Tick
      BY <3>1, AroundTypeOK, TickKeeps DEF IInv
    <3>2. ASSUME NEW h \in Hosts, Republish(h) \/ Evict(h) PROVE TypeOK' /\ (Clocks /\ Outdated)'
      BY <3>2, AroundTypeOK, RepublishKeeps, EvictKeeps DEF IInv
    <3>3. ASSUME NEW c \in Callers, Start(c) \/ Continue(c) PROVE TypeOK' /\ (Clocks /\ Outdated)'
      <4>1. Continue(c) => site[c] \in Hosts
        BY DEF IInv, Clocks, TypeOK, Continue, LookupHit, LookupMiss, RobotsSend, RobotsAnswer,
               RobotsFails, RobotsStore, PageSend, PageNone, PageAnswer, RequestRaises
      <4>2. TypeOK'
        BY <3>3, <4>1, StartTypeOK, ContinueTypeOK DEF IInv
      <4> QED BY <3>3, <4>2, StepKeeps
    <3> QED BY <1>2, <3>1, <3>2, <3>3 DEF Next
  <2>2. \A c \in Callers : CallerInv(c)'
    BY <2>1 DEF Clocks, Outdated, CallerInv
  <2>3. BansAreHonoured'
    <3> SUFFICES ASSUME NEW c \in Callers, pc'[c] = "pageWait", ~permits'[site'[c]]
                 PROVE  now' <= changed'[site'[c]] + Ttl + Latency + Wait
      BY DEF BansAreHonoured
    <3>1. site'[c] \in Hosts
      BY <2>1, <2>2 DEF CallerInv, TypeOK
    <3>2. now' \in Nat /\ since'[c] \in Nat /\ changed'[site'[c]] \in Nat
      BY <2>1, <3>1 DEF TypeOK
    <3>3. now' <= since'[c] + Wait /\ since'[c] <= changed'[site'[c]] + Ttl + Latency
      BY <2>2 DEF CallerInv
    <3> QED BY <3>2, <3>3
  <2> QED BY <2>1, <2>3 DEF IInv
<1> QED BY <1>1, <1>2

\* Invariance: IInv holds in every reachable state.
THEOREM Invariance == Spec => []IInv
  BY InitIInv, NextIInv, PTL DEF Spec

\* TypeCorrect: the variables keep their types, whatever the enrichments, the
\* hosts and the cache do.
THEOREM TypeCorrect == Spec => []TypeOK
<1>1. IInv => TypeOK
  BY DEF IInv
<1> QED BY <1>1, Invariance, PTL

\* BansAlwaysHonoured: no page is requested from a host that forbade it longer
\* ago than Ttl + Latency + Wait, for any settings and any number of enrichments
\* (RobotsGate and both fetchers).
THEOREM BansAlwaysHonoured == Spec => []BansAreHonoured
<1>1. IInv => BansAreHonoured
  BY DEF IInv
<1> QED BY <1>1, Invariance, PTL

-----------------------------------------------------------------------------
(* Profiles *)

\* What an enrichment that is not running reports of the last page.
Reports(c) ==
    /\ outcome[c] = "fetched" =>
         page[c] \in Pages \ (BrokenPages \cup EmptyPages) /\ profile[c] = ProfileOf[page[c]]
    /\ outcome[c] = "empty" => page[c] \in EmptyPages
    /\ outcome[c] \in {"unavailable", "not_listed"} => page[c] = NONE
    /\ outcome[c] \in Outcomes \ {"fetched"} => profile[c] = Unenriched

\* It reports what the last page says, and every profile is one that Extraction
\* makes.
HonestOf(c) ==
    /\ pc[c] = "idle" => Reports(c)
    /\ profile[c] \in Made \cup {NONE}
Honest == \A c \in Callers : HonestOf(c)

\* A step of c's leaves what the others report as it was.
LEMMA OthersHonest ==
    ASSUME NEW c \in Callers, NEW d \in Callers,
           UNCHANGED <<pc[d], page[d], outcome[d], profile[d]>>, HonestOf(d)
    PROVE  HonestOf(d)'
<1>1. UNCHANGED <<Made, Unenriched, ProfileOf, Pages, BrokenPages, EmptyPages>>
  BY DEF Made
<1> QED BY <1>1 DEF HonestOf, Reports

LEMMA LeaveHonest ==
    ASSUME TypeOK, NEW c \in Callers, NEW result, NEW made \in Made \cup {NONE},
           Leave(c, result, made), result \in {"raised", "robots_denied"},
           result = "robots_denied" => made = Unenriched
    PROVE  HonestOf(c)'
<1>1. pc'[c] = "idle" /\ outcome'[c] = result /\ profile'[c] = made
  BY DEF Leave, TypeOK
<1>2. result # "raised" => made = Unenriched
  OBVIOUS
<1>3. "raised" \notin Outcomes
  BY DEF Outcomes
<1> QED BY <1>1, <1>2, <1>3 DEF HonestOf, Reports, Made

LEMMA FinishHonest ==
    ASSUME TypeOK, NEW c \in Callers, NEW result \in Outcomes \ {"fetched"}, Finish(c, result),
           result = "empty" => page'[c] \in EmptyPages,
           result \in {"unavailable", "not_listed"} => page'[c] = NONE
    PROVE  HonestOf(c)'
<1>1. pc'[c] = "idle" /\ outcome'[c] = result /\ profile'[c] = Unenriched
  BY DEF Finish, Leave, TypeOK
<1> QED BY <1>1 DEF HonestOf, Reports, Made

LEMMA FinishWithHonest ==
    ASSUME TypeOK, NEW c \in Callers, NEW p \in Pages, FinishWith(c, p), page'[c] = p
    PROVE  HonestOf(c)'
<1>1. CASE p \in BrokenPages
  <2>1. p \notin EmptyPages
    BY <1>1 DEF EmptyPages
  <2> QED BY <1>1, <2>1, LeaveHonest DEF FinishWith
<1>2. CASE p \notin BrokenPages /\ p \in EmptyPages
  BY <1>2, FinishHonest DEF FinishWith, Outcomes
<1>3. CASE p \notin BrokenPages /\ p \notin EmptyPages
  <2>1. Leave(c, "fetched", ProfileOf[p])
    BY <1>3 DEF FinishWith
  <2>2. pc'[c] = "idle" /\ outcome'[c] = "fetched" /\ profile'[c] = ProfileOf[p]
    BY <2>1 DEF Leave, TypeOK
  <2> QED BY <1>3, <2>2 DEF HonestOf, Reports, Made
<1> QED BY <1>1, <1>2, <1>3

LEMMA StepHonest ==
    ASSUME TypeOK, Honest, NEW c \in Callers, Start(c) \/ Continue(c)
    PROVE  Honest'
<1>1. ASSUME NEW d \in Callers \ {c} PROVE HonestOf(d)'
  <2>1. UNCHANGED <<pc[d], page[d], outcome[d], profile[d]>>
    <3>1. CASE Begin(c) \/ NothingToFetch(c)
      BY <3>1 DEF Begin, NothingToFetch, Goto, Finish, Leave, TypeOK
    <3>2. CASE LookupHit(c) \/ RobotsStore(c)
      BY <3>2 DEF LookupHit, RobotsStore, Follow, Goto, Finish, Leave, TypeOK
    <3>3. CASE LookupMiss(c) \/ RobotsSend(c) \/ RobotsAnswer(c) \/ RobotsFails(c) \/ PageSend(c)
      BY <3>3 DEF LookupMiss, RobotsSend, RobotsAnswer, RobotsFails, PageSend, Goto, TypeOK
    <3>4. CASE PageNone(c) \/ PageAnswer(c) \/ RequestRaises(c)
      BY <3>4 DEF PageNone, PageAnswer, RequestRaises, Goto, FinishWith, Finish, Leave, TypeOK
    <3> QED BY <3>1, <3>2, <3>3, <3>4 DEF Start, Continue
  <2> QED BY <2>1, OthersHonest DEF Honest
<1>2. HonestOf(c)'
  <2>1. ASSUME NEW label \in Labels \ {"idle"}, NEW t, Goto(c, label, t),
               UNCHANGED profile \/ profile' = [profile EXCEPT ![c] = NONE]
        PROVE  HonestOf(c)'
    <3>1. pc'[c] # "idle" /\ profile'[c] \in {profile[c], NONE} /\ HonestOf(c)
      BY <2>1 DEF Goto, TypeOK, Honest
    <3>2. UNCHANGED Made
      BY DEF Made
    <3> QED BY <3>1, <3>2 DEF HonestOf
  <2>2. ASSUME NEW allowed, Follow(c, allowed) PROVE HonestOf(c)'
    <3>1. CASE Goto(c, "pageWait", now) /\ UNCHANGED profile
      BY <2>1, <3>1 DEF Labels
    <3>2. CASE Finish(c, "robots_denied")
      BY <3>2, FinishHonest DEF Outcomes
    <3>3. CASE Leave(c, "raised", NONE)
      BY <3>3, LeaveHonest
    <3> QED BY <2>2, <3>1, <3>2, <3>3 DEF Follow
  <2>3. CASE Begin(c)
    BY <2>1, <2>3 DEF Begin, Labels
  <2>4. CASE NothingToFetch(c)
    <3>1. page'[c] = NONE
      BY <2>4 DEF NothingToFetch, TypeOK
    <3>2. CASE Leave(c, "raised", NONE)
      BY <3>2, LeaveHonest
    <3>3. CASE \E result \in {"not_listed", "robots_denied"} : Finish(c, result)
      BY <3>1, <3>3, FinishHonest DEF Outcomes
    <3> QED BY <2>4, <3>2, <3>3 DEF NothingToFetch
  <2>5. CASE LookupHit(c) \/ RobotsStore(c)
    BY <2>2, <2>5 DEF LookupHit, RobotsStore
  <2>6. CASE LookupMiss(c)
    BY <2>1, <2>6 DEF LookupMiss, Labels
  <2>7. CASE RobotsSend(c)
    BY <2>1, <2>7 DEF RobotsSend, Labels, Asking
  <2>8. CASE RobotsAnswer(c) \/ RobotsFails(c)
    BY <2>1, <2>8 DEF RobotsAnswer, RobotsFails, Labels, Asking
  <2>9. CASE PageSend(c)
    BY <2>1, <2>9 DEF PageSend, Labels
  <2>10. CASE PageNone(c)
    <3>1. page'[c] = page[c] /\ page[c] \in Pages \cup {NONE}
      BY <2>10 DEF PageNone, TypeOK
    <3>2. CASE page[c] = NONE
      BY <2>10, <3>1, <3>2, FinishHonest DEF PageNone, Outcomes
    <3>3. CASE page[c] # NONE
      BY <2>10, <3>1, <3>3, FinishWithHonest DEF PageNone
    <3> QED BY <3>2, <3>3
  <2>11. CASE PageAnswer(c)
    <3>1. PICK p \in Pages :
            /\ page' = [page EXCEPT ![c] = p]
            /\ (Goto(c, "lookup", 0) /\ UNCHANGED profile) \/ FinishWith(c, p)
      BY <2>11 DEF PageAnswer
    <3>2. page'[c] = p
      BY <3>1 DEF TypeOK
    <3> QED BY <2>1, <3>1, <3>2, FinishWithHonest DEF Labels
  <2>12. CASE RequestRaises(c)
    BY <2>12, LeaveHonest DEF RequestRaises
  <2> QED BY <2>3, <2>4, <2>5, <2>6, <2>7, <2>8, <2>9, <2>10, <2>11, <2>12 DEF Start, Continue
<1> QED BY <1>1, <1>2 DEF Honest

LEMMA NextHonest == TypeOK /\ Honest /\ [Next]_vars => Honest'
<1> SUFFICES ASSUME TypeOK, Honest, [Next]_vars PROVE Honest'
  OBVIOUS
<1>1. CASE UNCHANGED callerVars
  BY <1>1, OthersHonest DEF callerVars, Honest
<1>2. ASSUME NEW c \in Callers, Start(c) \/ Continue(c) PROVE Honest'
  BY <1>2, StepHonest
<1> QED BY <1>1, <1>2 DEF Next, vars, Republish, Evict, Tick

LEMMA InitHonest == Init => Honest
  BY ValueAssumption DEF Init, Honest, HonestOf, Reports, Outcomes

THEOREM AlwaysHonest == Spec => []Honest
  BY NextHonest, InitHonest, TypeCorrect, PTL DEF Spec

\* NoContactEverSurvives: whatever a website serves, no profile made of it holds
\* an e-mail address, a link or a telephone number (RedactionPolicy, _assemble).
THEOREM NoContactEverSurvives == Spec => []NoContactSurvives
<1>1. Honest => NoContactSurvives
  BY ProfilesKeep DEF Honest, HonestOf, NoContactSurvives, Made
<1> QED BY <1>1, AlwaysHonest, PTL

\* ProfilesAlwaysFit: whatever a website serves, the profile made of it is within
\* the contract's limits, says nothing twice and nothing blank (_assemble,
\* RedactionPolicy.clean_all).
THEOREM ProfilesAlwaysFit == Spec => []ProfileFits
<1>1. Honest => ProfileFits
  BY ProfilesKeep DEF Honest, HonestOf, ProfileFits, Made
<1> QED BY <1>1, AlwaysHonest, PTL

\* OutcomesFollowLastPage: whatever fails, and whichever fetcher it fails in, an
\* enrichment reports the last page that was returned to it: unavailable means
\* that none was, and the profile is that page's or no page's
\* (FallbackWebFetcher.fetch, EnrichBusinessProfile).
THEOREM OutcomesFollowLastPage == Spec => []OutcomeFollowsLastPage
<1>1. Honest => OutcomeFollowsLastPage
  BY DEF Honest, HonestOf, Reports, OutcomeFollowsLastPage
<1> QED BY <1>1, AlwaysHonest, PTL

-----------------------------------------------------------------------------
(* Enrichments come to an end *)

\* What a label and a fetcher have before them.
Ahead(label, f) == IF label # "idle" /\ f = "httpx" THEN Place[label] + 6 ELSE Place[label]

LEMMA AheadFacts ==
    /\ Ahead("idle", "httpx") = 0 /\ Ahead("idle", "browser") = 0
    /\ \A f \in {"httpx", "browser"} :
         /\ Ahead("lookup", f) > Ahead("robotsWait", f)
         /\ Ahead("robotsWait", f) > Ahead("robotsAsk", f)
         /\ Ahead("robotsAsk", f) > Ahead("robotsStore", f)
         /\ Ahead("robotsStore", f) > Ahead("pageWait", f)
         /\ Ahead("lookup", f) > Ahead("pageWait", f)
         /\ Ahead("pageWait", f) > Ahead("pageAsk", f)
         /\ Ahead("pageAsk", f) > 0
    /\ Ahead("pageAsk", "httpx") > Ahead("lookup", "browser")
    /\ \A label \in Labels, f \in {"httpx", "browser"} :
         Ahead(label, f) \in 0 .. 12 /\ (label # "idle" => Ahead(label, f) > 0)
BY DEF Ahead, Place, Labels, Asking

\* Nothing of another enrichment than c's changes.
Aside(c) == \A d \in Callers \ {c} : UNCHANGED <<pc[d], fetcher[d], page[d]>>

\* Enrichment c, which is under way, has fewer awaits before it.
Falls(c) == Ahead(pc'[c], fetcher'[c]) < Ahead(pc[c], fetcher[c])

LEMMA GotoNearer ==
    ASSUME TypeOK, NEW c \in Callers, NEW label \in Labels, NEW t, Goto(c, label, t),
           UNCHANGED <<fetcher, page>>, Ahead(label, fetcher[c]) < Ahead(pc[c], fetcher[c])
    PROVE  Falls(c) /\ Aside(c)
BY DEF Goto, TypeOK, Falls, Aside

LEMMA LeaveNearer ==
    ASSUME TypeOK, NEW c \in Callers, pc[c] # "idle", NEW result, NEW made, Leave(c, result, made),
           \A d \in Callers \ {c} : page'[d] = page[d]
    PROVE  Falls(c) /\ Aside(c)
<1>1. pc'[c] = "idle" /\ fetcher'[c] = "httpx" /\ pc[c] \in Labels /\ fetcher[c] \in {"httpx", "browser"}
  BY DEF Leave, TypeOK
<1>2. Aside(c)
  BY DEF Leave, TypeOK, Aside
<1>3. Falls(c)
  BY <1>1, AheadFacts DEF Falls
<1> QED BY <1>2, <1>3

LEMMA FinishNearer ==
    ASSUME TypeOK, NEW c \in Callers, pc[c] # "idle", NEW p, NEW result,
           Finish(c, result) \/ FinishWith(c, p), \A d \in Callers \ {c} : page'[d] = page[d]
    PROVE  Falls(c) /\ Aside(c)
BY LeaveNearer DEF Finish, FinishWith

LEMMA FollowNearer ==
    ASSUME TypeOK, NEW c \in Callers, pc[c] \in {"lookup", "robotsStore"}, NEW allowed,
           Follow(c, allowed)
    PROVE  Falls(c) /\ Aside(c)
<1>1. CASE Goto(c, "pageWait", now) /\ UNCHANGED <<fetcher, page>>
  <2>1. Ahead("pageWait", fetcher[c]) < Ahead(pc[c], fetcher[c])
    BY AheadFacts DEF TypeOK
  <2> QED BY <1>1, <2>1, GotoNearer DEF Labels
<1>2. CASE UNCHANGED page /\ (Finish(c, "robots_denied") \/ Leave(c, "raised", NONE))
  BY <1>2, LeaveNearer DEF Finish
<1> QED BY <1>1, <1>2 DEF Follow

LEMMA ContinueNearer == ASSUME TypeOK, NEW c \in Callers, Continue(c) PROVE Falls(c) /\ Aside(c)
<1>0. fetcher[c] \in {"httpx", "browser"}
  BY DEF TypeOK
<1>1. CASE LookupHit(c) \/ RobotsStore(c)
  BY <1>1, FollowNearer DEF LookupHit, RobotsStore
<1>2. CASE LookupMiss(c)
  BY <1>0, <1>2, AheadFacts, GotoNearer DEF LookupMiss, Labels
<1>3. CASE RobotsSend(c)
  BY <1>0, <1>3, AheadFacts, GotoNearer DEF RobotsSend, Labels, Asking
<1>4. CASE RobotsAnswer(c) \/ RobotsFails(c)
  BY <1>0, <1>4, AheadFacts, GotoNearer DEF RobotsAnswer, RobotsFails, Labels, Asking
<1>5. CASE PageSend(c)
  BY <1>0, <1>5, AheadFacts, GotoNearer DEF PageSend, Labels
<1>6. CASE PageNone(c)
  BY <1>6, FinishNearer DEF PageNone
<1>7. CASE PageAnswer(c)
  <2>1. PICK p \in Pages :
          /\ page' = [page EXCEPT ![c] = p]
          /\ \/ /\ fetcher[c] = "httpx"
                /\ fetcher' = [fetcher EXCEPT ![c] = "browser"]
                /\ Goto(c, "lookup", 0)
             \/ FinishWith(c, p)
    BY <1>7 DEF PageAnswer
  <2>0. \A d \in Callers \ {c} : page'[d] = page[d]
    BY <2>1 DEF TypeOK
  <2>2. CASE FinishWith(c, p)
    BY <1>7, <2>0, <2>2, FinishNearer DEF PageAnswer
  <2>3. CASE /\ fetcher[c] = "httpx"
             /\ fetcher' = [fetcher EXCEPT ![c] = "browser"]
             /\ Goto(c, "lookup", 0)
    <3>1. pc[c] = "pageAsk" /\ pc'[c] = "lookup" /\ fetcher'[c] = "browser"
      BY <1>7, <2>3 DEF PageAnswer, Goto, TypeOK
    <3>2. Aside(c)
      BY <2>0, <2>3 DEF Goto, TypeOK, Aside
    <3> QED BY <2>3, <3>1, <3>2, AheadFacts DEF Falls
  <2> QED BY <2>1, <2>2, <2>3
<1>8. CASE RequestRaises(c)
  BY <1>8, LeaveNearer DEF RequestRaises
<1> QED BY <1>1, <1>2, <1>3, <1>4, <1>5, <1>6, <1>7, <1>8 DEF Continue

\* Only an enrichment that is not under way can start.
LEMMA StartAside == ASSUME TypeOK, NEW c \in Callers, Start(c) PROVE pc[c] = "idle" /\ Aside(c)
BY DEF Start, Begin, NothingToFetch, Goto, Finish, Leave, TypeOK, Aside

\* ReturnAlwaysComesNearer: no await is repeated and no enrichment lengthens
\* another, whatever hosts answer and whatever the cache forgets (RobotsGate, both
\* fetchers and FallbackWebFetcher).
THEOREM ReturnAlwaysComesNearer == Spec => ReturnComesNearer
<1>1. TypeOK /\ [Next]_vars =>
        [\A c \in Callers : pc[c] # "idle" =>
           \/ AwaitsLeft(c)' < AwaitsLeft(c)
           \/ UNCHANGED <<pc[c], fetcher[c], page[c]>>]_vars
  <2> SUFFICES ASSUME TypeOK, Next, NEW c \in Callers, pc[c] # "idle"
               PROVE  \/ AwaitsLeft(c)' < AwaitsLeft(c)
                      \/ UNCHANGED <<pc[c], fetcher[c], page[c]>>
    OBVIOUS
  <2>1. ASSUME NEW d \in Callers, Start(d) PROVE UNCHANGED <<pc[c], fetcher[c], page[c]>>
    BY <2>1, StartAside DEF Aside
  <2>2. ASSUME NEW d \in Callers, Continue(d), d # c PROVE UNCHANGED <<pc[c], fetcher[c], page[c]>>
    BY <2>2, ContinueNearer DEF Aside
  <2>3. CASE Continue(c)
    BY <2>3, ContinueNearer DEF Falls, Ahead, AwaitsLeft
  <2>4. CASE Tick \/ \E h \in Hosts : Republish(h) \/ Evict(h)
    BY <2>4 DEF Tick, Republish, Evict, callerVars
  <2> QED BY <2>1, <2>2, <2>3, <2>4 DEF Next
<1> QED BY <1>1, TypeCorrect, PTL DEF Spec, ReturnComesNearer

\* AwaitsAlwaysBounded: an enrichment under way has at least one await before it
\* and at most twelve: with ReturnAlwaysComesNearer, it returns or raises after
\* no more than twelve.
THEOREM AwaitsAlwaysBounded == Spec => []AwaitsAreBounded
<1>1. TypeOK => AwaitsAreBounded
  <2> SUFFICES ASSUME TypeOK, NEW c \in Callers
               PROVE  AwaitsLeft(c) \in 0 .. 12 /\ (AwaitsLeft(c) = 0 <=> pc[c] = "idle")
    BY DEF AwaitsAreBounded
  <2>1. pc[c] \in Labels /\ fetcher[c] \in {"httpx", "browser"} /\ AwaitsLeft(c) = Ahead(pc[c], fetcher[c])
    BY DEF TypeOK, AwaitsLeft, Ahead
  <2> QED BY <2>1, AheadFacts
<1> QED BY <1>1, TypeCorrect, PTL

-----------------------------------------------------------------------------
\* RulesKeepPromise: what the model lets happen to a host's cached rules is within
\* CacheEntry: rules are put with a whole lifetime, or go (RobotsGate._body_for).
THEOREM RulesKeepPromise ==
    ASSUME NEW h \in Hosts
    PROVE  Spec => RulesPromise(h)
<1>1. Init => R(h)!Init
  BY DEF Init, R!Init, KeptRules
<1>2. TypeOK /\ [Next]_vars => [R(h)!Next]_(R(h)!entryVars)
  <2> SUFFICES ASSUME TypeOK, [Next]_vars PROVE R(h)!Next \/ UNCHANGED R(h)!entryVars
    OBVIOUS
  <2>1. now \in Nat /\ cache \in [Hosts -> Rules \cup {NONE}] /\ heard \in [Callers -> BOOLEAN]
        /\ NONE \notin Rules /\ Ttl \in Nat
    BY ValueAssumption, SettingsAssumption DEF TypeOK
  <2>2. ASSUME cache'[h] = cache[h], now' = now PROVE UNCHANGED R(h)!entryVars
    BY <2>2 DEF R!entryVars, KeptRules
  <2>3. ASSUME cache'[h] = NONE, now' = now PROVE R(h)!Next
    BY <2>3 DEF R!Next, R!Drop, KeptRules
  <2>4. ASSUME NEW c \in Callers, RobotsStore(c) PROVE R(h)!Next \/ UNCHANGED R(h)!entryVars
    <3> DEFINE put == [allows |-> heard[c], expires |-> now + Ttl]
    <3>1. now' = now /\ cache' = IF Ttl = 0 THEN cache ELSE [cache EXCEPT ![site[c]] = put]
      BY <2>4 DEF RobotsStore
    <3>2. CASE Ttl # 0 /\ h = site[c]
      <4>1. cache'[h] = put /\ put \in Rules /\ put # NONE
        BY <2>1, <3>1, <3>2 DEF Rules
      <4>2. KeptRules(h)' = [value |-> heard[c], expires |-> now + Ttl] /\ heard[c] \in BOOLEAN
        BY <2>1, <4>1 DEF KeptRules
      <4> QED BY <3>1, <3>2, <4>2 DEF R!Next, R!Put
    <3>3. CASE ~(Ttl # 0 /\ h = site[c])
      BY <2>1, <2>2, <3>1, <3>3
    <3> QED BY <3>2, <3>3
  <2>5. ASSUME NEW c \in Callers, LookupMiss(c) PROVE R(h)!Next \/ UNCHANGED R(h)!entryVars
    <3>1. now' = now /\ cache' = [cache EXCEPT ![site[c]] = NONE]
      BY <2>5 DEF LookupMiss
    <3>2. cache'[h] = NONE \/ cache'[h] = cache[h]
      BY <2>1, <3>1
    <3> QED BY <2>2, <2>3, <3>1, <3>2
  <2>6. ASSUME NEW g \in Hosts, Evict(g) PROVE R(h)!Next \/ UNCHANGED R(h)!entryVars
    <3>1. now' = now /\ cache' = [cache EXCEPT ![g] = NONE]
      BY <2>6 DEF Evict
    <3>2. cache'[h] = NONE \/ cache'[h] = cache[h]
      BY <2>1, <3>1
    <3> QED BY <2>2, <2>3, <3>1, <3>2
  <2>7. CASE Tick
    BY <2>7 DEF Tick, R!Next, R!Pass, KeptRules
  <2>8. CASE UNCHANGED vars
    BY <2>2, <2>8 DEF vars
  <2>9. ASSUME NEW c \in Callers, Start(c) PROVE UNCHANGED R(h)!entryVars
    BY <2>2, <2>9 DEF Start, Begin, NothingToFetch
  <2>10. ASSUME NEW c \in Callers, Continue(c), ~RobotsStore(c), ~LookupMiss(c)
         PROVE  UNCHANGED R(h)!entryVars
    BY <2>2, <2>10 DEF Continue, LookupHit, RobotsSend, RobotsAnswer, RobotsFails,
                       PageSend, PageNone, PageAnswer, RequestRaises
  <2>11. ASSUME NEW g \in Hosts, Republish(g) PROVE UNCHANGED R(h)!entryVars
    BY <2>2, <2>11 DEF Republish
  <2> QED BY <2>4, <2>5, <2>6, <2>7, <2>8, <2>9, <2>10, <2>11 DEF Next
<1> QED BY <1>1, <1>2, TypeCorrect, PTL DEF Spec, RulesPromise, R!Spec

\* AnyForgettingIsCovered: and the model lets the cache do all that CacheEntry lets
\* it do on its own: rules that go at any moment, while everything else stays, go
\* in a step of Enrichment.  (Only RobotsGate puts rules under a host's key.)
THEOREM AnyForgettingIsCovered ==
    ASSUME TypeOK, NEW h \in Hosts, R(h)!Drop,
           cache' \in [Hosts -> Rules \cup {NONE}], \A g \in Hosts \ {h} : cache'[g] = cache[g],
           UNCHANGED <<permits, changed, callerVars>>
    PROVE  [Next]_vars
<1>1. cache \in [Hosts -> Rules \cup {NONE}] /\ now' = now
  BY DEF TypeOK, R!Drop
<1>2. cache'[h] = NONE
  <2>1. ASSUME cache'[h] # NONE PROVE FALSE
    <3>1. cache'[h] \in Rules
      BY <2>1
    <3>2. [value |-> cache'[h].allows, expires |-> cache'[h].expires] \in [value : BOOLEAN, expires : Nat]
      BY <3>1 DEF Rules
    <3> QED BY <2>1, <3>2 DEF R!Drop, KeptRules
  <2> QED BY <2>1
<1>3. CASE cache[h] = NONE
  <2>1. cache' = cache
    BY <1>1, <1>2, <1>3
  <2> QED BY <1>1, <2>1 DEF vars
<1>4. CASE cache[h] # NONE
  <2>1. cache' = [cache EXCEPT ![h] = NONE]
    BY <1>1, <1>2
  <2>2. Evict(h)
    BY <1>1, <1>4, <2>1 DEF Evict
  <2> QED BY <2>2 DEF Next
<1> QED BY <1>3, <1>4
=============================================================================
