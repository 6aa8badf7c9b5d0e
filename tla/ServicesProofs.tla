--------------------------- MODULE ServicesProofs ---------------------------
(***************************************************************************)
(* Proofs about the services that surround the summaries, one section for  *)
(* each: the alerts, the failure notices, the local login, the catch-up    *)
(* documents, the history back-fill, the pages of messages and the batch.  *)
(* The last section carries the results, and those of GenerationProofs,    *)
(* over to Services, whose behaviours are each one of a single service.    *)
(***************************************************************************)
EXTENDS MC_Services, GenerationProofs

-----------------------------------------------------------------------------
(* KeywordAlerts                                                            *)

\* Goroutines that have claimed an alert and not given it back.
Claiming(h) == handler[h].step \in {"send", "release"}

HandlersTyped ==
  /\ handler = [h \in Handlers |-> handler[h]]
  /\ \A h \in Handlers :
       /\ handler[h] # NoHandler => handled > 0
       /\ Claiming(h) => handler[h].at \in 0..now
  /\ \A key \in Key : lastAlert[key] = Never \/ lastAlert[key] <= now
  /\ \A key \in Key, t \in 0..MaxTime : announced[key][t] > 0 => t <= now

\* The claims of a key that count: those the bot has confirmed and those of
\* goroutines under way.
Distant(s, t) == s - t >= Cooldown \/ t - s >= Cooldown

ClaimsApart ==
  \A h \in Handlers : Claiming(h) =>
    /\ \A g \in Handlers \ {h} :
         Claiming(g) /\ handler[g].key = handler[h].key => Distant(handler[g].at, handler[h].at)
    /\ \A t \in 0..MaxTime :
         announced[handler[h].key][t] > 0 => Distant(t, handler[h].at)

\* What the entry in memory is for: no claim that counts is later than the
\* entry, or the cooldown after it has passed.
Remembered(key, t) == now - t >= Cooldown \/ (lastAlert[key] # Never /\ t <= lastAlert[key])

Counts(key, t) ==
  \/ announced[key][t] > 0
  \/ \E h \in Handlers : Claiming(h) /\ handler[h].key = key /\ handler[h].at = t

EntryCovers == \A key \in Key, t \in 0..MaxTime : Counts(key, t) => Remembered(key, t)

AlertsInv == AlertsTypeOK /\ HandlersTyped /\ ClaimsApart /\ EntryCovers /\ AlertsApart

LEMMA AlertsInitInv == AlertsInit => AlertsInv
<1> SUFFICES ASSUME AlertsInit PROVE AlertsInv
  OBVIOUS
<1>1. AlertsTypeOK
  BY AlertsAssumption DEF AlertsInit, AlertsTypeOK
<1>2. \A h \in Handlers : handler[h] = NoHandler /\ ~Claiming(h)
  BY DEF AlertsInit, Claiming, NoHandler
<1>3. \A key \in Key, t \in 0..MaxTime : announced[key][t] = 0
  BY DEF AlertsInit
<1>4. HandlersTyped
  BY <1>2, <1>3 DEF AlertsInit, HandlersTyped
<1> QED
  BY <1>1, <1>2, <1>3, <1>4 DEF AlertsInv, ClaimsApart, EntryCovers, Counts, AlertsApart

HandlerRecord == [step : HandlerSteps, key : Key, at : {Never} \cup 0..MaxTime]

LEMMA BusyHandler ==
  ASSUME AlertsInv, NEW h \in Handlers, handler[h].step # "none"
  PROVE  /\ handler[h] \in HandlerRecord /\ handler[h].step \in HandlerSteps
         /\ handler[h].key \in Key /\ handler[h].at \in {Never} \cup 0..MaxTime
         /\ handled > 0
<1>1. handler[h] # NoHandler
  BY DEF NoHandler
<1> QED
  BY <1>1 DEF AlertsInv, AlertsTypeOK, HandlersTyped, HandlerRecord

LEMMA ClaimingHandler ==
  ASSUME AlertsInv, NEW h \in Handlers, Claiming(h)
  PROVE  /\ handler[h].key \in Key
         /\ handler[h].at \in 0..now /\ handler[h].at \in 0..MaxTime /\ handler[h].at # Never
<1>1. handler[h].step # "none"
  BY DEF Claiming
<1> QED
  BY <1>1, BusyHandler DEF AlertsInv, HandlersTyped, Never

LEMMA AlertsTypeStep ==
  ASSUME AlertsInv, AlertsNext
  PROVE  AlertsTypeOK' /\ HandlersTyped'
<1> USE DEF AlertsInv
<1>1. CASE Tick
  BY <1>1, AlertsAssumption DEF Tick, AlertsTypeOK, HandlersTyped, Claiming
<1>2. ASSUME NEW h \in Handlers, ReadBot(h) PROVE AlertsTypeOK' /\ HandlersTyped'
  <2>1. handler[h] \in HandlerRecord /\ handled > 0
    BY <1>2, BusyHandler DEF ReadBot
  <2>2. handler'[h] = NoHandler \/ (handler'[h] \in HandlerRecord /\ handler'[h].step = "claim")
    BY <1>2, <2>1 DEF ReadBot, Continue, End, HandlersTyped, HandlerRecord, HandlerSteps
  <2>3. /\ \A g \in Handlers \ {h} : handler'[g] = handler[g]
        /\ handler' = [g \in Handlers |-> handler'[g]]
    BY <1>2 DEF ReadBot, Continue, End, HandlersTyped
  <2>4. UNCHANGED <<now, lastAlert, announced, handled, failing>>
    BY <1>2 DEF ReadBot
  <2> QED
    <3>1. AlertsTypeOK'
      BY <2>2, <2>3, <2>4 DEF AlertsTypeOK, HandlerRecord
    <3>2. ~Claiming(h)'
      BY <2>2 DEF Claiming, NoHandler
    <3> QED
      BY <2>1, <2>3, <2>4, <3>1, <3>2 DEF HandlersTyped, Claiming
<1>3. ASSUME NEW h \in Handlers, Claim(h) PROVE AlertsTypeOK' /\ HandlersTyped'
  <2>1. handler[h] \in HandlerRecord /\ handled > 0 /\ handler[h].key \in Key
    BY <1>3, BusyHandler DEF Claim
  <2>2. now \in 0..MaxTime /\ now \in Nat
    BY AlertsAssumption DEF AlertsTypeOK
  <2>3. \/ handler'[h] = NoHandler
        \/ handler'[h] \in HandlerRecord /\ handler'[h].at = now
    <3>1. CASE Cooling(handler[h].key)
      BY <1>3, <3>1 DEF Claim, End, HandlersTyped
    <3>2. CASE ~Cooling(handler[h].key)
      <4>1. handler' = [handler EXCEPT ![h] = [@ EXCEPT !.step = "send", !.at = now]]
        BY <1>3, <3>2 DEF Claim, HandlersTyped
      <4>2. handler'[h] = [handler[h] EXCEPT !.step = "send", !.at = now]
        BY <4>1 DEF HandlersTyped
      <4> QED
        BY <4>2, <2>1, <2>2 DEF HandlerRecord, HandlerSteps
    <3> QED
      BY <3>1, <3>2
  <2>4. /\ \A g \in Handlers \ {h} : handler'[g] = handler[g]
        /\ handler' = [g \in Handlers |-> handler'[g]]
    BY <1>3 DEF Claim, End, HandlersTyped
  <2>5. lastAlert' = lastAlert \/ lastAlert' = [lastAlert EXCEPT ![handler[h].key] = now]
    BY <1>3 DEF Claim
  <2>6. UNCHANGED <<now, announced, handled, failing>>
    BY <1>3 DEF Claim
  <2>7. lastAlert' \in [Key -> {Never} \cup 0..MaxTime] /\ \A key \in Key : lastAlert'[key] = Never \/ lastAlert'[key] <= now
    BY <2>1, <2>2, <2>5 DEF AlertsTypeOK, HandlersTyped
  <2>8. AlertsTypeOK'
    BY <2>3, <2>4, <2>6, <2>7 DEF AlertsTypeOK, HandlerRecord
  <2> QED
    BY <2>1, <2>2, <2>3, <2>4, <2>6, <2>7, <2>8 DEF HandlersTyped, Claiming, NoHandler
<1>4. ASSUME NEW h \in Handlers, Announce(h) PROVE AlertsTypeOK' /\ HandlersTyped'
  <2>1. handler[h] \in HandlerRecord /\ handled > 0 /\ Claiming(h)
    BY <1>4, BusyHandler DEF Announce, Claiming
  <2>2. handler[h].key \in Key /\ handler[h].at \in 0..MaxTime /\ handler[h].at \in 0..now
    BY <2>1, ClaimingHandler
  <2>3. \/ handler'[h] = NoHandler
        \/ handler'[h] \in HandlerRecord /\ handler'[h].at = handler[h].at
    BY <1>4, <2>1 DEF Announce, Continue, End, HandlersTyped, HandlerRecord, HandlerSteps
  <2>4. /\ \A g \in Handlers \ {h} : handler'[g] = handler[g]
        /\ handler' = [g \in Handlers |-> handler'[g]]
    BY <1>4 DEF Announce, Continue, End, HandlersTyped
  <2>5. announced[handler[h].key][handler[h].at] = 0
    <3>1. announced[handler[h].key][handler[h].at] \in Nat
      BY <2>2, AlertsAssumption DEF AlertsTypeOK
    <3>2. ~Distant(handler[h].at, handler[h].at)
      BY <2>2, AlertsAssumption DEF Distant
    <3> QED
      BY <2>1, <2>2, <3>1, <3>2 DEF ClaimsApart
  <2>6. announced' = announced \/ announced' = [announced EXCEPT ![handler[h].key][handler[h].at] = 1]
    BY <1>4, <2>2, <2>5 DEF Announce, AlertsTypeOK
  <2>7. 1 \in 0..MaxAlerts
    BY <2>1, AlertsAssumption DEF AlertsTypeOK
  <2> DEFINE row == [announced[handler[h].key] EXCEPT ![handler[h].at] = 1]
  <2>13. announced' = announced \/ announced' = [announced EXCEPT ![handler[h].key] = row]
    BY <2>6
  <2>14. row \in [0..MaxTime -> 0..MaxAlerts]
    BY <2>2, <2>7 DEF AlertsTypeOK
  <2>15. \A t \in 0..MaxTime : row[t] = announced[handler[h].key][t] \/ (t = handler[h].at /\ row[t] = 1)
    BY <2>2 DEF AlertsTypeOK
  <2> HIDE DEF row
  <2>8. announced' \in [Key -> [0..MaxTime -> 0..MaxAlerts]]
    BY <2>2, <2>13, <2>14 DEF AlertsTypeOK
  <2>9. \A key \in Key, t \in 0..MaxTime : announced'[key][t] > 0 => t <= now
    <3>1. \A t \in 0..MaxTime : row[t] > 0 => t <= now
      BY <2>2, <2>15 DEF HandlersTyped
    <3>2. \A key \in Key : announced'[key] = announced[key] \/ announced'[key] = row
      BY <2>13 DEF AlertsTypeOK
    <3> QED
      BY <3>1, <3>2 DEF HandlersTyped
  <2>10. UNCHANGED <<now, lastAlert, handled>>
    BY <1>4 DEF Announce
  <2>11. failing' \in 0..MaxBotFaults
    BY <1>4, AlertsAssumption DEF Announce, AlertsTypeOK
  <2>12. AlertsTypeOK'
    BY <2>3, <2>4, <2>8, <2>10, <2>11 DEF AlertsTypeOK, HandlerRecord
  <2> QED
    BY <2>1, <2>2, <2>3, <2>4, <2>9, <2>10, <2>12 DEF HandlersTyped, Claiming, NoHandler
<1>5. ASSUME NEW h \in Handlers, GiveBack(h) PROVE AlertsTypeOK' /\ HandlersTyped'
  <2>1. handler' = [handler EXCEPT ![h] = NoHandler] /\ UNCHANGED <<now, announced, handled, failing>>
    BY <1>5 DEF GiveBack, End
  <2>2. handler'[h] = NoHandler /\ ~Claiming(h)'
    BY <2>1 DEF HandlersTyped, Claiming, NoHandler
  <2>3. \A key \in Key : lastAlert'[key] = Never \/ lastAlert'[key] = lastAlert[key]
    BY <1>5 DEF GiveBack, Released, AlertsTypeOK
  <2>4. lastAlert' \in [Key -> {Never} \cup 0..MaxTime]
    BY <1>5 DEF GiveBack, Released, AlertsTypeOK
  <2>5. /\ \A g \in Handlers \ {h} : handler'[g] = handler[g]
        /\ handler' = [g \in Handlers |-> handler'[g]]
    BY <2>1 DEF HandlersTyped
  <2> QED
    BY <2>1, <2>2, <2>3, <2>4, <2>5 DEF AlertsTypeOK, HandlersTyped, Claiming
<1>6. ASSUME NEW h \in Handlers, NEW c \in AlertChats, NEW contained \in SUBSET Keywords, NEW t \in 0..now,
             Handle(h, c, contained, t)
      PROVE  AlertsTypeOK' /\ HandlersTyped'
  <2>1. MatchKeyword(contained) \in Keywords
    <3>1. contained \subseteq Nat /\ contained # {}
      BY <1>6, AlertsAssumption DEF Handle
    <3>2. MatchKeyword(contained) \in contained
      BY <3>1, LeastOfSet DEF MatchKeyword
    <3> QED
      BY <3>2
  <2> DEFINE r == [step |-> "settings", key |-> <<c, MatchKeyword(contained)>>, at |-> Never]
  <2>2. r \in HandlerRecord /\ r.step = "settings"
    BY <2>1 DEF HandlerRecord, HandlerSteps, Key
  <2> HIDE DEF r
  <2>3. handler' = [handler EXCEPT ![h] = r] /\ UNCHANGED <<now, lastAlert, announced, failing>>
    BY <1>6 DEF Handle, r
  <2>4. handled' \in 0..MaxAlerts /\ handled' > 0
    BY <1>6, AlertsAssumption DEF Handle, AlertsTypeOK
  <2>5. /\ handler'[h] = r /\ \A g \in Handlers \ {h} : handler'[g] = handler[g]
        /\ handler' = [g \in Handlers |-> handler'[g]]
    BY <2>3 DEF HandlersTyped
  <2> QED
    BY <2>2, <2>3, <2>4, <2>5 DEF AlertsTypeOK, HandlersTyped, Claiming, HandlerRecord
<1> QED
  BY <1>1, <1>2, <1>3, <1>4, <1>5, <1>6 DEF AlertsNext

\* A step after which no goroutine has a claim it had not before keeps the
\* claims apart and remembered.
LEMMA ClaimsKept ==
  ASSUME AlertsInv, UNCHANGED <<lastAlert, announced>>, now' \in {now, now + 1},
         \A h \in Handlers : Claiming(h)' =>
           Claiming(h) /\ handler'[h].key = handler[h].key /\ handler'[h].at = handler[h].at
  PROVE  ClaimsApart' /\ EntryCovers' /\ AlertsApart'
<1> USE DEF AlertsInv
<1>1. ClaimsApart'
  BY DEF ClaimsApart, Distant
<1>2. ASSUME NEW key \in Key, NEW t \in 0..MaxTime, Remembered(key, t) PROVE Remembered(key, t)'
  <2>1. now \in Nat /\ now' \in Nat /\ now <= now' /\ Cooldown \in Nat
    BY AlertsAssumption DEF AlertsTypeOK
  <2> QED
    BY <1>2, <2>1 DEF Remembered
<1>3. \A key \in Key, t \in 0..MaxTime : Counts(key, t)' => Counts(key, t)
  BY DEF Counts
<1>4. EntryCovers'
  BY <1>2, <1>3 DEF EntryCovers
<1> QED
  BY <1>1, <1>4 DEF AlertsApart

LEMMA AlertsApartStep ==
  ASSUME AlertsInv, AlertsNext
  PROVE  ClaimsApart' /\ EntryCovers' /\ AlertsApart'
<1> USE DEF AlertsInv
<1> DEFINE Goal == ClaimsApart' /\ EntryCovers' /\ AlertsApart'
<1>1. CASE Tick
  BY <1>1, ClaimsKept DEF Tick, Claiming
<1>2. ASSUME NEW h \in Handlers, ReadBot(h) PROVE Goal
  <2>1. ~Claiming(h)' /\ \A g \in Handlers \ {h} : handler'[g] = handler[g]
    <3>1. handler[h] \in HandlerRecord
      BY <1>2, BusyHandler DEF ReadBot
    <3>2. handler'[h] = NoHandler \/ handler'[h].step = "claim"
      BY <1>2, <3>1 DEF ReadBot, Continue, End, HandlersTyped, HandlerRecord
    <3>3. \A g \in Handlers \ {h} : handler'[g] = handler[g]
      BY <1>2 DEF ReadBot, Continue, End, HandlersTyped
    <3> QED
      BY <3>2, <3>3 DEF Claiming, NoHandler
  <2> QED
    BY <1>2, <2>1, ClaimsKept DEF ReadBot, Claiming
<1>3. ASSUME NEW h \in Handlers, Claim(h), Cooling(handler[h].key) PROVE Goal
  <2>1. ~Claiming(h)' /\ \A g \in Handlers \ {h} : handler'[g] = handler[g]
    BY <1>3 DEF Claim, End, Claiming, HandlersTyped, NoHandler
  <2> QED
    BY <1>3, <2>1, ClaimsKept DEF Claim, Claiming
<1>4. ASSUME NEW h \in Handlers, Claim(h), ~Cooling(handler[h].key) PROVE Goal
  <2> DEFINE key == handler[h].key
  <2>1. key \in Key /\ handler[h].step = "claim"
    BY <1>4, BusyHandler DEF Claim
  <2>2. handler' = [handler EXCEPT ![h] = [@ EXCEPT !.step = "send", !.at = now]]
    BY <1>4 DEF Claim, HandlersTyped
  <2>3. handler'[h] = [handler[h] EXCEPT !.step = "send", !.at = now]
    BY <2>2 DEF HandlersTyped
  <2>4. handler[h] \in HandlerRecord
    BY <1>4, BusyHandler DEF Claim
  <2>5. handler'[h].key = key /\ handler'[h].at = now
    BY <2>3, <2>4 DEF HandlerRecord
  <2>6. \A g \in Handlers \ {h} : handler'[g] = handler[g]
    BY <2>2 DEF HandlersTyped
  <2>7. /\ UNCHANGED <<now, announced>> /\ lastAlert' = [lastAlert EXCEPT ![key] = now]
    BY <1>4 DEF Claim
  <2>8. now \in Nat /\ lastAlert[key] \in Int
    BY <2>1, AlertsAssumption DEF AlertsTypeOK, Never
  <2>9. \A t \in 0..now : Remembered(key, t) => now - t >= Cooldown
    BY <1>4, <2>8, AlertsAssumption DEF Remembered, Cooling
  <2> HIDE DEF key
  <2>10. \A g \in Handlers \ {h} : Claiming(g) /\ handler[g].key = key => now - handler[g].at >= Cooldown
    BY <2>9, ClaimingHandler DEF EntryCovers, Counts
  <2>11. \A t \in 0..MaxTime : announced[key][t] > 0 => now - t >= Cooldown
    BY <2>1, <2>9, AlertsAssumption DEF EntryCovers, Counts, HandlersTyped
  <2>12. ClaimsApart'
    <3>1. ASSUME NEW g \in Handlers, Claiming(g)', NEW f \in Handlers \ {g}, Claiming(f)', handler'[f].key = handler'[g].key
          PROVE  Distant(handler'[f].at, handler'[g].at)
      <4>1. CASE g = h
        BY <3>1, <4>1, <2>5, <2>6, <2>10 DEF Claiming, Distant
      <4>2. CASE f = h
        BY <3>1, <4>2, <2>5, <2>6, <2>10 DEF Claiming, Distant
      <4>3. CASE g # h /\ f # h
        BY <3>1, <4>3, <2>6 DEF Claiming, ClaimsApart
      <4> QED
        BY <4>1, <4>2, <4>3
    <3>2. ASSUME NEW g \in Handlers, Claiming(g)', NEW t \in 0..MaxTime, announced'[handler'[g].key][t] > 0
          PROVE  Distant(t, handler'[g].at)
      <4>1. CASE g = h
        BY <3>2, <4>1, <2>5, <2>7, <2>11 DEF Distant
      <4>2. CASE g # h
        BY <3>2, <4>2, <2>6, <2>7 DEF Claiming, ClaimsApart
      <4> QED
        BY <4>1, <4>2
    <3> QED
      BY <3>1, <3>2 DEF ClaimsApart, Distant
  <2>13. EntryCovers'
    <3>1. \A k \in Key, t \in 0..now : Remembered(k, t) => Remembered(k, t)'
      BY <2>1, <2>7, <2>8 DEF Remembered, AlertsTypeOK, Never
    <3>2. \A k \in Key, t \in 0..MaxTime : Counts(k, t)' => Counts(k, t) \/ (k = key /\ t = now)
      BY <2>5, <2>6, <2>7 DEF Counts, Claiming
    <3>3. \A k \in Key, t \in 0..MaxTime : Counts(k, t) => t \in 0..now
      BY ClaimingHandler, AlertsAssumption DEF Counts, HandlersTyped
    <3>4. ASSUME NEW k \in Key, NEW t \in 0..MaxTime, Counts(k, t)' PROVE Remembered(k, t)'
      <4>1. CASE Counts(k, t)
        BY <4>1, <3>1, <3>3 DEF EntryCovers
      <4>2. CASE k = key /\ t = now
        BY <4>2, <2>1, <2>7, <2>8 DEF Remembered, AlertsTypeOK, Never
      <4> QED
        BY <3>2, <3>4, <4>1, <4>2
    <3> QED
      BY <3>4 DEF EntryCovers
  <2> QED
    BY <2>7, <2>12, <2>13 DEF AlertsApart
<1>5. ASSUME NEW h \in Handlers, Announce(h), announced' # announced PROVE Goal
  <2> DEFINE key == handler[h].key
             at == handler[h].at
  <2>1. Claiming(h)
    BY <1>5 DEF Announce, Claiming
  <2>2. key \in Key /\ at \in 0..MaxTime /\ at \in 0..now
    BY <2>1, ClaimingHandler
  <2>3. announced' = [announced EXCEPT ![key][at] = announced[key][at] + 1]
    BY <1>5 DEF Announce
  <2>4. UNCHANGED <<now, lastAlert>> /\ handler' = [handler EXCEPT ![h] = NoHandler]
    BY <1>5 DEF Announce, End
  <2>5. ~Claiming(h)' /\ \A g \in Handlers \ {h} : handler'[g] = handler[g]
    BY <2>4 DEF HandlersTyped, Claiming, NoHandler
  <2>6. announced[key][at] = 0
    <3>1. announced[key][at] \in Nat
      BY <2>2, AlertsAssumption DEF AlertsTypeOK
    <3>2. ~Distant(at, at)
      BY <2>2, AlertsAssumption DEF Distant
    <3> QED
      BY <2>1, <2>2, <3>1, <3>2 DEF ClaimsApart
  <2>7. \A k \in Key, t \in 0..MaxTime : announced'[k][t] = announced[k][t] \/ (k = key /\ t = at /\ announced'[k][t] = 1)
    <3>1. announced' = [announced EXCEPT ![key][at] = 1]
      BY <2>3, <2>6
    <3> DEFINE row == [announced[key] EXCEPT ![at] = 1]
    <3>2. announced' = [announced EXCEPT ![key] = row]
      BY <3>1
    <3>3. \A t \in 0..MaxTime : row[t] = announced[key][t] \/ (t = at /\ row[t] = 1)
      BY <2>2 DEF AlertsTypeOK
    <3> HIDE DEF row, key, at
    <3> QED
      BY <3>2, <3>3, <2>2 DEF AlertsTypeOK
  <2>8. \A t \in 0..MaxTime : announced[key][t] > 0 => Distant(t, at)
    BY <2>1 DEF ClaimsApart
  <2>9. \A g \in Handlers \ {h} : Claiming(g) /\ handler[g].key = key => Distant(at, handler[g].at)
    BY <2>1, ClaimingHandler DEF ClaimsApart, Distant
  <2>10. Counts(key, at)
    BY <2>1 DEF Counts
  <2> HIDE DEF key, at
  <2>11. ClaimsApart'
    <3>1. ASSUME NEW g \in Handlers, Claiming(g)' PROVE g # h /\ Claiming(g) /\ handler'[g] = handler[g] /\ handler[g].key \in Key
      BY <3>1, <2>5, ClaimingHandler DEF Claiming
    <3>2. ASSUME NEW g \in Handlers, Claiming(g)', NEW t \in 0..MaxTime, announced'[handler'[g].key][t] > 0
          PROVE  Distant(t, handler'[g].at)
      BY <3>1, <3>2, <2>7, <2>9 DEF ClaimsApart
    <3> QED
      BY <3>1, <3>2 DEF ClaimsApart, Distant
  <2>12. EntryCovers'
    <3>1. \A g \in Handlers : Claiming(g)' => Claiming(g) /\ handler'[g] = handler[g]
      BY <2>5 DEF Claiming
    <3>2. \A k \in Key, t \in 0..MaxTime : Counts(k, t)' => Counts(k, t)
      BY <2>7, <2>10, <3>1 DEF Counts
    <3>3. \A k \in Key, t \in 0..MaxTime : Remembered(k, t) => Remembered(k, t)'
      BY <2>4 DEF Remembered
    <3> QED
      BY <3>2, <3>3 DEF EntryCovers
  <2>13. AlertsApart'
    <3>1. ASSUME NEW k \in Key, NEW s \in 0..MaxTime, NEW t \in 0..MaxTime,
                 s < t, announced'[k][s] > 0, announced'[k][t] > 0
          PROVE  t - s >= Cooldown
      <4>1. CASE k = key /\ (s = at \/ t = at)
        BY <3>1, <4>1, <2>2, <2>7, <2>8, AlertsAssumption DEF Distant
      <4>2. CASE ~(k = key /\ (s = at \/ t = at))
        BY <3>1, <4>2, <2>7 DEF AlertsApart
      <4> QED
        BY <4>1, <4>2
    <3>2. \A k \in Key, t \in 0..MaxTime : announced'[k][t] <= 1
      BY <2>7 DEF AlertsApart
    <3> QED
      BY <3>1, <3>2 DEF AlertsApart
  <2> QED
    BY <2>11, <2>12, <2>13
<1>6. ASSUME NEW h \in Handlers, Announce(h), announced' = announced PROVE Goal
  <2>1. handler[h] \in HandlerRecord /\ Claiming(h)
    BY <1>6, BusyHandler DEF Announce, Claiming
  <2>2. /\ \A g \in Handlers \ {h} : handler'[g] = handler[g]
        /\ handler'[h] = NoHandler \/ (handler'[h].key = handler[h].key /\ handler'[h].at = handler[h].at)
    BY <1>6, <2>1 DEF Announce, Continue, End, HandlersTyped, HandlerRecord
  <2> QED
    BY <1>6, <2>1, <2>2, ClaimsKept DEF Announce, Claiming, NoHandler
<1>7. ASSUME NEW h \in Handlers, GiveBack(h) PROVE Goal
  <2> DEFINE key == handler[h].key
             at == handler[h].at
  <2>1. Claiming(h)
    BY <1>7 DEF GiveBack, Claiming
  <2>2. key \in Key /\ at \in 0..MaxTime /\ at \in 0..now /\ at # Never
    BY <2>1, ClaimingHandler
  <2>3. UNCHANGED <<now, announced>> /\ handler' = [handler EXCEPT ![h] = NoHandler]
    BY <1>7 DEF GiveBack, End
  <2>4. ~Claiming(h)' /\ \A g \in Handlers \ {h} : handler'[g] = handler[g]
    BY <2>3 DEF HandlersTyped, Claiming, NoHandler
  <2>5. \/ lastAlert' = lastAlert
        \/ lastAlert[key] = at /\ lastAlert' = [lastAlert EXCEPT ![key] = Never]
    BY <1>7 DEF GiveBack, Released
  <2>6. \A t \in 0..now : Remembered(key, t) /\ Distant(t, at) /\ lastAlert[key] = at => now - t >= Cooldown
    BY <2>2, AlertsAssumption DEF Remembered, Distant, AlertsTypeOK
  <2>7. \A t \in 0..MaxTime : announced[key][t] > 0 => Distant(t, at)
    BY <2>1 DEF ClaimsApart
  <2>8. \A g \in Handlers \ {h} : Claiming(g) /\ handler[g].key = key => Distant(handler[g].at, at)
    BY <2>1 DEF ClaimsApart
  <2> HIDE DEF key, at
  <2>9. \A g \in Handlers : Claiming(g)' => g # h /\ Claiming(g) /\ handler'[g] = handler[g]
    BY <2>4 DEF Claiming
  <2>10. ClaimsApart'
    BY <2>3, <2>9 DEF ClaimsApart, Distant
  <2>11. ASSUME NEW k \in Key, NEW t \in 0..now, Remembered(k, t), k = key => Distant(t, at)
         PROVE  Remembered(k, t)'
    <3>1. CASE lastAlert' = lastAlert
      BY <3>1, <2>11, <2>3 DEF Remembered
    <3>2. CASE lastAlert[key] = at /\ lastAlert' = [lastAlert EXCEPT ![key] = Never]
      <4>1. CASE k = key
        BY <3>2, <4>1, <2>3, <2>6, <2>11 DEF Remembered
      <4>2. CASE k # key
        BY <3>2, <4>2, <2>3, <2>11 DEF Remembered, AlertsTypeOK
      <4> QED
        BY <4>1, <4>2
    <3> QED
      BY <2>5, <3>1, <3>2
  <2>12. EntryCovers'
    <3>1. \A k \in Key, t \in 0..MaxTime : Counts(k, t)' => Counts(k, t) /\ (k = key => Distant(t, at))
      BY <2>3, <2>7, <2>8, <2>9 DEF Counts
    <3>2. \A k \in Key, t \in 0..MaxTime : Counts(k, t) => t \in 0..now
      BY ClaimingHandler, AlertsAssumption DEF Counts, HandlersTyped
    <3> QED
      BY <3>1, <3>2, <2>11 DEF EntryCovers
  <2> QED
    BY <2>3, <2>10, <2>12 DEF AlertsApart
<1>8. ASSUME NEW h \in Handlers, NEW c \in AlertChats, NEW contained \in SUBSET Keywords, NEW t \in 0..now,
             Handle(h, c, contained, t)
      PROVE  Goal
  <2>1. ~Claiming(h)' /\ \A g \in Handlers \ {h} : handler'[g] = handler[g]
    BY <1>8 DEF Handle, Claiming, HandlersTyped
  <2> QED
    BY <1>8, <2>1, ClaimsKept DEF Handle, Claiming
<1> QED
  BY <1>1, <1>2, <1>3, <1>4, <1>5, <1>6, <1>7, <1>8 DEF AlertsNext

LEMMA AlertsInvStep == AlertsInv /\ [AlertsNext]_alertVars => AlertsInv'
<1> SUFFICES ASSUME AlertsInv, [AlertsNext]_alertVars PROVE AlertsInv'
  OBVIOUS
<1>1. CASE AlertsNext
  BY <1>1, AlertsTypeStep, AlertsApartStep DEF AlertsInv
<1>2. CASE UNCHANGED alertVars
  BY <1>2 DEF alertVars, AlertsInv, AlertsTypeOK, HandlersTyped, ClaimsApart, EntryCovers, AlertsApart,
     Claiming, Counts, Remembered, Distant
<1> QED
  BY <1>1, <1>2

\* The alerts of a chat and a keyword that were delivered have been claimed at
\* least the cooldown apart, for any number of chats, keywords, goroutines,
\* messages and failing calls (claim and release).
THEOREM AlertsKeepApart == AlertsSpec => []AlertsApart
<1>1. AlertsInv => AlertsApart
  BY DEF AlertsInv
<1> QED
  BY <1>1, AlertsInitInv, AlertsInvStep, PTL DEF AlertsSpec
-----------------------------------------------------------------------------
(* FailureNotices                                                           *)

\* An attempt under way is one for a notice that has not been delivered; its
\* message is not counted before it is sent.
AttemptOpen ==
  /\ notify \in {"send", "sent", "unsent"} => ~notice.delivered
  /\ notify = "send" => messages < notice.attempts
  /\ messages <= notice.attempts

\* Every message but one has cost a fault: as long as no delivery has been
\* confirmed, every message.
FaultPerMessage ==
  /\ messages <= 1 + troubles.faults
  /\ ~notice.delivered /\ notify # "sent" => messages <= troubles.faults

NoticesInv == NoticesTypeOK /\ AttemptOpen /\ FaultPerMessage

LEMMA NoticesInitInv == NoticesInit => NoticesInv
BY NoticesAssumption
DEF NoticesInit, NoticesInv, NoticesTypeOK, AttemptOpen, FaultPerMessage, NoNotice, NotifySteps

LEMMA NoticesInvStep == NoticesInv /\ [NoticesNext]_noticeVars => NoticesInv'
<1> SUFFICES ASSUME NoticesInv, [NoticesNext]_noticeVars PROVE NoticesInv'
  OBVIOUS
<1> USE NoticesAssumption DEF NoticesInv, NoticesTypeOK, AttemptOpen, FaultPerMessage, NotifySteps, Proceeds
<1>1. CASE ReadStates
  BY <1>1 DEF ReadStates
<1>2. CASE QueueNotice
  <2>1. /\ notice' \in [stored : BOOLEAN, attempts : 0..MaxAttempts, due : BOOLEAN, delivered : BOOLEAN]
        /\ notice'.attempts = notice.attempts /\ notice'.delivered = notice.delivered
    BY <1>2 DEF QueueNotice
  <2> QED
    BY <1>2, <2>1 DEF QueueNotice
<1>3. CASE ClaimNotice
  <2>1. CASE Claimable
    <3>1. /\ notice' \in [stored : BOOLEAN, attempts : 0..MaxAttempts, due : BOOLEAN, delivered : BOOLEAN]
          /\ notice'.attempts = notice.attempts + 1 /\ notice'.delivered = notice.delivered
      <4>1. notice' = [notice EXCEPT !.attempts = @ + 1, !.due = FALSE]
        BY <1>3, <2>1 DEF ClaimNotice
      <4>2. notice.attempts + 1 \in 0..MaxAttempts
        BY <2>1 DEF Claimable
      <4> QED
        BY <4>1, <4>2
    <3>2. ~notice.delivered
      BY <2>1 DEF Claimable
    <3> QED
      BY <1>3, <2>1, <3>1, <3>2 DEF ClaimNotice
  <2>2. CASE ~Claimable
    BY <1>3, <2>2 DEF ClaimNotice
  <2> QED
    BY <2>1, <2>2
<1>4. CASE SendNotice
  <2>1. UNCHANGED <<state, recovering, notice, botOn>> /\ notify = "send"
    BY <1>4 DEF SendNotice
  <2>2. \/ messages' = messages + 1 /\ notify' = "sent" /\ UNCHANGED troubles
        \/ /\ messages' \in {messages, messages + 1} /\ notify' = "unsent"
           /\ troubles' \in [reruns : 0..MaxReruns, faults : 0..MaxNoticeFaults]
           /\ troubles'.faults = troubles.faults + 1
    BY <1>4 DEF SendNotice, NoticeFault
  <2>3. notice.attempts \in 0..MaxAttempts
    OBVIOUS
  <2> QED
    BY <2>1, <2>2, <2>3
<1>5. CASE FinishNotice
  <2>1. /\ notice' \in [stored : BOOLEAN, attempts : 0..MaxAttempts, due : BOOLEAN, delivered : BOOLEAN]
        /\ notice'.attempts = notice.attempts /\ notice'.delivered = (notify = "sent")
    BY <1>5 DEF FinishNotice
  <2> QED
    BY <1>5, <2>1 DEF FinishNotice
<1>6. CASE NotifyFails
  <2>1. /\ troubles' \in [reruns : 0..MaxReruns, faults : 0..MaxNoticeFaults]
        /\ troubles'.faults = troubles.faults + 1
    BY <1>6 DEF NotifyFails, NoticeFault
  <2> QED
    BY <1>6, <2>1 DEF NotifyFails
<1>7. CASE LeaseEnds
  <2>1. /\ notice' \in [stored : BOOLEAN, attempts : 0..MaxAttempts, due : BOOLEAN, delivered : BOOLEAN]
        /\ notice'.attempts = notice.attempts /\ notice'.delivered = notice.delivered
    BY <1>7 DEF LeaseEnds
  <2> QED
    BY <1>7, <2>1 DEF LeaseEnds
<1>8. CASE QueueRecovery \/ SwitchBot
  <2>1. /\ troubles' \in [reruns : 0..MaxReruns, faults : 0..MaxNoticeFaults]
        /\ troubles'.faults = troubles.faults
    BY <1>8 DEF QueueRecovery, SwitchBot, Again
  <2> QED
    BY <1>8, <2>1 DEF QueueRecovery, SwitchBot
<1>9. ASSUME NEW p \in Parts, PartEnds(p) \/ Rerun(p) \/ Recover(p) PROVE NoticesInv'
  <2>1. /\ troubles' \in [reruns : 0..MaxReruns, faults : 0..MaxNoticeFaults]
        /\ troubles'.faults = troubles.faults
    BY <1>9 DEF PartEnds, Rerun, Recover, Again
  <2>2. UNCHANGED <<notice, botOn, notify, messages>>
    BY <1>9 DEF PartEnds, Rerun, Recover
  <2>3. state' \in [Parts -> {"waiting", "failed", "succeeded"}] /\ recovering' \subseteq Parts
    BY <1>9 DEF PartEnds, Rerun, Recover
  <2> QED
    BY <2>1, <2>2, <2>3
<1>10. CASE UNCHANGED noticeVars
  BY <1>10 DEF noticeVars
<1> QED
  BY <1>1, <1>2, <1>3, <1>4, <1>5, <1>6, <1>7, <1>8, <1>9, <1>10 DEF NoticesNext, Notify

\* The notice about a date goes out once, except for an attempt that failed,
\* lost its answer or was not recorded, for any number of parts, attempts,
\* reruns and faults (ClaimFailureNotice, FinishFailureNotice).
THEOREM NoticeOnce == NoticesSpec => []OneNotice
<1>1. NoticesInv => OneNotice
  BY DEF NoticesInv, FaultPerMessage, OneNotice
<1> QED
  BY <1>1, NoticesInitInv, NoticesInvStep, PTL DEF NoticesSpec
-----------------------------------------------------------------------------
(* LocalLogin                                                               *)

\* The versions and passwords in use have been given out.
Issued(c) == c.version <= passwords /\ c.password <= passwords

CredentialsIssued ==
  /\ Issued(stored)
  /\ stored.version = 0 \/ stored.password = 0 => stored = NoSession
  /\ \A u \in Browsers : Issued(session[u]) /\ Issued(visit[u].read)

\* As long as no two set-ups or changes were under way together: one client
\* writes, and what it has read is what is stored ...
OneWriter ==
  /\ \A u, w \in Browsers : Writing(u) /\ Writing(w) => u = w
  /\ \A u \in Browsers :
       /\ visit[u].step = "save" => stored = NoSession
       /\ visit[u].step = "change" => visit[u].read = stored

\* ... so that whoever holds the version that is stored, holds it for the
\* password that is stored, and a version to come is held by nobody.
Follows(c) == c.version <= stored.version /\ (c.version = stored.version => c = stored)

VersionsFollow == \A u \in Browsers : Follows(session[u]) /\ Follows(visit[u].read)

Apart == ~together => OneWriter /\ VersionsFollow

LoginInv == LoginTypeOK /\ CredentialsIssued /\ Apart

Visit == [step : {"idle"} \cup LoginSteps \cup SetupSteps \cup ChangeSteps \cup UseSteps, read : Credential]

LEMMA LoginInitInv == LoginInit => LoginInv
<1> SUFFICES ASSUME LoginInit PROVE LoginInv
  OBVIOUS
<1>1. NoSession \in Credential /\ NoSession.version = 0 /\ NoSession.password = 0
  BY LocalLoginAssumption DEF NoSession, Credential
<1>2. \A u \in Browsers : visit[u] = NoVisit /\ session[u] = NoSession
  BY DEF LoginInit
<1>3. NoVisit.step = "idle" /\ NoVisit.read = NoSession
  BY DEF NoVisit
<1>4. LoginTypeOK
  <2>1. NoVisit \in Visit
    BY <1>1 DEF NoVisit, Visit
  <2>2. session \in [Browsers -> Credential] /\ visit \in [Browsers -> Visit]
    BY <1>1, <2>1 DEF LoginInit
  <2> QED
    <3>1. stored \in Credential /\ locked \in BOOLEAN /\ together \in BOOLEAN
      BY <1>1 DEF LoginInit
    <3>2. failures \in 0..(MaxFailedLogins - 1) /\ passwords \in 0..MaxPasswords /\ broken \in 0..MaxRequestFaults
      BY LocalLoginAssumption DEF LoginInit
    <3> QED
      BY <2>2, <3>1, <3>2 DEF LoginTypeOK, Visit
<1>5. CredentialsIssued
  BY <1>1, <1>2, <1>3 DEF LoginInit, CredentialsIssued, Issued
<1>6. Apart
  BY <1>1, <1>2, <1>3 DEF LoginInit, Apart, OneWriter, VersionsFollow, Follows, Writing, SetupSteps, ChangeSteps
<1> QED
  BY <1>4, <1>5, <1>6 DEF LoginInv

\* A step of one client that stores no password, and leaves it and its cookie
\* with credentials that were there before.
Harmless(u) ==
  /\ UNCHANGED <<stored, passwords>>
  /\ \A w \in Browsers \ {u} : visit'[w] = visit[w]
  /\ visit' \in [Browsers -> Visit] /\ session' \in [Browsers -> Credential]
  /\ visit'[u].read \in {NoSession, stored, session[u], visit[u].read}
  /\ \A w \in Browsers : session'[w] \in {NoSession, session[w], visit[w].read}
  /\ (visit'[u].step = "save" => stored = NoSession) /\ (visit'[u].step = "change" => visit'[u].read = stored)
  /\ \/ Writing(u)' => Writing(u)
     \/ together' = (together \/ \E w \in Browsers \ {u} : Writing(w))
  /\ together => together'

LEMMA HarmlessStep ==
  ASSUME LoginInv, NEW u \in Browsers, Harmless(u)
  PROVE  CredentialsIssued' /\ Apart'
<1> USE DEF LoginInv
<1>1. NoSession \in Credential /\ NoSession.version = 0 /\ NoSession.password = 0
  BY LocalLoginAssumption DEF NoSession, Credential
<1>2. stored \in Credential /\ passwords \in Nat /\ stored.version \in Nat
  BY LocalLoginAssumption DEF LoginTypeOK, Credential
<1>3. CredentialsIssued'
  <2>1. Issued(NoSession) /\ Issued(stored)
    BY <1>1, <1>2 DEF CredentialsIssued, Issued
  <2>2. \A w \in Browsers : Issued(session'[w]) /\ Issued(visit'[w].read)
    BY <2>1 DEF CredentialsIssued, Harmless
  <2> QED
    BY <2>1, <2>2 DEF CredentialsIssued, Issued, Harmless
<1>4. ASSUME ~together' PROVE OneWriter' /\ VersionsFollow'
  <2>1. ~together /\ OneWriter /\ VersionsFollow
    BY <1>4 DEF Harmless, Apart
  <2>2. Follows(stored)
    BY <1>2 DEF Follows
  <2>3. Follows(NoSession)
    BY <1>1, <1>2 DEF Follows, CredentialsIssued
  <2>4. VersionsFollow'
    <3>1. \A w \in Browsers : Follows(session'[w]) /\ Follows(visit'[w].read)
      BY <2>1, <2>2, <2>3 DEF Harmless, VersionsFollow
    <3> QED
      BY <3>1 DEF VersionsFollow, Follows, Harmless
  <2>5. \A w \in Browsers \ {u} : Writing(w)' <=> Writing(w)
    BY DEF Harmless, Writing
  <2>6. Writing(u)' => \A w \in Browsers \ {u} : ~Writing(w)
    BY <1>4, <2>1 DEF Harmless, OneWriter
  <2>7. OneWriter'
    <3>1. \A v, w \in Browsers : Writing(v)' /\ Writing(w)' => v = w
      BY <2>1, <2>5, <2>6 DEF OneWriter
    <3> QED
      BY <2>1, <3>1 DEF OneWriter, Harmless
  <2> QED
    BY <2>4, <2>7
<1> QED
  BY <1>3, <1>4 DEF Apart

LEMMA LoginTypeStep ==
  ASSUME LoginInv, LoginNext
  PROVE  LoginTypeOK'
<1> USE DEF LoginInv
<1>1. NoSession \in Credential
  BY LocalLoginAssumption DEF NoSession, Credential
<1>2. NoVisit \in Visit
  BY <1>1 DEF NoVisit, Visit
<1>3. visit \in [Browsers -> Visit] /\ session \in [Browsers -> Credential]
  BY DEF LoginTypeOK, Visit
<1>4. \A c \in Credential, next \in LoginSteps \cup SetupSteps \cup ChangeSteps \cup UseSteps :
        [step |-> next, read |-> c] \in Visit
  BY DEF Visit
<1>5. ASSUME NEW u \in Browsers, NEW next \in LoginSteps \cup SetupSteps \cup ChangeSteps \cup UseSteps,
             Proceed(u, next)
      PROVE  visit' \in [Browsers -> Visit]
  <2>1. [visit[u] EXCEPT !.step = next] \in Visit
    BY <1>3 DEF Visit
  <2> QED
    BY <1>3, <1>5, <2>1 DEF Proceed
<1>6. ASSUME NEW u \in Browsers, NEW next \in LoginSteps \cup SetupSteps \cup ChangeSteps \cup UseSteps,
             NEW c \in Credential, ProceedWith(u, next, c)
      PROVE  visit' \in [Browsers -> Visit]
  BY <1>3, <1>4, <1>6 DEF ProceedWith
<1>7. ASSUME NEW u \in Browsers, Respond(u) PROVE visit' \in [Browsers -> Visit]
  BY <1>2, <1>3, <1>7 DEF Respond
<1>8. stored \in Credential /\ \A u \in Browsers : session[u] \in Credential /\ visit[u].read \in Credential
  BY DEF LoginTypeOK
<1> DEFINE Kept == UNCHANGED <<stored, session, failures, locked, passwords, together, broken>>
<1> DEFINE NewVisit == visit' \in [Browsers -> Visit]
<1>9. Kept /\ NewVisit => LoginTypeOK'
  BY DEF LoginTypeOK, Visit
<1> USE DEF LoginSteps, SetupSteps, ChangeSteps, UseSteps
<1>10. ASSUME NEW u \in Browsers, BeginLogin(u) \/ BeforeLogin(u) \/ Lookup(u) \/ Answer(u) PROVE LoginTypeOK'
  <2>1. Kept
    BY <1>10 DEF BeginLogin, BeforeLogin, Lookup, Answer
  <2>2. \/ ProceedWith(u, "attempt", stored) \/ ProceedWith(u, "check", session[u])
        \/ Proceed(u, "compare") \/ Respond(u)
    BY <1>10 DEF BeginLogin, BeforeLogin, Lookup, Answer
  <2>3. NewVisit
    BY <2>2, <1>5, <1>6, <1>7, <1>8
  <2> QED
    BY <2>1, <2>3, <1>9
<1>11. ASSUME NEW u \in Browsers, WrongPassword(u) \/ RightPassword(u) PROVE LoginTypeOK'
  <2>1. NewVisit
    BY <1>11, <1>5, <1>7 DEF WrongPassword, RightPassword
  <2>2. failures' \in 0..(MaxFailedLogins - 1)
    <3>1. failures + 1 \in Nat /\ MaxFailedLogins \in Nat \ {0}
      BY LocalLoginAssumption DEF LoginTypeOK
    <3>2. (failures + 1) % MaxFailedLogins \in 0..(MaxFailedLogins - 1)
      BY <3>1
    <3> QED
      BY <1>11, <3>1, <3>2 DEF WrongPassword, RightPassword
  <2>3. locked' \in BOOLEAN
    BY <1>11 DEF WrongPassword, RightPassword, LoginTypeOK
  <2>4. UNCHANGED <<stored, session, passwords, together, broken>>
    BY <1>11 DEF WrongPassword, RightPassword
  <2> QED
    BY <2>1, <2>2, <2>3, <2>4 DEF LoginTypeOK, Visit
<1>12. ASSUME NEW u \in Browsers, Purge(u) \/ CreateSession(u) \/ DeleteOwn(u) \/ Check(u) \/ SignOut(u)
       PROVE LoginTypeOK'
  <2>1. NewVisit
    BY <1>12, <1>3, <1>5, <1>7 DEF Purge, CreateSession, DeleteOwn, Check, SignOut
  <2>2. session' \in [Browsers -> Credential]
    <3>1. \A v : Matching(v) \in [Browsers -> Credential]
      BY <1>1, <1>3 DEF Matching
    <3>2. CASE Purge(u)
      BY <3>1, <3>2 DEF Purge
    <3>3. CASE CreateSession(u) \/ DeleteOwn(u) \/ Check(u) \/ SignOut(u)
      BY <1>1, <1>3, <1>8, <3>3 DEF CreateSession, DeleteOwn, Check, SignOut
    <3> QED
      BY <1>12, <3>2, <3>3
  <2>3. UNCHANGED <<stored, failures, locked, passwords, together, broken>>
    BY <1>12 DEF Purge, CreateSession, DeleteOwn, Check, SignOut
  <2> QED
    BY <2>1, <2>2, <2>3 DEF LoginTypeOK, Visit
<1>13. ASSUME NEW u \in Browsers, BeginSetup(u) \/ BeginChange(u) PROVE LoginTypeOK'
  <2>1. NewVisit
    BY <1>13, <1>1, <1>6, <1>7, <1>8 DEF BeginSetup, BeginChange
  <2>2. together' \in BOOLEAN
    BY <1>13 DEF BeginSetup, BeginChange, Together, LoginTypeOK
  <2>3. UNCHANGED <<stored, session, failures, locked, passwords, broken>>
    BY <1>13 DEF BeginSetup, BeginChange
  <2> QED
    BY <2>1, <2>2, <2>3 DEF LoginTypeOK, Visit
<1>14. ASSUME NEW u \in Browsers, SaveSetup(u) \/ SaveChange(u) PROVE LoginTypeOK'
  <2>1. passwords' = passwords + 1 /\ passwords + 1 \in 0..MaxPasswords /\ 1 \in 0..MaxPasswords
    BY <1>14, LocalLoginAssumption DEF SaveSetup, SaveChange, LoginTypeOK
  <2>2. [version |-> 1, password |-> passwords + 1] \in Credential
    BY <2>1 DEF Credential
  <2>3. [version |-> NextVersion(visit[u].read.version), password |-> passwords + 1] \in Credential
    <3>1. visit[u].read.version \in Nat /\ visit[u].read.version <= passwords
      BY <1>8 DEF Credential, CredentialsIssued, Issued
    <3> QED
      BY <2>1, <3>1, LocalLoginAssumption DEF Credential, NextVersion, LoginTypeOK
  <2>4. stored' \in Credential /\ NewVisit
    <3>1. CASE SaveSetup(u)
      BY <3>1, <2>2, <1>6, <1>8 DEF SaveSetup
    <3>2. CASE SaveChange(u)
      BY <3>2, <2>3, <1>6 DEF SaveChange
    <3> QED
      BY <1>14, <3>1, <3>2
  <2>5. UNCHANGED <<session, failures, locked, together, broken>>
    BY <1>14 DEF SaveSetup, SaveChange
  <2> QED
    BY <2>1, <2>4, <2>5 DEF LoginTypeOK, Visit
<1>15. ASSUME NEW u \in Browsers, BreakOff(u) PROVE LoginTypeOK'
  <2>1. NewVisit
    BY <1>15, <1>7 DEF BreakOff
  <2> QED
    BY <1>15, <2>1, LocalLoginAssumption DEF BreakOff, LoginTypeOK, Visit
<1>16. CASE Unlock
  BY <1>16 DEF Unlock, LoginTypeOK
<1> QED
  BY <1>10, <1>11, <1>12, <1>13, <1>14, <1>15, <1>16 DEF LoginNext

LEMMA LoginVersionsStep ==
  ASSUME LoginInv, LoginNext, LoginTypeOK'
  PROVE  CredentialsIssued' /\ Apart'
<1> USE DEF LoginInv
<1> DEFINE Goal == CredentialsIssued' /\ Apart'
<1>1. visit' \in [Browsers -> Visit] /\ session' \in [Browsers -> Credential] /\ visit \in [Browsers -> Visit]
  BY DEF LoginTypeOK, Visit
<1>2. \A u \in Browsers : session[u] \in Credential /\ visit[u].read \in Credential /\ session \in [Browsers -> Credential]
  BY DEF LoginTypeOK
<1> USE DEF LoginSteps, SetupSteps, ChangeSteps, UseSteps
<1>3. ASSUME NEW u \in Browsers, NEW next, Proceed(u, next)
      PROVE  /\ \A w \in Browsers \ {u} : visit'[w] = visit[w]
             /\ visit'[u].step = next /\ visit'[u].read = visit[u].read
  BY <1>1, <1>3 DEF Proceed, Visit
<1>4. ASSUME NEW u \in Browsers, NEW next, NEW c, ProceedWith(u, next, c)
      PROVE  /\ \A w \in Browsers \ {u} : visit'[w] = visit[w]
             /\ visit'[u].step = next /\ visit'[u].read = c
  BY <1>1, <1>4 DEF ProceedWith
<1>5. ASSUME NEW u \in Browsers, Respond(u)
      PROVE  /\ \A w \in Browsers \ {u} : visit'[w] = visit[w]
             /\ visit'[u].step = "idle" /\ visit'[u].read = NoSession
  BY <1>1, <1>5 DEF Respond, NoVisit
<1>6. ASSUME NEW u \in Browsers, BeginLogin(u) \/ BeforeLogin(u) \/ Lookup(u) \/ Answer(u) PROVE Goal
  <2>1. \/ ProceedWith(u, "attempt", stored) \/ ProceedWith(u, "check", session[u])
        \/ Proceed(u, "compare") \/ Respond(u)
    BY <1>6 DEF BeginLogin, BeforeLogin, Lookup, Answer
  <2>2. UNCHANGED <<stored, session, passwords, together>>
    BY <1>6 DEF BeginLogin, BeforeLogin, Lookup, Answer
  <2>3. Harmless(u)
    BY <1>1, <1>3, <1>4, <1>5, <2>1, <2>2 DEF Harmless, Writing
  <2> QED
    BY <2>3, HarmlessStep
<1>7. ASSUME NEW u \in Browsers, WrongPassword(u) \/ RightPassword(u) \/ BreakOff(u) PROVE Goal
  <2>1. Proceed(u, "purge") \/ Respond(u)
    BY <1>7 DEF WrongPassword, RightPassword, BreakOff
  <2>2. UNCHANGED <<stored, session, passwords, together>>
    BY <1>7 DEF WrongPassword, RightPassword, BreakOff
  <2>3. Harmless(u)
    BY <1>1, <1>3, <1>5, <2>1, <2>2 DEF Harmless, Writing
  <2> QED
    BY <2>3, HarmlessStep
<1>8. ASSUME NEW u \in Browsers, Purge(u) \/ CreateSession(u) \/ DeleteOwn(u) \/ Check(u) \/ SignOut(u) PROVE Goal
  <2>1. \A w \in Browsers : session'[w] \in {NoSession, session[w], visit[w].read}
    <3>1. CASE Purge(u)
      BY <3>1, <1>2 DEF Purge, Matching
    <3>2. CASE CreateSession(u) \/ DeleteOwn(u) \/ Check(u) \/ SignOut(u)
      BY <3>2, <1>2 DEF CreateSession, DeleteOwn, Check, SignOut
    <3> QED
      BY <1>8, <3>1, <3>2
  <2>2. UNCHANGED <<stored, passwords, together>>
    BY <1>8 DEF Purge, CreateSession, DeleteOwn, Check, SignOut
  <2>3. \/ Proceed(u, "create") \/ Proceed(u, "admitted") \/ Respond(u)
        \/ visit' = visit /\ visit[u].step = "idle"
        \/ Proceed(u, "deleteOwn") /\ visit[u].step = "purgeChanged"
    <3>1. CASE Purge(u)
      BY <3>1 DEF Purge
    <3>2. CASE CreateSession(u) \/ DeleteOwn(u)
      BY <3>2 DEF CreateSession, DeleteOwn
    <3>3. CASE Check(u) \/ SignOut(u)
      BY <3>3 DEF Check, SignOut
    <3> QED
      BY <1>8, <3>1, <3>2, <3>3
  <2>4. Harmless(u)
    BY <1>1, <1>3, <1>5, <2>1, <2>2, <2>3 DEF Harmless, Writing
  <2> QED
    BY <2>4, HarmlessStep
<1>9. ASSUME NEW u \in Browsers, BeginSetup(u) PROVE Goal
  <2>1. stored = NoSession
    BY <1>9 DEF BeginSetup, Configured, CredentialsIssued
  <2>2. ProceedWith(u, "save", NoSession) /\ UNCHANGED <<stored, session, passwords>>
    BY <1>9 DEF BeginSetup
  <2>3. together' = (together \/ \E w \in Browsers \ {u} : Writing(w))
    BY <1>9 DEF BeginSetup, Together
  <2>4. Harmless(u)
    BY <1>1, <1>4, <2>1, <2>2, <2>3 DEF Harmless
  <2> QED
    BY <2>4, HarmlessStep
<1>10. ASSUME NEW u \in Browsers, BeginChange(u) PROVE Goal
  <2>1. ProceedWith(u, "change", stored) \/ Respond(u)
    BY <1>10 DEF BeginChange
  <2>2. together' = (together \/ \E w \in Browsers \ {u} : Writing(w)) /\ UNCHANGED <<stored, session, passwords>>
    BY <1>10 DEF BeginChange, Together
  <2>3. Harmless(u)
    <3>1. \A w \in Browsers \ {u} : visit'[w] = visit[w]
      BY <1>4, <1>5, <2>1
    <3>2. \/ visit'[u].step = "change" /\ visit'[u].read = stored
          \/ visit'[u].step = "idle" /\ visit'[u].read = NoSession
      BY <1>4, <1>5, <2>1
    <3> QED
      BY <1>1, <2>2, <3>1, <3>2 DEF Harmless
  <2> QED
    BY <2>3, HarmlessStep
<1>11. ASSUME NEW u \in Browsers, NEW new \in Credential,
              stored' = new \/ (stored' = stored /\ Configured /\ SaveSetup(u)),
              SaveSetup(u) \/ SaveChange(u),
              ~together => stored' = new /\ new.version > stored.version,
              new.version \in 1..(passwords + 1), new.password = passwords + 1,
              passwords' = passwords + 1, UNCHANGED <<session, together>>,
              ProceedWith(u, "create", new) \/ ProceedWith(u, "purgeChanged", new)
       PROVE  Goal
  <2>1. /\ \A w \in Browsers \ {u} : visit'[w] = visit[w]
        /\ visit'[u].step \in {"create", "purgeChanged"} /\ visit'[u].read = new
    BY <1>4, <1>11
  <2>2. passwords \in Nat /\ stored \in Credential /\ stored.version \in Nat
    BY LocalLoginAssumption DEF LoginTypeOK, Credential
  <2>3. new.version \in Nat /\ new.version # 0 /\ new.password # 0
        /\ new.version <= passwords + 1 /\ new.password <= passwords + 1
    BY <1>11, <2>2
  <2>4. \A c \in Credential : c.version \in Nat /\ c.password \in Nat
    BY LocalLoginAssumption DEF Credential
  <2>5. CredentialsIssued'
    <3>1. \A c \in Credential : Issued(c) => c.version <= passwords + 1 /\ c.password <= passwords + 1
      BY <2>2, <2>4 DEF Issued
    <3>2. stored'.version <= passwords + 1 /\ stored'.password <= passwords + 1
      BY <1>11, <2>2, <2>3, <3>1 DEF CredentialsIssued
    <3>3. stored'.version = 0 \/ stored'.password = 0 => stored' = NoSession
      BY <1>11, <2>3 DEF CredentialsIssued
    <3>4. \A w \in Browsers : /\ session[w].version <= passwords + 1 /\ session[w].password <= passwords + 1
                              /\ visit'[w].read.version <= passwords + 1 /\ visit'[w].read.password <= passwords + 1
      BY <1>2, <2>1, <2>3, <3>1 DEF CredentialsIssued
    <3> QED
      BY <1>11, <3>2, <3>3, <3>4 DEF CredentialsIssued, Issued
  <2>6. ASSUME ~together' PROVE OneWriter' /\ VersionsFollow'
    <3>1. ~together /\ OneWriter /\ VersionsFollow /\ stored' = new /\ new.version > stored.version
      BY <1>11, <2>6 DEF Apart
    <3>2. Writing(u)
      BY <1>11 DEF SaveSetup, SaveChange, Writing
    <3>3. \A w \in Browsers \ {u} : ~Writing(w) /\ visit'[w] = visit[w]
      BY <2>1, <3>1, <3>2 DEF OneWriter
    <3>4. OneWriter'
      <4>1. \A w \in Browsers : Writing(w)' => w = u
        BY <3>3 DEF Writing
      <4>2. \A w \in Browsers : visit'[w].step # "save" /\ visit'[w].step # "change"
        BY <2>1, <3>3 DEF Writing
      <4> QED
        BY <4>1, <4>2 DEF OneWriter
    <3>5. \A c \in Credential : Follows(c) => c.version < new.version
      BY <2>2, <2>3, <2>4, <3>1 DEF Follows
    <3>6. \A w \in Browsers : session[w].version < new.version
      BY <1>2, <3>1, <3>5 DEF VersionsFollow
    <3>7. \A w \in Browsers : visit'[w].read = new \/ visit'[w].read.version < new.version
      BY <1>2, <2>1, <3>1, <3>5 DEF VersionsFollow
    <3>8. \A w \in Browsers : session[w].version \in Nat /\ visit'[w].read.version \in Nat
      BY <1>2, <2>1, <2>3, <2>4
    <3> QED
      BY <1>11, <2>3, <3>1, <3>4, <3>6, <3>7, <3>8 DEF VersionsFollow, Follows
  <2> QED
    BY <2>5, <2>6 DEF Apart
<1>12. ASSUME NEW u \in Browsers, SaveSetup(u) PROVE Goal
  <2> DEFINE new == [version |-> 1, password |-> passwords + 1]
  <2>1. passwords' = passwords + 1 /\ passwords + 1 \in 0..MaxPasswords /\ 1 \in 0..MaxPasswords /\ 1 \in 1..(passwords + 1)
    BY <1>12, LocalLoginAssumption DEF SaveSetup, LoginTypeOK
  <2>2. new \in Credential /\ new.version = 1 /\ new.password = passwords + 1
    BY <2>1 DEF Credential
  <2>3. /\ stored' = new \/ (stored' = stored /\ Configured)
        /\ ~Configured => stored' = new
        /\ ProceedWith(u, "create", new) /\ UNCHANGED <<session, together>> /\ visit[u].step = "save"
    BY <1>12 DEF SaveSetup
  <2>4. ~together => stored = NoSession /\ ~Configured /\ stored.version = 0
    BY <2>3 DEF Apart, OneWriter, Configured, NoSession
  <2> HIDE DEF new
  <2> QED
    BY <1>11, <1>12, <2>1, <2>2, <2>3, <2>4
<1>13. ASSUME NEW u \in Browsers, SaveChange(u) PROVE Goal
  <2> DEFINE new == [version |-> NextVersion(visit[u].read.version), password |-> passwords + 1]
  <2>1. stored' = new /\ stored' \in Credential /\ passwords' = passwords + 1
    BY <1>13 DEF SaveChange, LoginTypeOK
  <2>2. new.version = visit[u].read.version + 1 /\ new.password = passwords + 1
    BY DEF NextVersion
  <2>3. visit[u].read.version \in Nat /\ visit[u].read.version <= passwords /\ passwords \in Nat
    BY <1>2, LocalLoginAssumption DEF Credential, CredentialsIssued, Issued, LoginTypeOK
  <2>4. new.version \in 1..(passwords + 1)
    BY <2>2, <2>3
  <2>5. ProceedWith(u, "purgeChanged", new) /\ UNCHANGED <<session, together>> /\ visit[u].step = "change"
    BY <1>13 DEF SaveChange
  <2>6. ~together => new.version > stored.version
    BY <2>2, <2>3, <2>5 DEF Apart, OneWriter
  <2> HIDE DEF new
  <2> QED
    BY <1>11, <1>13, <2>1, <2>2, <2>4, <2>5, <2>6
<1>14. CASE Unlock
  BY <1>14 DEF Unlock, CredentialsIssued, Issued, Apart, OneWriter, VersionsFollow, Follows, Writing
<1> QED
  BY <1>6, <1>7, <1>8, <1>9, <1>10, <1>12, <1>13, <1>14 DEF LoginNext

LEMMA LoginInvStep == LoginInv /\ [LoginNext]_loginVars => LoginInv'
<1> SUFFICES ASSUME LoginInv, [LoginNext]_loginVars PROVE LoginInv'
  OBVIOUS
<1>1. CASE LoginNext
  BY <1>1, LoginTypeStep, LoginVersionsStep DEF LoginInv
<1>2. CASE UNCHANGED loginVars
  BY <1>2 DEF loginVars, LoginInv, LoginTypeOK, CredentialsIssued, Issued, Apart, OneWriter, VersionsFollow,
     Follows, Writing
<1> QED
  BY <1>1, <1>2

\* What SessionOfPassword says of a step.
Admitted ==
  \A u \in Browsers :
    visit[u].step = "check" /\ visit'[u].step = "admitted" /\ ~together =>
      visit[u].read.password = stored.password

LEMMA AdmittedStep == LoginInv /\ [LoginNext]_loginVars => Admitted
<1> SUFFICES ASSUME LoginInv, [LoginNext]_loginVars, NEW u \in Browsers,
                    visit[u].step = "check", visit'[u].step = "admitted", ~together
             PROVE  visit[u].read.password = stored.password
  BY DEF Admitted
<1>1. VersionsFollow
  BY DEF LoginInv, Apart
<1>2. visit \in [Browsers -> Visit]
  BY DEF LoginInv, LoginTypeOK, Visit
<1>3. Check(u) /\ visit[u].read.version = stored.version
  <2>1. visit'[u] # visit[u]
    OBVIOUS
  <2>3. visit'[u] # NoVisit
    BY DEF NoVisit
  <2>4. ~(BeginLogin(u) \/ BeforeLogin(u) \/ WrongPassword(u) \/ RightPassword(u) \/ Purge(u) \/ CreateSession(u)
          \/ BeginSetup(u) \/ SaveSetup(u) \/ BeginChange(u) \/ SaveChange(u) \/ DeleteOwn(u)
          \/ Lookup(u) \/ Answer(u) \/ SignOut(u))
    BY DEF BeginLogin, BeforeLogin, WrongPassword, RightPassword, Purge, CreateSession, BeginSetup, SaveSetup,
       BeginChange, SaveChange, DeleteOwn, Lookup, Answer, SignOut
  <2>5. ~BreakOff(u)
    BY <1>2, <2>3 DEF BreakOff, Respond
  <2>6. ASSUME NEW w \in Browsers \ {u},
               \/ BeginLogin(w) \/ BeforeLogin(w) \/ WrongPassword(w) \/ RightPassword(w)
               \/ Purge(w) \/ CreateSession(w)
               \/ BeginSetup(w) \/ SaveSetup(w) \/ BeginChange(w) \/ SaveChange(w) \/ DeleteOwn(w)
               \/ Lookup(w) \/ Check(w) \/ Answer(w) \/ SignOut(w) \/ BreakOff(w)
        PROVE  FALSE
    <3>1. \/ Respond(w) \/ UNCHANGED visit
          \/ \E next : Proceed(w, next)
          \/ \E next, c : ProceedWith(w, next, c)
      BY <2>6 DEF BeginLogin, BeforeLogin, WrongPassword, RightPassword, Purge, CreateSession, BeginSetup, SaveSetup,
         BeginChange, SaveChange, DeleteOwn, Lookup, Check, Answer, SignOut, BreakOff
    <3>2. visit'[u] = visit[u]
      BY <1>2, <3>1 DEF Respond, Proceed, ProceedWith
    <3> QED
      BY <2>1, <3>2
  <2>7. ~Unlock /\ ~UNCHANGED loginVars
    BY <2>1 DEF Unlock, loginVars
  <2>8. Check(u)
    BY <2>4, <2>5, <2>6, <2>7 DEF LoginNext
  <2>9. ~Respond(u)
    BY <1>2, <2>3 DEF Respond
  <2> QED
    BY <2>8, <2>9 DEF Check
<1> QED
  BY <1>1, <1>3 DEF VersionsFollow, Follows

\* A request is let in only with a session of the password that is stored, for
\* any number of clients, passwords and failing calls, as long as no two
\* set-ups or changes were under way together (ValidateSession).
THEOREM SessionsMatchPassword == LoginSpec => SessionOfPassword
<1>1. Admitted <=> (\A u \in Browsers :
        visit[u].step = "check" /\ visit'[u].step = "admitted" /\ ~together =>
          visit[u].read.password = stored.password)
  BY DEF Admitted
<1> QED
  BY <1>1, LoginInitInv, LoginInvStep, AdmittedStep, PTL DEF LoginSpec, SessionOfPassword
-----------------------------------------------------------------------------
(* CatchUp                                                                  *)

\* Until its text is saved, a document under way has not succeeded.
Unfinished ==
  \A c \in CatchUps :
    step[c] \in {"create", "begin", "load", "save", "saveNoBot", "saveFailed", "failed"} => document[c].status # "succeeded"

\* A request that delivers again is one for a document.
RetriesNamed == \A u \in Clients : retry[u].step # "none" => retry[u].id \in CatchUps

CatchUpInv == CatchUpTypeOK /\ Unfinished /\ RetriesNamed

LEMMA CatchUpInitInv == CatchUpInit => CatchUpInv
<1> SUFFICES ASSUME CatchUpInit PROVE CatchUpInv
  OBVIOUS
<1>1. NoDocument \in Document
  BY DEF NoDocument, Document, DocumentStatus
<1>2. version \in [Sources -> 0..MaxVersion]
  BY CatchUpAssumption DEF CatchUpInit
<1>3. retry \in [Clients -> [step : RetrySteps, id : CatchUps \cup {0}]]
  BY DEF CatchUpInit, NoRetry, RetrySteps
<1>4. CatchUpTypeOK
  BY <1>1, <1>2, <1>3 DEF CatchUpInit, CatchUpTypeOK, GenerationSteps
<1>5. Unfinished /\ RetriesNamed
  BY DEF CatchUpInit, Unfinished, RetriesNamed, NoRetry
<1> QED
  BY <1>4, <1>5 DEF CatchUpInv

\* What a statement makes of a row is a row.
LEMMA InterruptedType ==
  ASSUME NEW d \in Document
  PROVE  FailInterrupted(d) \in Document
BY DEF Document, FailInterrupted, DocumentStatus, Final

LEMMA DeliveryTypes ==
  ASSUME NEW d \in Document, NEW ok \in BOOLEAN, NEW text \in SUBSET TextOf
  PROVE  /\ [d EXCEPT !.delivered = ok, !.undelivered = ~ok] \in Document
         /\ [NoDocument EXCEPT !.status = "pending", !.requested = ok, !.snapshot = text] \in Document
BY DEF Document, NoDocument, DocumentStatus

LEMMA SnapshotType ==
  ASSUME CatchUpTypeOK, NEW chats, NEW from, NEW to
  PROVE  TextsOf(Usable(chats, from, to)) \in SUBSET TextOf
<1>1. \A s \in Usable(chats, from, to) : s \in Sources /\ version[s] \in 1..MaxVersion
  BY CatchUpAssumption DEF CatchUpTypeOK, Usable
<1> QED
  BY <1>1 DEF TextsOf, TextOf

\* A failing call is counted.
LEMMA TroubleType ==
  ASSUME CatchUpTypeOK, Trouble
  PROVE  spent' \in [retries : Nat, faults : Nat]
BY DEF CatchUpTypeOK, Trouble

\* Which rows a step changes, and how: the rest of the proof reads this only.
RowStep(c) ==
  /\ \A d \in CatchUps \ {c} : document'[d] = document[d] /\ step'[d] = step[d]
  /\ document[c].status = "succeeded" =>
       document'[c].status = "succeeded" /\ document'[c].content = document[c].content
  /\ step'[c] \in {"create", "begin", "load", "save", "saveNoBot", "saveFailed", "failed"} => document'[c].status # "succeeded"

LEMMA MarkKeeps ==
  ASSUME CatchUpTypeOK, NEW c \in CatchUps, NEW ok \in BOOLEAN, Mark(c, ok)
  PROVE  /\ document' \in [CatchUps -> Document]
         /\ \A d \in CatchUps : document'[d].status = document[d].status /\ document'[d].content = document[d].content
         /\ \A d \in CatchUps \ {c} : document'[d] = document[d]
<1>1. document' = [document EXCEPT ![c] = [@ EXCEPT !.delivered = ok, !.undelivered = ~ok]]
  BY DEF Mark, CatchUpTypeOK
<1>2. [document[c] EXCEPT !.delivered = ok, !.undelivered = ~ok] \in Document
  <2>1. document[c] \in Document /\ {} \in SUBSET TextOf
    BY DEF CatchUpTypeOK
  <2> QED
    BY <2>1, DeliveryTypes
<1>3. document'[c] = [document[c] EXCEPT !.delivered = ok, !.undelivered = ~ok]
  BY <1>1 DEF CatchUpTypeOK
<1>4. document[c] \in Document
  BY DEF CatchUpTypeOK
<1>5. document'[c].status = document[c].status /\ document'[c].content = document[c].content
  BY <1>3, <1>4 DEF Document
<1> QED
  BY <1>1, <1>2, <1>5 DEF CatchUpTypeOK

Stays ==
  \A c \in CatchUps : document[c].status = "succeeded" =>
    document'[c].status = "succeeded" /\ document'[c].content = document[c].content

LEMMA GoroutineStep ==
  ASSUME CatchUpInv, NEW c \in CatchUps, Goroutine(c) \/ ExecuteFails(c)
  PROVE  CatchUpInv' /\ Stays
<1> USE DEF CatchUpInv
<1>1. /\ document \in [CatchUps -> Document] /\ document[c] \in Document
      /\ step \in [CatchUps -> GenerationSteps] /\ document[c].snapshot \in SUBSET TextOf
  BY DEF CatchUpTypeOK, Document
<1>2. {"pending", "running", "succeeded", "failed"} \subseteq DocumentStatus /\ {} \in SUBSET TextOf
  BY DEF DocumentStatus, Final
<1>3. step'[c] \in GenerationSteps /\ step' = [step EXCEPT ![c] = step'[c]]
  <2>1. \E next \in GenerationSteps : Then(c, next)
    <3>1. CASE Goroutine(c)
      BY <3>1 DEF Goroutine, SetRunning, BeginRun, Generate, SaveSucceeded, SaveFailed, Deliver, RecordDelivery,
         EndRun, GenerationSteps
    <3>2. CASE ExecuteFails(c)
      BY <3>2 DEF ExecuteFails, EndRun, GenerationSteps
    <3> QED
      BY <3>1, <3>2
  <2> QED
    BY <1>1, <2>1 DEF Then
<1>4. inflight' \subseteq {Generation(d) : d \in CatchUps} \cup {Delivery(d) : d \in CatchUps}
  BY DEF CatchUpTypeOK, Goroutine, SetRunning, BeginRun, Generate, SaveSucceeded, SaveFailed, Deliver,
     RecordDelivery, ExecuteFails, EndRun
<1>5. spent' \in [retries : Nat, faults : Nat]
  <2>1. Trouble \/ UNCHANGED spent
    BY DEF Goroutine, SetRunning, BeginRun, Generate, SaveSucceeded, SaveFailed, Deliver, RecordDelivery, ExecuteFails
  <2> QED
    BY <2>1, TroubleType DEF CatchUpTypeOK
<1>6. sent' \in [CatchUps -> Nat]
  <2>1. sent' = sent \/ sent' = [sent EXCEPT ![c] = @ + 1]
    BY DEF Goroutine, SetRunning, BeginRun, Generate, SaveSucceeded, SaveFailed, Deliver, RecordDelivery, ExecuteFails
  <2> QED
    BY <2>1 DEF CatchUpTypeOK
<1>7. UNCHANGED <<enabled, version, botReady, retry>>
  BY DEF Goroutine, SetRunning, BeginRun, Generate, SaveSucceeded, SaveFailed, Deliver, RecordDelivery, ExecuteFails
<1>8. document' \in [CatchUps -> Document] /\ RowStep(c)
  <2>1. CASE SetRunning(c)
    <3>1. document'[c] = [document[c] EXCEPT !.status = "running"]
          /\ document' = [document EXCEPT ![c] = document'[c]]
      BY <1>1, <2>1 DEF SetRunning
    <3>2. document'[c] \in Document /\ document'[c].status = "running"
      <4>1. "running" \in DocumentStatus
        BY <1>2
      <4> QED
        BY <1>1, <3>1, <4>1 DEF Document
    <3>3. document[c].status # "succeeded"
      BY <2>1 DEF SetRunning, Unfinished
    <3> QED
      BY <1>1, <1>3, <3>1, <3>2, <3>3 DEF RowStep
  <2>2. CASE BeginRun(c) \/ Generate(c)
    <3>1. UNCHANGED document /\ document[c].status # "succeeded"
      BY <2>2 DEF BeginRun, Generate, Unfinished
    <3> QED
      BY <1>1, <1>3, <3>1 DEF RowStep
  <2>3. CASE SaveSucceeded(c)
    <3>1. document'[c] = [document[c] EXCEPT !.status = "succeeded", !.content = document[c].snapshot]
          /\ document' = [document EXCEPT ![c] = document'[c]]
      BY <1>1, <2>3 DEF SaveSucceeded, Loaded
    <3>2. document'[c] \in Document
      <4>1. "succeeded" \in DocumentStatus
        BY <1>2
      <4> QED
        BY <1>1, <3>1, <4>1 DEF Document
    <3>3. document[c].status # "succeeded"
      BY <2>3 DEF SaveSucceeded, Unfinished
    <3>4. step'[c] \in {"deliver", "undelivered", "none"}
      BY <1>1, <2>3 DEF SaveSucceeded, EndRun, Then
    <3> QED
      BY <1>1, <1>3, <3>1, <3>2, <3>3, <3>4 DEF RowStep
  <2>4. CASE SaveFailed(c)
    <3>1. document'[c] = [document[c] EXCEPT !.status = "failed", !.content = {}]
          /\ document' = [document EXCEPT ![c] = document'[c]]
      BY <1>1, <2>4 DEF SaveFailed
    <3>2. document'[c] \in Document
      <4>1. "failed" \in DocumentStatus
        BY <1>2
      <4> QED
        BY <1>1, <3>1, <4>1 DEF Document
    <3>3. document[c].status # "succeeded"
      BY <2>4 DEF SaveFailed, Unfinished
    <3>4. step'[c] = "none"
      BY <1>1, <2>4 DEF SaveFailed, EndRun, Then
    <3> QED
      BY <1>1, <1>3, <3>1, <3>2, <3>3, <3>4 DEF RowStep
  <2>5. CASE Deliver(c)
    <3>1. UNCHANGED document /\ step'[c] \in {"delivered", "undelivered"}
      BY <1>1, <2>5 DEF Deliver, Then
    <3> QED
      BY <1>1, <1>3, <3>1 DEF RowStep
  <2>6. CASE RecordDelivery(c)
    <3>1. step'[c] = "none"
      BY <1>1, <2>6 DEF RecordDelivery, EndRun, Then
    <3>2. Mark(c, step[c] = "delivered") \/ UNCHANGED document
      BY <2>6 DEF RecordDelivery
    <3>3. (step[c] = "delivered") \in BOOLEAN
      OBVIOUS
    <3>4. /\ document' \in [CatchUps -> Document]
          /\ \A d \in CatchUps : document'[d].status = document[d].status /\ document'[d].content = document[d].content
          /\ \A d \in CatchUps \ {c} : document'[d] = document[d]
      BY <1>1, <3>2, <3>3, MarkKeeps
    <3> QED
      BY <1>1, <1>3, <3>1, <3>4 DEF RowStep
  <2>7. CASE ExecuteFails(c)
    <3>1. UNCHANGED document /\ (step'[c] = "none" \/ (step'[c] = "failed" /\ step[c] \in {"load", "save", "saveNoBot", "saveFailed"}))
      BY <1>1, <2>7 DEF ExecuteFails, EndRun, Then
    <3> QED
      BY <1>1, <1>3, <3>1 DEF RowStep, Unfinished
  <2> QED
    BY <2>1, <2>2, <2>3, <2>4, <2>5, <2>6, <2>7 DEF Goroutine
<1>9. CatchUpTypeOK'
  BY <1>1, <1>3, <1>4, <1>5, <1>6, <1>7, <1>8 DEF CatchUpTypeOK
<1>10. Unfinished' /\ RetriesNamed' /\ Stays
  BY <1>7, <1>8 DEF RowStep, Unfinished, RetriesNamed, Stays
<1> QED
  BY <1>9, <1>10

\* A request that delivers again, or fails on its way.
LEMMA RetryStep ==
  ASSUME CatchUpInv, NEW u \in Clients, RetryDelivery(u) \/ RetryFails(u) \/ \E c \in CatchUps : BeginRetry(u, c)
  PROVE  CatchUpInv' /\ Stays
<1> USE DEF CatchUpInv
<1> DEFINE Retry == [step : RetrySteps, id : CatchUps \cup {0}]
<1>1. /\ document \in [CatchUps -> Document] /\ retry \in [Clients -> Retry] /\ retry[u] \in Retry
      /\ step \in [CatchUps -> GenerationSteps]
  BY DEF CatchUpTypeOK
<1>2. NoRetry \in Retry /\ NoRetry.step = "none"
  BY DEF NoRetry, RetrySteps
<1>3. \A next \in RetrySteps : [retry[u] EXCEPT !.step = next] \in Retry /\ [retry[u] EXCEPT !.step = next].id = retry[u].id
  BY <1>1
<1>4. /\ retry' = [retry EXCEPT ![u] = retry'[u]] /\ retry'[u] \in Retry
      /\ retry'[u].step # "none" => retry'[u].id \in CatchUps
  <2>1. CASE \E c \in CatchUps : BeginRetry(u, c)
    <3>1. PICK c \in CatchUps : BeginRetry(u, c)
      BY <2>1
    <3>2. retry' = [retry EXCEPT ![u] = [step |-> "read", id |-> c]]
      BY <3>1 DEF BeginRetry
    <3> QED
      BY <1>1, <3>2 DEF RetrySteps
  <2>2. CASE EndRetry(u)
    BY <1>1, <1>2, <2>2 DEF EndRetry
  <2>3. CASE retry[u].step # "none" /\ \E next \in RetrySteps : retry' = [retry EXCEPT ![u].step = next]
    <3>1. PICK next \in RetrySteps : retry' = [retry EXCEPT ![u].step = next]
      BY <2>3
    <3>2. retry' = [retry EXCEPT ![u] = [retry[u] EXCEPT !.step = next]]
      BY <3>1
    <3>3. retry[u].id \in CatchUps
      BY <2>3 DEF RetriesNamed
    <3> HIDE DEF Retry
    <3> QED
      BY <1>1, <1>3, <3>2, <3>3
  <2>4. CASE ReadForRetry(u)
    BY <2>2, <2>3, <2>4 DEF ReadForRetry, RetrySteps
  <2>5. CASE SendAgain(u)
    <3>1. \E next \in RetrySteps : retry' = [retry EXCEPT ![u].step = next]
      BY <2>5 DEF SendAgain, RetrySteps
    <3> QED
      BY <2>3, <2>5, <3>1 DEF SendAgain
  <2>6. CASE RecordRetry(u) \/ RetryFails(u)
    BY <2>2, <2>6 DEF RecordRetry, RetryFails
  <2> QED
    BY <2>1, <2>4, <2>5, <2>6 DEF RetryDelivery
<1>5. inflight' \subseteq {Generation(d) : d \in CatchUps} \cup {Delivery(d) : d \in CatchUps}
  BY DEF CatchUpTypeOK, RetryDelivery, ReadForRetry, SendAgain, RecordRetry, RetryFails, BeginRetry, EndRetry
<1>6. spent' \in [retries : Nat, faults : Nat]
  <2>1. Trouble \/ UNCHANGED spent \/ spent' = [spent EXCEPT !.retries = @ + 1]
    BY DEF RetryDelivery, ReadForRetry, SendAgain, RecordRetry, RetryFails, BeginRetry
  <2> QED
    BY <2>1, TroubleType DEF CatchUpTypeOK
<1>7. sent' \in [CatchUps -> Nat]
  <2>1. \/ sent' = sent
        \/ sent' = [sent EXCEPT ![retry[u].id] = @ + 1]
    BY DEF RetryDelivery, ReadForRetry, SendAgain, RecordRetry, RetryFails, BeginRetry
  <2> QED
    BY <2>1 DEF CatchUpTypeOK
<1>8. UNCHANGED <<enabled, version, botReady, step>>
  BY DEF RetryDelivery, ReadForRetry, SendAgain, RecordRetry, RetryFails, BeginRetry
<1>9. /\ document' \in [CatchUps -> Document]
      /\ \A d \in CatchUps : document'[d].status = document[d].status /\ document'[d].content = document[d].content
  <2>1. \/ UNCHANGED document
        \/ retry[u].step # "none" /\ Mark(retry[u].id, retry[u].step = "delivered")
    BY DEF RetryDelivery, ReadForRetry, SendAgain, RecordRetry, RetryFails, BeginRetry
  <2>2. ASSUME retry[u].step # "none", Mark(retry[u].id, retry[u].step = "delivered")
        PROVE  /\ document' \in [CatchUps -> Document]
               /\ \A d \in CatchUps : document'[d].status = document[d].status /\ document'[d].content = document[d].content
    <3>1. retry[u].id \in CatchUps /\ (retry[u].step = "delivered") \in BOOLEAN
      BY <2>2 DEF RetriesNamed
    <3> QED
      BY <2>2, <3>1, MarkKeeps
  <2> QED
    BY <1>1, <2>1, <2>2
<1>10. CatchUpTypeOK'
  BY <1>1, <1>4, <1>5, <1>6, <1>7, <1>8, <1>9 DEF CatchUpTypeOK
<1>11. Unfinished' /\ Stays
  BY <1>8, <1>9 DEF Unfinished, Stays
<1>12. RetriesNamed'
  BY <1>1, <1>4 DEF RetriesNamed
<1> QED
  BY <1>10, <1>11, <1>12

LEMMA CatchUpInvStep == CatchUpInv /\ [CatchUpNext]_catchUpVars => CatchUpInv' /\ Stays
<1> SUFFICES ASSUME CatchUpInv, [CatchUpNext]_catchUpVars PROVE CatchUpInv' /\ Stays
  OBVIOUS
<1> USE DEF CatchUpInv
<1>1. ASSUME NEW s \in Sources, Regenerate(s) PROVE CatchUpInv' /\ Stays
  <2>1. version' \in [Sources -> 0..MaxVersion]
    BY <1>1, CatchUpAssumption DEF Regenerate, CatchUpTypeOK
  <2> QED
    BY <1>1, <2>1 DEF Regenerate, CatchUpTypeOK, Unfinished, RetriesNamed, Stays
<1>2. ASSUME NEW c \in CatchUps, NEW chats \in SUBSET Chats, NEW from \in 1..Today, NEW to \in 1..Today,
             NEW deliver \in BOOLEAN, CreateDocument(c, chats, from, to, deliver)
      PROVE  CatchUpInv' /\ Stays
  <2> DEFINE new == [NoDocument EXCEPT !.status = "pending", !.requested = deliver,
                       !.snapshot = TextsOf(Usable(chats, from, to))]
  <2>1. document \in [CatchUps -> Document] /\ document[c] \in Document /\ document[c].status = "none"
    BY <1>2 DEF CreateDocument, CatchUpTypeOK
  <2>2. TextsOf(Usable(chats, from, to)) \in SUBSET TextOf
    BY SnapshotType
  <2>3. new \in Document
    BY <2>1, <2>2, DeliveryTypes
  <2>4. new.status = "pending"
    BY DEF NoDocument
  <2>5. document' = [document EXCEPT ![c] = new] /\ step' = [step EXCEPT ![c] = "create"]
    BY <1>2 DEF CreateDocument, Then
  <2>6. UNCHANGED <<enabled, version, botReady, inflight, retry, sent, spent>>
    BY <1>2 DEF CreateDocument
  <2> HIDE DEF new
  <2>7. document' \in [CatchUps -> Document] /\ step' \in [CatchUps -> GenerationSteps]
    BY <2>1, <2>3, <2>5 DEF CatchUpTypeOK, GenerationSteps
  <2>8. /\ document'[c].status = "pending" /\ step'[c] = "create"
        /\ \A d \in CatchUps \ {c} : document'[d] = document[d] /\ step'[d] = step[d]
    BY <2>1, <2>4, <2>5 DEF CatchUpTypeOK
  <2> QED
    BY <2>1, <2>6, <2>7, <2>8 DEF CatchUpTypeOK, Unfinished, RetriesNamed, Stays
<1>3. CASE Settings
  <2>1. enabled' \subseteq Chats /\ botReady' \in BOOLEAN
    BY <1>3 DEF Settings, CatchUpTypeOK
  <2>2. spent' \in [retries : Nat, faults : Nat]
    BY <1>3, TroubleType DEF Settings
  <2>3. UNCHANGED <<document, version, inflight, step, retry, sent>>
    BY <1>3 DEF Settings
  <2> QED
    BY <2>1, <2>2, <2>3 DEF CatchUpTypeOK, Unfinished, RetriesNamed, Stays
<1>4. CASE CatchUpRestart
  <2>1. document \in [CatchUps -> Document]
    BY DEF CatchUpTypeOK
  <2>2. document' = [c \in CatchUps |-> FailInterrupted(document[c])]
    BY <1>4 DEF CatchUpRestart
  <2>3. document' \in [CatchUps -> Document]
    BY <2>1, <2>2, InterruptedType
  <2>4. \A c \in CatchUps : document[c].status = "succeeded" => document'[c] = document[c]
    BY <2>2 DEF FailInterrupted
  <2>5. step' = [c \in CatchUps |-> "none"] /\ retry' = [u \in Clients |-> NoRetry]
    BY <1>4 DEF CatchUpRestart
  <2>6. /\ step' \in [CatchUps -> GenerationSteps] /\ retry' \in [Clients -> [step : RetrySteps, id : CatchUps \cup {0}]]
        /\ Unfinished' /\ RetriesNamed'
    BY <2>5 DEF GenerationSteps, NoRetry, RetrySteps, Unfinished, RetriesNamed
  <2>7. spent' \in [retries : Nat, faults : Nat]
    BY <1>4, TroubleType DEF CatchUpRestart
  <2>8. UNCHANGED <<enabled, version, botReady, sent>> /\ inflight' = {}
    BY <1>4 DEF CatchUpRestart
  <2> QED
    BY <2>3, <2>4, <2>6, <2>7, <2>8 DEF CatchUpTypeOK, Stays
<1>5. CASE UNCHANGED catchUpVars
  BY <1>5 DEF catchUpVars, CatchUpTypeOK, Unfinished, RetriesNamed, Stays
<1> QED
  BY <1>1, <1>2, <1>3, <1>4, <1>5, GoroutineStep, RetryStep DEF CatchUpNext

\* A document that has been generated is final, for any number of documents,
\* requests, failing calls and restarts (execute, run, MarkDelivered).
THEOREM GeneratedIsFinal == CatchUpSpec => GeneratedStays
<1>1. Stays <=> (\A c \in CatchUps : document[c].status = "succeeded" =>
        document'[c].status = "succeeded" /\ document'[c].content = document[c].content)
  BY DEF Stays
<1> QED
  BY <1>1, CatchUpInitInv, CatchUpInvStep, PTL DEF CatchUpSpec, GeneratedStays
-----------------------------------------------------------------------------
(* HistoryBackfill                                                          *)

\* What a back-fill of the range of the task has to store.
Wanted == {m \in 1..latest : InRange(m) /\ Storable(m)}

\* The part of it that was there when the task was started, and what
\* BackfillComplete says of both.
Early == {m \in Wanted : m <= seenAt}

StoredAll == Early \subseteq archive /\ task.imported \in Cardinality(Early)..Cardinality(Wanted)

\* A walk belongs to a task that has not ended.
WalkOfTask == walk.step # "none" => task.status \in {"pending", "running"}

\* Where the walk stands: it has counted and stored what it wants of the
\* messages from its offset on that were there when the task was started; the
\* message of an upsert is next.
WalkHasStored ==
  walk.step # "none" =>
    /\ walk.offset \in 0..latest
    /\ walk.offset = 0 => walk.processed = {}
    /\ walk.processed \subseteq Wanted \cap archive
    /\ walk.step = "upsert" => walk.offset \in Wanted
    /\ walk.offset # 0 =>
         \A m \in Wanted :
           m <= seenAt /\ m >= walk.offset => m \in walk.processed \/ (walk.step = "upsert" /\ m = walk.offset)

BackfillInv == BackfillTypeOK /\ seenAt <= latest /\ WalkOfTask /\ WalkHasStored /\ BackfillComplete

LEMMA LastIsNat == LastMessage \in Nat
BY BackfillAssumption

LEMMA CountedMessages ==
  ASSUME NEW S, S \subseteq Message
  PROVE  IsFiniteSet(S) /\ Cardinality(S) \in 0..LastMessage
<1>1. LastMessage \in Nat
  BY BackfillAssumption
<1>2. IsFiniteSet(1..LastMessage) /\ Cardinality(1..LastMessage) = LastMessage
  BY <1>1, FS_Interval
<1>3. IsFiniteSet(S) /\ Cardinality(S) <= LastMessage
  BY <1>2, FS_Subset DEF Message
<1> QED
  BY <1>1, <1>3, FS_CardinalityType

LEMMA MoreMessages ==
  ASSUME NEW S, NEW T, S \subseteq T, T \subseteq Message
  PROVE  Cardinality(S) <= Cardinality(T) /\ Cardinality(S) \in Nat /\ Cardinality(T) \in Nat
<1>1. IsFiniteSet(T) /\ IsFiniteSet(S)
  BY CountedMessages
<1> QED
  BY <1>1, FS_Subset, FS_CardinalityType

LEMMA BackfillInitInv == BackfillInit => BackfillInv
<1> SUFFICES ASSUME BackfillInit PROVE BackfillInv
  OBVIOUS
<1>1. latest \in 0..LastMessage /\ seenAt = 0 /\ seenAt \in 0..LastMessage
  BY BackfillAssumption DEF BackfillInit
<1>2. /\ NoTask \in [status : {"none", "pending", "running", "succeeded", "failed"},
                     from : {NoDay} \cup Days, to : {NoDay} \cup Days, imported : 0..LastMessage]
      /\ NoWalk \in [step : WalkSteps, offset : 0..LastMessage, processed : SUBSET Message, waited : 0..MaxFloodWait]
  BY BackfillAssumption DEF NoTask, NoWalk, WalkSteps
<1>3. others \in 0..MaxGenerations /\ mishaps \in 0..MaxImportFaults
  BY BackfillAssumption DEF BackfillInit
<1>4. BackfillTypeOK
  BY <1>1, <1>2, <1>3 DEF BackfillInit, BackfillTypeOK
<1>5. WalkOfTask /\ WalkHasStored /\ BackfillComplete
  BY DEF BackfillInit, WalkOfTask, WalkHasStored, BackfillComplete, NoTask, NoWalk
<1> QED
  BY <1>1, <1>4, <1>5 DEF BackfillInv

LEMMA CompleteMeans ==
  /\ BackfillComplete <=> (task.status = "succeeded" => StoredAll)
  /\ BackfillComplete' <=> (task'.status = "succeeded" => StoredAll')
<1>1. BackfillComplete <=>
        (task.status = "succeeded" =>
           /\ {m \in Wanted : m <= seenAt} \subseteq archive
           /\ task.imported \in Cardinality({m \in Wanted : m <= seenAt})..Cardinality(Wanted))
  BY Zenon DEF BackfillComplete, Wanted
<1>2. BackfillComplete' <=>
        (task'.status = "succeeded" =>
           /\ {m \in Wanted' : m <= seenAt'} \subseteq archive'
           /\ task'.imported \in Cardinality({m \in Wanted' : m <= seenAt'})..Cardinality(Wanted'))
  BY Zenon DEF BackfillComplete, Wanted, InRange
<1> QED
  BY <1>1, <1>2 DEF StoredAll, Early

LEMMA WantedMessages ==
  ASSUME BackfillTypeOK
  PROVE  Wanted \subseteq Message /\ Early \subseteq Wanted /\ latest \in Nat /\ latest <= LastMessage
BY BackfillAssumption DEF BackfillTypeOK, Wanted, Early, Message

\* A step that leaves the task and its messages alone.
LEMMA ImportKept ==
  ASSUME BackfillInv, UNCHANGED <<latest, archive, task, walk, seenAt>>
  PROVE  (seenAt <= latest)' /\ WalkOfTask' /\ WalkHasStored' /\ BackfillComplete'
BY DEF BackfillInv, WalkOfTask, WalkHasStored, Wanted, InRange, BackfillComplete

LEMMA LeastDay ==
  ASSUME BackfillInv, hook # {}
  PROVE  (CHOOSE x \in hook : \A y \in hook : x <= y) \in hook
<1>1. hook \subseteq Nat
  BY BackfillAssumption DEF BackfillInv, BackfillTypeOK
<1> QED
  BY <1>1, LeastOfSet

LEMMA SummariesStep ==
  ASSUME BackfillInv,
         Repair \/ RepairFails \/ \E d \in Days : GenerateOther(d) \/ ReadMessages(d) \/ SaveSummary(d) \/ FailSummary(d)
  PROVE  BackfillInv'
<1> USE DEF BackfillInv
<1> DEFINE Counts0 == {Missing, Unknown} \cup 0..LastMessage
<1>1. UNCHANGED <<latest, archive, task, walk, seenAt>>
  BY DEF Repair, RepairLook, RepairRun, RepairFails, GenerateOther, ReadMessages, SaveSummary, FailSummary, importVars
<1>2. others' \in 0..MaxGenerations /\ mishaps' \in 0..MaxImportFaults
  <2>1. Mishap \/ UNCHANGED mishaps
    BY DEF Repair, RepairLook, RepairRun, RepairFails, GenerateOther, ReadMessages, SaveSummary, FailSummary
  <2>2. UNCHANGED others \/ (others < MaxGenerations /\ others' = others + 1)
    BY DEF Repair, RepairLook, RepairRun, RepairFails, GenerateOther, ReadMessages, SaveSummary, FailSummary, summaryVars
  <2> QED
    BY <2>1, <2>2, BackfillAssumption DEF Mishap, BackfillTypeOK
<1>3. hook' \subseteq Days /\ repairing' \in {NoDay} \cup Days
  <2>1. CASE RepairLook
    <3> DEFINE d == CHOOSE x \in hook : \A y \in hook : x <= y
    <3>1. d \in hook
      BY <2>1, LeastDay DEF RepairLook
    <3>2. hook' = hook \ {d} /\ (repairing' = d \/ repairing' = NoDay)
      BY <2>1 DEF RepairLook
    <3> QED
      BY <3>1, <3>2 DEF BackfillTypeOK
  <2>2. CASE ~RepairLook
    BY <2>2 DEF BackfillTypeOK, Repair, RepairRun, RepairFails, GenerateOther, ReadMessages, SaveSummary, FailSummary, importVars
  <2> QED
    BY <2>1, <2>2
<1>4. count' \in [Days -> Counts0] /\ generating' \in [Days -> Counts0]
  <2>1. ASSUME NEW d \in Days, Enter(d) PROVE count' \in [Days -> Counts0] /\ generating' \in [Days -> Counts0]
    BY <2>1 DEF Enter, BackfillTypeOK
  <2>2. CASE RepairLook \/ RepairFails
    BY <2>2 DEF RepairLook, RepairFails, summaryVars, BackfillTypeOK
  <2>3. CASE RepairRun
    <3>1. repairing \in Days
      BY <2>3 DEF RepairRun, BackfillTypeOK
    <3> QED
      BY <2>1, <2>3, <3>1 DEF RepairRun, BackfillTypeOK
  <2>4. ASSUME NEW d \in Days, GenerateOther(d) PROVE count' \in [Days -> Counts0] /\ generating' \in [Days -> Counts0]
    BY <2>1, <2>4 DEF GenerateOther
  <2>5. ASSUME NEW d \in Days, ReadMessages(d) PROVE count' \in [Days -> Counts0] /\ generating' \in [Days -> Counts0]
    <3>1. StoredOf(d) \ Ignored \subseteq Message
      BY DEF StoredOf, BackfillTypeOK
    <3>2. Cardinality(StoredOf(d) \ Ignored) \in Counts0
      BY <3>1, CountedMessages
    <3> QED
      <4> DEFINE n == Cardinality(StoredOf(d) \ Ignored)
      <4>1. generating' = [generating EXCEPT ![d] = n] /\ UNCHANGED count
        BY <2>5 DEF ReadMessages
      <4>2. n \in Counts0
        BY <3>2
      <4> HIDE DEF n
      <4> QED
        BY <4>1, <4>2 DEF BackfillTypeOK
  <2>6. ASSUME NEW d \in Days, SaveSummary(d) \/ FailSummary(d)
        PROVE  count' \in [Days -> Counts0] /\ generating' \in [Days -> Counts0]
    BY <2>6 DEF SaveSummary, FailSummary, BackfillTypeOK
  <2> QED
    BY <2>2, <2>3, <2>4, <2>5, <2>6 DEF Repair
<1>5. BackfillTypeOK'
  BY <1>1, <1>2, <1>3, <1>4 DEF BackfillTypeOK
<1> QED
  BY <1>1, <1>5, ImportKept

\* A message that arrives was not there when the task was started.
LEMMA ArriveStep ==
  ASSUME BackfillInv, ArriveLive
  PROVE  BackfillInv'
<1> USE DEF BackfillInv
<1>1. latest \in Nat /\ latest' = latest + 1 /\ latest + 1 \in 0..LastMessage /\ latest + 1 \in Message
  BY BackfillAssumption DEF ArriveLive, BackfillTypeOK, Message
<1>2. UNCHANGED <<task, walk, seenAt, hook, repairing, summaryVars, mishaps>>
  BY DEF ArriveLive
<1>3. archive \subseteq archive' /\ archive' \subseteq Message \ ServiceMessages
  BY <1>1 DEF ArriveLive, BackfillTypeOK
<1>4. BackfillTypeOK'
  BY <1>1, <1>2, <1>3 DEF BackfillTypeOK, summaryVars
<1>5. Wanted \subseteq Wanted' /\ Wanted' \subseteq Wanted \cup {latest + 1}
  BY <1>1, <1>2 DEF Wanted, InRange
<1>6. seenAt \in Nat /\ seenAt <= latest
  BY BackfillAssumption DEF BackfillTypeOK
<1>7. Early' = Early
  BY <1>1, <1>2, <1>5, <1>6 DEF Early
<1>8. WalkOfTask'
  BY <1>2 DEF WalkOfTask
<1>9. WalkHasStored'
  <2>1. walk.step # "none" => walk.offset \in 0..latest'
    BY <1>1 DEF WalkHasStored
  <2>2. walk.step # "none" => walk.processed \subseteq Wanted' \cap archive'
    BY <1>3, <1>5 DEF WalkHasStored
  <2>3. \A m \in Wanted' : m <= seenAt => m \in Wanted
    BY <1>1, <1>5, <1>6
  <2> QED
    BY <1>2, <1>5, <2>1, <2>2, <2>3 DEF WalkHasStored
<1>10. BackfillComplete'
  <2>1. Cardinality(Wanted) <= Cardinality(Wanted') /\ Cardinality(Wanted) \in Nat /\ Cardinality(Wanted') \in Nat
    <3>1. Wanted' \subseteq Message
      BY <1>1, <1>5, WantedMessages
    <3> QED
      BY <1>5, <3>1, MoreMessages
  <2>2. Cardinality(Early) \in Nat
    BY WantedMessages, MoreMessages
  <2>3. StoredAll => StoredAll'
    BY <1>2, <1>3, <1>7, <2>1, <2>2 DEF StoredAll
  <2> QED
    BY <1>2, <2>3, CompleteMeans
<1> QED
  BY <1>1, <1>2, <1>4, <1>6, <1>8, <1>9, <1>10

LEMMA StartBackfillStep ==
  ASSUME BackfillInv, NEW from \in Days, NEW to \in Days, StartHistoryBackfill(from, to)
  PROVE  BackfillInv'
<1> USE DEF BackfillInv
<1>1. /\ task' = [NoTask EXCEPT !.status = "pending", !.from = from, !.to = to]
      /\ walk' = [NoWalk EXCEPT !.step = "start"]
      /\ seenAt' = latest
      /\ UNCHANGED <<latest, archive, hook, repairing, summaryVars, mishaps>>
  BY DEF StartHistoryBackfill
<1>2. task'.status = "pending" /\ walk'.step = "start" /\ walk'.offset = 0 /\ walk'.processed = {}
  BY <1>1 DEF NoTask, NoWalk
<1>3. latest \in Nat /\ latest \in 0..LastMessage
  BY BackfillAssumption DEF BackfillTypeOK
<1>4. /\ task' \in [status : {"none", "pending", "running", "succeeded", "failed"},
                    from : {NoDay} \cup Days, to : {NoDay} \cup Days, imported : 0..LastMessage]
      /\ walk' \in [step : WalkSteps, offset : 0..LastMessage, processed : SUBSET Message, waited : 0..MaxFloodWait]
  <2>1. 0 \in 0..LastMessage /\ 0 \in 0..MaxFloodWait
    BY BackfillAssumption
  <2>2. task' = [status |-> "pending", from |-> from, to |-> to, imported |-> 0]
    BY <1>1 DEF NoTask
  <2>3. walk' = [step |-> "start", offset |-> 0, processed |-> {}, waited |-> 0]
    BY <1>1 DEF NoWalk
  <2> QED
    BY <2>1, <2>2, <2>3 DEF WalkSteps
<1>5. BackfillTypeOK'
  BY <1>1, <1>3, <1>4 DEF BackfillTypeOK, summaryVars
<1>6. WalkOfTask' /\ WalkHasStored'
  BY <1>1, <1>2, <1>3 DEF WalkOfTask, WalkHasStored
<1>7. BackfillComplete'
  BY <1>2, CompleteMeans
<1> QED
  BY <1>1, <1>3, <1>5, <1>6, <1>7

\* The steps of a walk that neither store nor end it.
LEMMA WalkStep ==
  ASSUME BackfillInv,
         UNCHANGED <<latest, archive, seenAt, hook, repairing, summaryVars, mishaps>>,
         task'.from = task.from, task'.to = task.to, task'.status \in {"pending", "running"},
         task' \in [status : {"none", "pending", "running", "succeeded", "failed"},
                    from : {NoDay} \cup Days, to : {NoDay} \cup Days, imported : 0..LastMessage],
         walk.step \in {"start", "attempt", "next"}, walk'.step \in {"start", "attempt", "next"},
         walk'.offset = walk.offset, walk'.processed = walk.processed,
         walk' \in [step : WalkSteps, offset : 0..LastMessage, processed : SUBSET Message, waited : 0..MaxFloodWait]
  PROVE  BackfillInv'
<1> USE DEF BackfillInv
<1>1. BackfillTypeOK'
  BY DEF BackfillTypeOK, summaryVars
<1>2. Wanted' = Wanted
  BY DEF Wanted, InRange
<1>3. WalkOfTask'
  BY DEF WalkOfTask
<1>4. WalkHasStored'
  BY <1>2 DEF WalkHasStored
<1>5. BackfillComplete'
  BY CompleteMeans
<1> QED
  BY <1>1, <1>3, <1>4, <1>5

\* The walk is given up: whatever it has stored stays, the task has failed or
\* is forgotten.
LEMMA WalkEnds ==
  ASSUME BackfillInv,
         UNCHANGED <<latest, archive, seenAt>>, walk' = NoWalk,
         \/ task' = [task EXCEPT !.status = "failed"]
         \/ task' = NoTask
  PROVE  /\ (seenAt <= latest)' /\ WalkOfTask' /\ WalkHasStored' /\ BackfillComplete'
         /\ task' \in [status : {"none", "pending", "running", "succeeded", "failed"},
                       from : {NoDay} \cup Days, to : {NoDay} \cup Days, imported : 0..LastMessage]
         /\ walk' \in [step : WalkSteps, offset : 0..LastMessage, processed : SUBSET Message, waited : 0..MaxFloodWait]
<1> USE DEF BackfillInv
<1>1. task' \in [status : {"none", "pending", "running", "succeeded", "failed"},
                 from : {NoDay} \cup Days, to : {NoDay} \cup Days, imported : 0..LastMessage]
  BY BackfillAssumption DEF BackfillTypeOK, NoTask
<1>2. walk' \in [step : WalkSteps, offset : 0..LastMessage, processed : SUBSET Message, waited : 0..MaxFloodWait]
  BY BackfillAssumption DEF NoWalk, WalkSteps
<1>3. walk'.step = "none" /\ task'.status # "succeeded"
  BY DEF NoWalk, NoTask, BackfillTypeOK
<1> QED
  BY <1>1, <1>2, <1>3, CompleteMeans DEF WalkOfTask, WalkHasStored

LEMMA RunStep == ASSUME BackfillInv, Run \/ Attempt PROVE BackfillInv'
<1> USE DEF BackfillInv
<1>1. CASE Run
  <2>1. /\ UNCHANGED <<latest, archive, seenAt, hook, repairing, summaryVars, mishaps>>
        /\ task' = [task EXCEPT !.status = "running"] /\ walk' = [walk EXCEPT !.step = "attempt"] /\ walk.step = "start"
    BY <1>1 DEF Run
  <2>2. /\ task'.from = task.from /\ task'.to = task.to /\ task'.status = "running"
        /\ task' \in [status : {"none", "pending", "running", "succeeded", "failed"},
                      from : {NoDay} \cup Days, to : {NoDay} \cup Days, imported : 0..LastMessage]
        /\ walk'.step = "attempt" /\ walk'.offset = walk.offset /\ walk'.processed = walk.processed
        /\ walk' \in [step : WalkSteps, offset : 0..LastMessage, processed : SUBSET Message, waited : 0..MaxFloodWait]
    BY <2>1 DEF BackfillTypeOK, WalkSteps
  <2> QED
    BY <2>1, <2>2, WalkStep
<1>2. CASE Attempt
  <2>1. /\ UNCHANGED <<latest, archive, task, seenAt, hook, repairing, summaryVars, mishaps>>
        /\ walk' = [walk EXCEPT !.step = "next"] /\ walk.step = "attempt"
    BY <1>2 DEF Attempt
  <2>2. /\ task' = task /\ task'.status \in {"pending", "running"}
        /\ task' \in [status : {"none", "pending", "running", "succeeded", "failed"},
                      from : {NoDay} \cup Days, to : {NoDay} \cup Days, imported : 0..LastMessage]
        /\ walk'.step = "next" /\ walk'.offset = walk.offset /\ walk'.processed = walk.processed
        /\ walk' \in [step : WalkSteps, offset : 0..LastMessage, processed : SUBSET Message, waited : 0..MaxFloodWait]
    BY <2>1 DEF BackfillTypeOK, WalkSteps, WalkOfTask
  <2> QED
    BY <2>1, <2>2, WalkStep
<1> QED
  BY <1>1, <1>2

LEMMA FloodStep == ASSUME BackfillInv, Flood PROVE BackfillInv'
<1> USE DEF BackfillInv
<1>1. UNCHANGED <<latest, archive, seenAt, hook, repairing, summaryVars, mishaps>> /\ walk.step = "next"
  BY DEF Flood
<1>2. CASE Waited > MaxFloodWait
  <2>1. task' = [task EXCEPT !.status = "failed"] /\ walk' = NoWalk
    BY <1>2 DEF Flood
  <2> QED
    BY <1>1, <2>1, WalkEnds DEF BackfillTypeOK, summaryVars
<1>3. CASE ~(Waited > MaxFloodWait)
  <2> DEFINE n == Cardinality(walk.processed)
  <2>1. n \in 0..LastMessage
    BY CountedMessages DEF BackfillTypeOK
  <2>2. task' = [task EXCEPT !.imported = n] /\ walk' = [walk EXCEPT !.step = "attempt", !.waited = Waited]
    BY <1>3 DEF Flood
  <2>3. Waited \in 0..MaxFloodWait
    BY <1>3, BackfillAssumption DEF Waited, BackfillTypeOK
  <2> HIDE DEF n
  <2>4. /\ task'.from = task.from /\ task'.to = task.to /\ task'.status = task.status
        /\ task' \in [status : {"none", "pending", "running", "succeeded", "failed"},
                      from : {NoDay} \cup Days, to : {NoDay} \cup Days, imported : 0..LastMessage]
    BY <2>1, <2>2 DEF BackfillTypeOK
  <2>5. /\ walk'.step = "attempt" /\ walk'.offset = walk.offset /\ walk'.processed = walk.processed
        /\ walk' \in [step : WalkSteps, offset : 0..LastMessage, processed : SUBSET Message, waited : 0..MaxFloodWait]
    BY <2>2, <2>3 DEF BackfillTypeOK, WalkSteps
  <2>6. task.status \in {"pending", "running"}
    BY <1>1 DEF WalkOfTask
  <2> QED
    BY <1>1, <2>4, <2>5, <2>6, WalkStep
<1> QED
  BY <1>2, <1>3

LEMMA GiveUpStep == ASSUME BackfillInv, FailImport \/ BackfillRestart PROVE BackfillInv'
<1> USE DEF BackfillInv
<1>1. mishaps' \in 0..MaxImportFaults
  BY BackfillAssumption DEF FailImport, BackfillRestart, Mishap, BackfillTypeOK
<1>2. CASE FailImport
  BY <1>1, <1>2, WalkEnds DEF FailImport, BackfillTypeOK, summaryVars
<1>3. CASE BackfillRestart
  <2>1. generating' \in [Days -> {Missing, Unknown} \cup 0..LastMessage]
    BY <1>3 DEF BackfillRestart
  <2> QED
    BY <1>1, <1>3, <2>1, WalkEnds DEF BackfillRestart, BackfillTypeOK
<1> QED
  BY <1>2, <1>3

\* The walk goes back by one message and has taken in all after it.
LEMMA PassOverStep == ASSUME BackfillInv, PassOver PROVE BackfillInv'
<1> USE DEF BackfillInv
<1> DEFINE n == NextMessage
<1>1. /\ walk.step = "next" /\ n # 0
      /\ walk' = [walk EXCEPT !.offset = n, !.step = IF InRange(n) /\ Storable(n) THEN "upsert" ELSE "next"]
      /\ UNCHANGED <<latest, archive, task, seenAt, hook, repairing, summaryVars, mishaps>>
  BY DEF PassOver
<1>2. latest \in Nat /\ latest <= LastMessage /\ walk.offset \in 0..latest
  BY <1>1, WantedMessages DEF WalkHasStored
<1>3. n \in 1..latest /\ (walk.offset # 0 => n = walk.offset - 1) /\ (walk.offset = 0 => n = latest)
  BY <1>1, <1>2 DEF NextMessage
<1> HIDE DEF n
<1>4. /\ walk'.offset = n /\ walk'.processed = walk.processed
      /\ walk'.step = IF InRange(n) /\ Storable(n) THEN "upsert" ELSE "next"
      /\ walk' \in [step : WalkSteps, offset : 0..LastMessage, processed : SUBSET Message, waited : 0..MaxFloodWait]
  <2>1. n \in 0..LastMessage
    BY <1>2, <1>3, LastIsNat
  <2> QED
    BY <1>1, <2>1 DEF BackfillTypeOK, WalkSteps
<1>5. BackfillTypeOK'
  BY <1>1, <1>4 DEF BackfillTypeOK, summaryVars
<1>6. Wanted' = Wanted /\ (n \in Wanted <=> InRange(n) /\ Storable(n)) /\ Wanted \subseteq 1..latest
  BY <1>1, <1>3 DEF Wanted, InRange
<1>7. WalkOfTask'
  BY <1>1, <1>4 DEF WalkOfTask
<1>8. WalkHasStored'
  <2>1. ASSUME NEW m \in Wanted, m <= seenAt, m >= n
        PROVE  m \in walk.processed \/ (InRange(n) /\ Storable(n) /\ m = n)
    <3>1. CASE m = n
      BY <1>6, <3>1
    <3>2. CASE m # n
      <4>1. m \in 1..latest /\ walk.offset # 0 /\ m >= walk.offset
        BY <1>2, <1>3, <1>6, <2>1, <3>2
      <4> QED
        BY <1>1, <2>1, <4>1 DEF WalkHasStored
    <3> QED
      BY <3>1, <3>2
  <2>2. walk.processed \subseteq Wanted \cap archive
    BY <1>1 DEF WalkHasStored
  <2>3. n \in 0..latest /\ n # 0
    BY <1>2, <1>3
  <2>4. (InRange(n) /\ Storable(n)) => n \in Wanted
    BY <1>6
  <2>5. /\ walk'.step \in {"upsert", "next"}
        /\ walk'.step = "upsert" <=> InRange(n) /\ Storable(n)
    BY <1>4
  <2> QED
    BY <1>1, <1>4, <1>6, <2>1, <2>2, <2>3, <2>4, <2>5 DEF WalkHasStored
<1>9. BackfillComplete'
  BY <1>1, CompleteMeans DEF WalkOfTask
<1> QED
  BY <1>1, <1>5, <1>7, <1>8, <1>9

LEMMA UpsertStep == ASSUME BackfillInv, Upsert PROVE BackfillInv'
<1> USE DEF BackfillInv
<1>1. /\ walk.step = "upsert" /\ archive' = archive \cup {walk.offset}
      /\ walk' = [walk EXCEPT !.step = "next", !.processed = @ \cup {walk.offset}]
      /\ UNCHANGED <<latest, task, seenAt, hook, repairing, summaryVars, mishaps>>
  BY DEF Upsert
<1>2. walk.offset \in Wanted /\ walk.offset \in 0..latest
  BY <1>1 DEF WalkHasStored
<1>3. walk.offset \in Message \ ServiceMessages
  BY <1>2, WantedMessages DEF Wanted, Storable
<1>4. /\ walk'.step = "next" /\ walk'.offset = walk.offset /\ walk'.processed = walk.processed \cup {walk.offset}
      /\ walk' \in [step : WalkSteps, offset : 0..LastMessage, processed : SUBSET Message, waited : 0..MaxFloodWait]
  BY <1>1, <1>3 DEF BackfillTypeOK, WalkSteps
<1>5. BackfillTypeOK'
  BY <1>1, <1>3, <1>4 DEF BackfillTypeOK, summaryVars
<1>6. Wanted' = Wanted
  BY <1>1 DEF Wanted, InRange
<1>7. WalkOfTask'
  BY <1>1, <1>4 DEF WalkOfTask
<1>8. WalkHasStored'
  <2>1. walk.processed \subseteq Wanted \cap archive /\ (walk.offset = 0 => walk.offset \notin Wanted)
    BY <1>1, WantedMessages DEF WalkHasStored, Wanted
  <2>2. walk'.processed \subseteq Wanted' \cap archive'
    BY <1>1, <1>2, <1>4, <1>6, <2>1
  <2>3. \A m \in Wanted : m <= seenAt /\ m >= walk.offset => m \in walk'.processed
    BY <1>1, <1>2, <1>4, <2>1 DEF WalkHasStored
  <2> QED
    BY <1>1, <1>2, <1>4, <1>6, <2>1, <2>2, <2>3 DEF WalkHasStored
<1>9. BackfillComplete'
  BY <1>1, CompleteMeans DEF WalkOfTask
<1> QED
  BY <1>1, <1>5, <1>7, <1>8, <1>9

\* A walk that has come to the end, or before the range, has all it wants.
LEMMA SucceedStep == ASSUME BackfillInv, Succeed PROVE BackfillInv'
<1> USE DEF BackfillInv
<1> DEFINE n == Cardinality(walk.processed)
<1>1. /\ walk.step = "next" /\ (NextMessage = 0 \/ PastRange(NextMessage))
      /\ task' = [task EXCEPT !.status = "succeeded", !.imported = n]
      /\ walk' = NoWalk /\ hook' = Days \cap (task.from..task.to)
      /\ UNCHANGED <<latest, archive, seenAt, repairing, summaryVars, mishaps>>
  BY DEF Succeed
<1>2. walk.processed \subseteq Wanted \cap archive /\ walk.offset \in 0..latest /\ latest \in Nat /\ latest <= LastMessage
  BY <1>1, WantedMessages DEF WalkHasStored
<1>3. ASSUME NEW m \in Early PROVE m \in walk.processed
  <2>1. m \in 1..latest /\ m \in 1..LastMessage /\ InRange(m) /\ m \in Wanted /\ m <= seenAt
    BY <1>2, <1>3, LastIsNat DEF Early, Wanted
  <2>2. walk.offset # 0 /\ m >= walk.offset
    <3>1. CASE NextMessage = 0
      BY <1>2, <2>1, <3>1 DEF NextMessage
    <3>2. CASE NextMessage # 0 /\ PastRange(NextMessage)
      <4>1. NextMessage \in 1..latest /\ NextMessage \in 1..LastMessage
        BY <1>2, <3>2, LastIsNat DEF NextMessage
      <4>2. Day(m) \in Nat /\ Day(NextMessage) \in Nat
        BY <2>1, <4>1, BackfillAssumption
      <4> HIDE DEF BackfillInv
      <4>4. task.from \in {NoDay} \cup Days /\ task.to \in {NoDay} \cup Days
        BY DEF BackfillInv, BackfillTypeOK
      <4>5. task.from \in Nat /\ task.to \in Nat
        <5>1. Days \subseteq Nat /\ NoDay \in Nat
          BY BackfillAssumption DEF NoDay
        <5> QED
          BY <4>4, <5>1
      <4>6. Day(m) >= task.from
        BY <2>1, <4>2, <4>5 DEF InRange
      <4>3. ~(m <= NextMessage)
        <5>1. m < NextMessage => Day(m) <= Day(NextMessage)
          BY <2>1, <4>1, BackfillAssumption
        <5> QED
          BY <2>1, <3>2, <4>1, <4>2, <4>5, <4>6, <5>1 DEF PastRange
      <4> QED
        BY <1>2, <2>1, <4>1, <4>3 DEF NextMessage
    <3> QED
      BY <1>1, <3>1, <3>2
  <2> QED
    BY <1>1, <2>1, <2>2 DEF WalkHasStored
<1>4. Early \subseteq walk.processed
  BY <1>3
<1>5. Cardinality(Early) <= n /\ n <= Cardinality(Wanted) /\ n \in Nat /\ Cardinality(Early) \in Nat /\ Cardinality(Wanted) \in Nat
  BY <1>2, <1>4, MoreMessages, WantedMessages
<1>6. n \in 0..LastMessage
  BY CountedMessages DEF BackfillTypeOK
<1> HIDE DEF n
<1>7. /\ task'.from = task.from /\ task'.to = task.to /\ task'.imported = n
      /\ task' \in [status : {"none", "pending", "running", "succeeded", "failed"},
                    from : {NoDay} \cup Days, to : {NoDay} \cup Days, imported : 0..LastMessage]
  BY <1>1, <1>6 DEF BackfillTypeOK
<1>8. walk' \in [step : WalkSteps, offset : 0..LastMessage, processed : SUBSET Message, waited : 0..MaxFloodWait]
  BY <1>1, BackfillAssumption DEF NoWalk, WalkSteps
<1>9. BackfillTypeOK'
  BY <1>1, <1>7, <1>8 DEF BackfillTypeOK, summaryVars
<1>10. Wanted' = Wanted /\ Early' = Early
  BY <1>1, <1>7 DEF Wanted, Early, InRange
<1>11. StoredAll'
  <2>1. Early \subseteq archive
    BY <1>2, <1>4
  <2>2. n \in Cardinality(Early)..Cardinality(Wanted)
    BY <1>5
  <2> QED
    BY <1>1, <1>7, <1>10, <2>1, <2>2 DEF StoredAll
<1>12. WalkOfTask' /\ WalkHasStored'
  BY <1>1 DEF WalkOfTask, WalkHasStored, NoWalk
<1> QED
  BY <1>1, <1>9, <1>11, <1>12, CompleteMeans

LEMMA BackfillInvStep == ASSUME BackfillInv, [BackfillNext]_backfillVars PROVE BackfillInv'
<1>1. CASE UNCHANGED backfillVars
  BY <1>1, ImportKept DEF backfillVars, BackfillInv, BackfillTypeOK
<1>2. CASE ArriveLive
  BY <1>2, ArriveStep
<1>3. CASE Import
  BY <1>3, RunStep, SucceedStep, PassOverStep, UpsertStep, FloodStep DEF Import
<1>4. CASE FailImport \/ BackfillRestart
  BY <1>4, GiveUpStep
<1>5. ASSUME NEW from \in Days, NEW to \in Days, StartHistoryBackfill(from, to) PROVE BackfillInv'
  BY <1>5, StartBackfillStep
<1>6. CASE \/ Repair \/ RepairFails
           \/ \E d \in Days : GenerateOther(d) \/ ReadMessages(d) \/ SaveSummary(d) \/ FailSummary(d)
  BY <1>6, SummariesStep
<1> QED
  BY <1>1, <1>2, <1>3, <1>4, <1>5, <1>6 DEF BackfillNext

\* A back-fill that reports success has stored every message of its range
\* that existed when it was asked for and can be stored, and has counted each
\* of them once, whatever arrived meanwhile and however often a rate limit
\* made it wait (runHistoryBackfill, importChatHistory).
THEOREM BackfillStoresAll == BackfillSpec => []BackfillComplete
<1>1. BackfillInv => BackfillComplete
  BY DEF BackfillInv
<1> QED
  BY <1>1, BackfillInitInv, BackfillInvStep, PTL DEF BackfillSpec
-----------------------------------------------------------------------------
(* MessagePages                                                             *)

\* The messages are in a total order, and their days follow it.
LEMMA PostsOrdered ==
  ASSUME NEW p \in Posts, NEW q \in Posts
  PROVE  /\ p = q \/ Earlier(p, q) \/ Earlier(q, p)
         /\ ~Earlier(p, p) /\ (Earlier(p, q) => ~Earlier(q, p))
         /\ \A r \in Posts : Earlier(p, q) /\ Earlier(q, r) => Earlier(p, r)
         /\ ~Earlier(q, p) => LocalDay(p) <= LocalDay(q)
<1>1. /\ p \in Nat /\ q \in Nat /\ SentAt(p) \in Nat /\ SentAt(q) \in Nat
      /\ \A r \in Posts : r \in Nat /\ SentAt(r) \in Nat
      /\ SentAt(p) <= SentAt(q) => LocalDay(p) <= LocalDay(q)
  BY PagesAssumption
<1> QED
  BY <1>1 DEF Earlier

LEMMA SomePosts ==
  ASSUME NEW S, S \subseteq Posts
  PROVE  /\ IsFiniteSet(S) /\ Cardinality(S) \in Nat
         /\ \A T : T \subseteq S => IsFiniteSet(T) /\ Cardinality(T) \in Nat /\ Cardinality(T) <= Cardinality(S)
         /\ \A T : T \subseteq S /\ T # S => Cardinality(T) < Cardinality(S)
<1>1. IsFiniteSet(S) /\ Cardinality(S) \in Nat
  BY PagesAssumption, FS_Subset, FS_CardinalityType
<1>2. ASSUME NEW T, T \subseteq S
      PROVE  IsFiniteSet(T) /\ Cardinality(T) \in Nat /\ Cardinality(T) <= Cardinality(S)
  <2>1. IsFiniteSet(T) /\ Cardinality(T) <= Cardinality(S)
    BY <1>1, <1>2, FS_Subset
  <2> QED
    BY <2>1, FS_CardinalityType
<1>3. ASSUME NEW T, T \subseteq S, T # S PROVE Cardinality(T) < Cardinality(S)
  <2>1. Cardinality(S) # Cardinality(T)
    BY <1>1, <1>3, FS_Subset
  <2> QED
    BY <1>1, <1>2, <1>3, <2>1
<1> QED
  BY <1>1, <1>2, <1>3

\* Messages have a latest one: with a later one there would be fewer after it.
LEMMA LatestPost ==
  ASSUME NEW S, S \subseteq Posts, S # {}
  PROVE  \E p \in S : \A q \in S : ~Earlier(p, q)
<1> DEFINE After(p) == {q \in S : Earlier(p, q)}
<1> DEFINE Counts0 == {Cardinality(After(p)) : p \in S}
<1>1. Counts0 \subseteq Nat /\ Counts0 # {}
  <2>1. \A p \in S : Cardinality(After(p)) \in Nat
    BY SomePosts
  <2> QED
    BY <2>1
<1>2. PICK n \in Counts0 : \A m \in Counts0 : n <= m
  <2> HIDE DEF Counts0
  <2> QED
    BY <1>1, LeastOfSet
<1>3. PICK p \in S : n = Cardinality(After(p))
  BY <1>2
<1>4. ASSUME NEW q \in S, Earlier(p, q) PROVE FALSE
  <2>1. After(q) \subseteq After(p) /\ q \in After(p) /\ q \notin After(q) /\ After(p) \subseteq Posts
    BY <1>4, PostsOrdered
  <2> HIDE DEF After
  <2>2. Cardinality(After(q)) < Cardinality(After(p)) /\ Cardinality(After(q)) \in Nat /\ Cardinality(After(p)) \in Nat
    BY <2>1, SomePosts
  <2>3. Cardinality(After(q)) \in Counts0
    OBVIOUS
  <2>4. n <= Cardinality(After(q))
    BY <1>2, <2>3
  <2> QED
    BY <1>3, <2>2, <2>4
<1> QED
  BY <1>4

LEMMA EarliestPost ==
  ASSUME NEW S, S \subseteq Posts, S # {}
  PROVE  \E p \in S : \A q \in S : ~Earlier(q, p)
<1> DEFINE Ahead(p) == {q \in S : Earlier(q, p)}
<1> DEFINE Counts0 == {Cardinality(Ahead(p)) : p \in S}
<1>1. Counts0 \subseteq Nat /\ Counts0 # {}
  <2>1. \A p \in S : Cardinality(Ahead(p)) \in Nat
    BY SomePosts
  <2> QED
    BY <2>1
<1>2. PICK n \in Counts0 : \A m \in Counts0 : n <= m
  <2> HIDE DEF Counts0
  <2> QED
    BY <1>1, LeastOfSet
<1>3. PICK p \in S : n = Cardinality(Ahead(p))
  BY <1>2
<1>4. ASSUME NEW q \in S, Earlier(q, p) PROVE FALSE
  <2>1. Ahead(q) \subseteq Ahead(p) /\ q \in Ahead(p) /\ q \notin Ahead(q) /\ Ahead(p) \subseteq Posts
    BY <1>4, PostsOrdered
  <2> HIDE DEF Ahead
  <2>2. Cardinality(Ahead(q)) < Cardinality(Ahead(p)) /\ Cardinality(Ahead(q)) \in Nat /\ Cardinality(Ahead(p)) \in Nat
    BY <2>1, SomePosts
  <2>3. Cardinality(Ahead(q)) \in Counts0
    OBVIOUS
  <2>4. n <= Cardinality(Ahead(q))
    BY <1>2, <2>3
  <2> QED
    BY <1>3, <2>2, <2>4
<1> QED
  BY <1>4

\* The query of one message more than the limit: if it returns no more than
\* the limit, the page is all there is; otherwise the page is all from its
\* oldest message on.
LEMMA PageOf ==
  ASSUME NEW S, S \subseteq Posts, NEW limit \in Nat \ {0}
  PROVE  LET rows == Newest(S, limit + 1)
             page == Newest(rows, limit) IN
         /\ page \subseteq S
         /\ Cardinality(rows) <= limit => page = S
         /\ Cardinality(rows) \in Nat
         /\ Cardinality(rows) > limit =>
              /\ page # {} /\ OldestOf(page) \in page
              /\ \A q \in S : q \in page <=> ~Earlier(q, OldestOf(page))
<1> DEFINE rows == Newest(S, limit + 1)
           page == Newest(rows, limit)
           After(set, p) == {q \in set : Earlier(p, q)}
<1>1. /\ \A p : p \in rows <=> p \in S /\ Cardinality(After(S, p)) < limit + 1
      /\ \A p : p \in page <=> p \in rows /\ Cardinality(After(rows, p)) < limit
  BY DEF Newest
<1>2. rows \subseteq S /\ page \subseteq rows /\ rows \subseteq Posts
  BY <1>1
<1>3. /\ Cardinality(rows) \in Nat
      /\ \A p : Cardinality(After(S, p)) \in Nat /\ Cardinality(After(rows, p)) \in Nat
  <2>1. \A p : After(S, p) \subseteq S /\ After(rows, p) \subseteq rows
    OBVIOUS
  <2> HIDE DEF rows, After
  <2> QED
    BY <1>2, <2>1, SomePosts
<1>4. ASSUME Cardinality(rows) <= limit PROVE page = S
  <2>1. rows = S
    <3>1. SUFFICES ASSUME S \ rows # {} PROVE FALSE
      BY <1>2
    <3>2. PICK p \in S \ rows : \A q \in S \ rows : ~Earlier(p, q)
      <4>1. S \ rows \subseteq Posts
        OBVIOUS
      <4> HIDE DEF rows
      <4> QED
        BY <3>1, <4>1, LatestPost
    <3>3. After(S, p) \subseteq rows
      BY <3>2
    <3>4. Cardinality(After(S, p)) <= Cardinality(rows)
      <4> HIDE DEF rows, After
      <4> QED
        BY <1>2, <3>3, SomePosts
    <3>5. ~(Cardinality(After(S, p)) < limit + 1)
      BY <1>1, <3>2
    <3> HIDE DEF rows, After
    <3> QED
      BY <1>3, <1>4, <3>4, <3>5
  <2>2. ASSUME NEW p \in rows PROVE p \in page
    <3>1. After(rows, p) \subseteq rows /\ p \notin After(rows, p)
      BY <1>2, PostsOrdered
    <3> HIDE DEF rows, After, page
    <3>2. Cardinality(After(rows, p)) < Cardinality(rows)
      BY <1>2, <3>1, SomePosts
    <3>3. Cardinality(After(rows, p)) < limit
      BY <1>3, <1>4, <3>2
    <3> QED
      BY <1>1, <3>3
  <2> QED
    BY <1>2, <2>1, <2>2
<1>5. ASSUME Cardinality(rows) > limit
      PROVE  /\ page # {} /\ OldestOf(page) \in page
             /\ \A q \in S : q \in page <=> ~Earlier(q, OldestOf(page))
  <2>1. page # {}
    <3>1. rows # {}
      <4> HIDE DEF rows
      <4> QED
        BY <1>3, <1>5, FS_EmptySet
    <3>2. PICK p \in rows : \A q \in rows : ~Earlier(p, q)
      <4> HIDE DEF rows
      <4> QED
        BY <1>2, <3>1, LatestPost
    <3>3. After(rows, p) = {}
      BY <3>2
    <3> HIDE DEF rows, After, page
    <3>4. Cardinality(After(rows, p)) < limit
      BY <3>3, FS_EmptySet
    <3> QED
      BY <1>1, <3>2, <3>4
  <2> DEFINE c == OldestOf(page)
  <2>2. c \in page /\ \A q \in page : c = q \/ Earlier(c, q)
    <3> HIDE DEF rows, page
    <3>1. page \subseteq Posts
      BY <1>2
    <3>2. \E p \in page : \A q \in page : ~Earlier(q, p)
      BY <2>1, <3>1, EarliestPost
    <3>3. \E p \in page : \A q \in page : p = q \/ Earlier(p, q)
      BY <3>1, <3>2, PostsOrdered
    <3> QED
      BY <3>3 DEF OldestOf
  <2> HIDE DEF c
  <2>3. ASSUME NEW q \in page PROVE ~Earlier(q, c)
    BY <1>2, <2>2, <2>3, PostsOrdered
  <2>4. ASSUME NEW q \in S, ~Earlier(q, c) PROVE q \in page
    <3>1. c \in rows /\ c \in S /\ c \in Posts /\ q \in Posts /\ (q = c \/ Earlier(c, q))
      BY <1>2, <2>2, <2>4, PostsOrdered
    <3>2. After(S, q) \subseteq After(S, c) /\ After(rows, q) \subseteq After(rows, c) /\ After(S, c) \subseteq Posts /\ After(rows, c) \subseteq Posts
      BY <1>2, <3>1, PostsOrdered
    <3> HIDE DEF rows, After, page
    <3>3. /\ Cardinality(After(S, q)) <= Cardinality(After(S, c))
          /\ Cardinality(After(rows, q)) <= Cardinality(After(rows, c))
      BY <3>2, SomePosts
    <3>4. Cardinality(After(S, c)) < limit + 1 /\ Cardinality(After(rows, c)) < limit
      BY <1>1, <2>2, <3>1
    <3>5. Cardinality(After(S, q)) < limit + 1 /\ Cardinality(After(rows, q)) < limit
      BY <1>3, <3>3, <3>4
    <3> QED
      BY <1>1, <3>5
  <2> QED
    BY <1>2, <2>1, <2>2, <2>3, <2>4 DEF c
<1> HIDE DEF rows, page, After
<1>6. page \subseteq S
  BY <1>2
<1> QED
  BY <1>3, <1>4, <1>5, <1>6 DEF rows, page

\* What the reader has gone past: the days after the one shown, and of this
\* day what is not before the cursor, all of it once its first page is read.
Behind(p) ==
  \/ LocalDay(p) > reading.day
  \/ /\ LocalDay(p) = reading.day
     /\ IF reading.more THEN ~Earlier(p, reading.cursor) ELSE reading.step \in {"after", "dates", "shown"}

\* A window is read in two halves, of which the first ends at its message.
WindowReading ==
  /\ reading.step \in {"before", "after"} =>
       reading.focus \in posts /\ LocalDay(reading.focus) = reading.day
  /\ reading.step = "before" =>
       /\ reading.shown = {} /\ ~reading.more /\ reading.focus \in Visible(reading.filters)
       /\ \A p \in reading.promised : ~Earlier(reading.focus, p)
  /\ reading.step = "after" =>
       /\ \A p \in reading.shown : ~Earlier(reading.focus, p)
       /\ reading.more => ~Earlier(reading.focus, reading.cursor)

\* The reader has been shown what was promised and is behind, and nothing that
\* is still ahead.
ShownBehind ==
  /\ reading.step = "closed" => reading.shown = {} /\ reading.promised = {} /\ ~reading.more
  /\ reading.more <=> reading.cursor # NoCursor
  /\ reading.promised \subseteq Visible(reading.filters)
  /\ \A p \in reading.shown : Behind(p)
  /\ \A p \in reading.promised : Behind(p) => p \in reading.shown
  /\ reading.step = "shown" =>
       /\ reading.previous # NoDate => reading.previous < reading.day
       /\ \A p \in reading.promised :
            LocalDay(p) < reading.day => reading.previous # NoDate /\ LocalDay(p) <= reading.previous

PagesInv == PagesTypeOK /\ reading.again = {} /\ ShownBehind /\ WindowReading

LEMMA PagesShown == PagesInv => ShownOnce
<1> SUFFICES ASSUME PagesInv, reading.step = "shown", ~reading.more, reading.previous = NoDate,
                    NEW p \in reading.promised
             PROVE  p \in reading.shown
  BY DEF PagesInv, ShownOnce
<1> USE DEF PagesInv
<1>1. p \in Posts /\ LocalDay(p) \in Nat /\ reading.day \in Nat
  BY PagesAssumption DEF PagesTypeOK, NoDate
<1>2. ~(LocalDay(p) < reading.day)
  BY DEF ShownBehind
<1>3. Behind(p)
  BY <1>1, <1>2 DEF Behind
<1> QED
  BY <1>3 DEF ShownBehind

LEMMA PagesInitInv == PagesInit => PagesInv
BY DEF PagesInit, PagesInv, PagesTypeOK, ReadSteps, NoDate, NoCursor, ShownBehind, WindowReading, Visible

\* The latest day of some messages.
LEMMA LatestDay ==
  ASSUME NEW S, S \subseteq Posts, S # {}
  PROVE  LET days == {LocalDay(p) : p \in S}
             day == CHOOSE d \in days : \A e \in days : e <= d IN
         day \in days /\ \A p \in S : LocalDay(p) <= day
<1> DEFINE days == {LocalDay(p) : p \in S}
<1>1. PICK p \in S : \A q \in S : ~Earlier(p, q)
  BY LatestPost
<1>2. \A q \in S : LocalDay(q) <= LocalDay(p)
  BY <1>1, PostsOrdered
<1>3. \E d \in days : \A e \in days : e <= d
  BY <1>2
<1>4. (CHOOSE d \in days : \A e \in days : e <= d) \in days /\ \A e \in days : e <= (CHOOSE d \in days : \A f \in days : f <= d)
  <2> HIDE DEF days
  <2> QED
    BY <1>3
<1> QED
  BY <1>4

\* The posts of a day, and a message that is stored.
LEMMA DayPosts ==
  ASSUME PagesTypeOK, NEW filters, NEW day
  PROVE  /\ Visible(filters) \subseteq posts /\ posts \subseteq Posts
         /\ OfDay(filters, day) = {p \in Visible(filters) : LocalDay(p) = day}
         /\ \A p \in Posts : LocalDay(p) \in Nat \ {0}
         /\ reading.day \in Nat /\ CurrentDay \in Nat \ {0}
BY PagesAssumption DEF PagesTypeOK, Visible, OfDay, NoDate

LEMMA StorePostStep == ASSUME PagesInv, NEW p \in Posts, StorePost(p) PROVE PagesInv'
<1> USE DEF PagesInv
<1>1. posts \subseteq posts' /\ posts' \subseteq Posts /\ reading' = reading
  BY DEF StorePost, PagesTypeOK
<1>2. \A filters : Visible(filters) \subseteq Visible(filters)'
  BY <1>1 DEF Visible
<1>3. PagesTypeOK'
  BY <1>1 DEF PagesTypeOK
<1>4. \A q : Behind(q)' <=> Behind(q)
  BY <1>1 DEF Behind
<1>5. ShownBehind'
  BY <1>1, <1>2, <1>4 DEF ShownBehind
<1>6. WindowReading'
  BY <1>1, <1>2 DEF WindowReading
<1> QED
  BY <1>1, <1>3, <1>5, <1>6

\* The page the web interface keeps is a record of these.
LEMMA ReadingTyped ==
  ASSUME PagesTypeOK
  PROVE  reading \in [step : ReadSteps, filters : BOOLEAN,
                      day : {NoDate, CurrentDay} \cup {LocalDay(p) : p \in Posts},
                      cursor : {NoCursor} \cup Posts, focus : {0} \cup Posts, more : BOOLEAN,
                      previous : {NoDate} \cup {LocalDay(p) : p \in Posts},
                      shown : SUBSET Posts, again : SUBSET Posts, promised : SUBSET Posts]
BY DEF PagesTypeOK

LEMMA OpenLatestStep == ASSUME PagesInv, NEW filters \in BOOLEAN, OpenLatest(filters) PROVE PagesInv'
<1> USE DEF PagesInv
<1> DEFINE day == LatestDate(filters)
           P == {p \in Visible(filters) : LocalDay(p) <= day}
<1>1. day \in {CurrentDay} \cup {LocalDay(p) : p \in Posts}
  <2> DEFINE S == {q \in Visible(filters) : LocalDay(q) <= CurrentDay}
  <2>1. S \subseteq Posts
    BY DayPosts
  <2>2. CASE S = {}
    BY <2>2 DEF LatestDate
  <2>3. CASE S # {}
    <3>1. day = CHOOSE d \in {LocalDay(p) : p \in S} : \A e \in {LocalDay(p) : p \in S} : e <= d
      BY <2>3 DEF LatestDate
    <3> HIDE DEF S, day
    <3>2. day \in {LocalDay(p) : p \in S}
      BY <2>1, <2>3, <3>1, LatestDay
    <3> QED
      BY <2>1, <3>2
  <2> QED
    BY <2>2, <2>3
<1>2. P \subseteq Visible(filters) /\ P \subseteq Posts
  BY DayPosts
<1>3. posts' = posts /\ reading.step = "closed"
      /\ reading' = [reading EXCEPT !.step = "page", !.filters = filters, !.day = day, !.promised = P]
  BY DEF OpenLatest
<1>4. day \in Nat /\ \A p \in P : LocalDay(p) \in Nat /\ LocalDay(p) <= day
  BY <1>1, <1>2, PagesAssumption
<1> HIDE DEF day, P
<1>5. /\ reading'.step = "page" /\ reading'.filters = filters /\ reading'.day = day /\ reading'.promised = P
      /\ reading'.more = reading.more /\ reading'.cursor = reading.cursor /\ reading'.shown = reading.shown
      /\ reading'.again = reading.again /\ reading'.previous = reading.previous
  BY <1>3, ReadingTyped
<1>6. PagesTypeOK'
  BY <1>1, <1>2, <1>3, ReadingTyped DEF PagesTypeOK, ReadSteps
<1>7. reading.shown = {} /\ ~reading.more
  BY <1>3 DEF ShownBehind
<1>8. ShownBehind'
  BY <1>2, <1>3, <1>4, <1>5, <1>7 DEF ShownBehind, Behind, Visible
<1>9. WindowReading'
  BY <1>5 DEF WindowReading
<1> QED
  BY <1>3, <1>5, <1>6, <1>8, <1>9

LEMMA OpenAroundStep == ASSUME PagesInv, NEW p \in Posts, NEW filters \in BOOLEAN, OpenAround(p, filters) PROVE PagesInv'
<1> USE DEF PagesInv
<1> DEFINE P == {q \in Visible(filters) : q = p \/ Earlier(q, p)}
<1>1. P \subseteq Visible(filters) /\ P \subseteq Posts /\ p \in Visible(filters) /\ p \in posts
  BY DayPosts DEF OpenAround
<1>2. posts' = posts /\ reading.step = "closed"
      /\ reading' = [reading EXCEPT !.step = "before", !.filters = filters, !.day = LocalDay(p), !.focus = p, !.promised = P]
  BY DEF OpenAround
<1>3. \A q \in P : ~Earlier(p, q) /\ LocalDay(q) \in Nat /\ LocalDay(q) <= LocalDay(p)
  BY <1>1, PostsOrdered, PagesAssumption
<1>4. LocalDay(p) \in Nat
  BY PagesAssumption
<1> HIDE DEF P
<1>5. /\ reading'.step = "before" /\ reading'.filters = filters /\ reading'.day = LocalDay(p)
      /\ reading'.focus = p /\ reading'.promised = P
      /\ reading'.more = reading.more /\ reading'.cursor = reading.cursor /\ reading'.shown = reading.shown
      /\ reading'.again = reading.again /\ reading'.previous = reading.previous
  BY <1>2, ReadingTyped
<1>6. PagesTypeOK'
  BY <1>1, <1>2, ReadingTyped DEF PagesTypeOK, ReadSteps
<1>7. reading.shown = {} /\ ~reading.more
  BY <1>2 DEF ShownBehind
<1>8. ShownBehind'
  BY <1>1, <1>2, <1>3, <1>4, <1>5, <1>7 DEF ShownBehind, Behind, Visible
<1>9. WindowReading'
  BY <1>1, <1>2, <1>3, <1>5, <1>7 DEF WindowReading, Visible
<1> QED
  BY <1>2, <1>5, <1>6, <1>8, <1>9

\* A page joins what was shown; the cursor goes back to its first message.
LEMMA PageStep ==
  ASSUME PagesInv, reading.step \in {"page", "before"}, posts' = posts,
         NEW S, S \subseteq OfDay(reading.filters, reading.day), NEW limit \in Nat \ {0},
         NEW next \in {"dates", "after"},
         reading.shown \cap S = {},
         \A p \in reading.promised :
           LocalDay(p) = reading.day => p \in S \/ (reading.more /\ ~Earlier(p, reading.cursor)),
         reading.more => \A p \in S : Earlier(p, reading.cursor),
         next = "after" =>
           /\ reading.step = "before"
           /\ \A p \in S : ~Earlier(reading.focus, p),
         LET rows == Newest(S, limit + 1)
             more == Cardinality(rows) > limit
             page == Newest(rows, limit) IN
         reading' = [Show(reading, page) EXCEPT !.step = next, !.more = more, !.cursor = CursorOf(page, more)]
  PROVE  PagesInv'
<1> USE DEF PagesInv
<1> DEFINE rows == Newest(S, limit + 1)
           more == Cardinality(rows) > limit
           page == Newest(rows, limit)
           c == OldestOf(page)
<1>1. S \subseteq Posts /\ S \subseteq posts /\ S \subseteq Visible(reading.filters) /\ \A p \in S : LocalDay(p) = reading.day
  BY DayPosts
<1>2. /\ page \subseteq S
      /\ ~more => page = S
      /\ more => page # {} /\ c \in page /\ \A q \in S : q \in page <=> ~Earlier(q, c)
  <2>1. /\ page \subseteq S
        /\ Cardinality(rows) <= limit => page = S
        /\ Cardinality(rows) \in Nat
        /\ more => page # {} /\ c \in page /\ \A q \in S : q \in page <=> ~Earlier(q, c)
    BY <1>1, PageOf
  <2>2. ~more => Cardinality(rows) <= limit
    <3> HIDE DEF rows
    <3> QED
      BY <2>1
  <2> QED
    BY <2>1, <2>2
<1>3. more \in BOOLEAN
  OBVIOUS
<1>4. CursorOf(page, more) = IF more THEN c ELSE NoCursor
  BY <1>2 DEF CursorOf
<1>5. reading' = [Show(reading, page) EXCEPT !.step = next, !.more = more, !.cursor = CursorOf(page, more)]
  OBVIOUS
<1> HIDE DEF rows, page, more, c
<1>6. page \subseteq Posts /\ page \cap reading.shown = {}
  BY <1>1, <1>2
<1>7. (IF more THEN c ELSE NoCursor) \in {NoCursor} \cup Posts /\ (more => c \in Posts /\ c # NoCursor)
  BY <1>2, <1>6, PagesAssumption DEF NoCursor
<1>8. /\ reading'.step = next /\ reading'.more = more /\ reading'.cursor = (IF more THEN c ELSE NoCursor)
      /\ reading'.shown = reading.shown \cup page /\ reading'.again = {}
      /\ reading'.day = reading.day /\ reading'.filters = reading.filters /\ reading'.promised = reading.promised
      /\ reading'.previous = reading.previous /\ reading'.focus = reading.focus
  BY <1>4, <1>5, <1>6, ReadingTyped, ZenonT(30) DEF Show
<1>9. PagesTypeOK'
  <2>1. reading.again \cup (reading.shown \cap page) \in SUBSET Posts /\ reading.shown \cup page \in SUBSET Posts
    BY <1>6, ReadingTyped
  <2>2. Show(reading, page) \in
          [step : ReadSteps, filters : BOOLEAN,
           day : {NoDate, CurrentDay} \cup {LocalDay(p) : p \in Posts},
           cursor : {NoCursor} \cup Posts, focus : {0} \cup Posts, more : BOOLEAN,
           previous : {NoDate} \cup {LocalDay(p) : p \in Posts},
           shown : SUBSET Posts, again : SUBSET Posts, promised : SUBSET Posts]
    BY <2>1, ReadingTyped DEF Show
  <2>3. next \in ReadSteps
    BY DEF ReadSteps
  <2>4. CursorOf(page, more) \in {NoCursor} \cup Posts
    BY <1>4, <1>7
  <2> QED
    BY <1>3, <1>5, <2>2, <2>3, <2>4, ZenonT(30) DEF PagesTypeOK
<1>10. \A p \in reading.shown \cup page : Behind(p)'
  <2>1. ASSUME NEW p \in page PROVE Behind(p)'
    BY <1>1, <1>2, <1>8, <2>1 DEF Behind
  <2>2. ASSUME NEW p \in reading.shown PROVE Behind(p)'
    <3>1. p \in Posts /\ Behind(p)
      BY ReadingTyped DEF ShownBehind
    <3>2. CASE LocalDay(p) > reading.day
      BY <1>8, <3>2 DEF Behind
    <3>3. CASE ~(LocalDay(p) > reading.day)
      <4>1. LocalDay(p) = reading.day /\ reading.more /\ ~Earlier(p, reading.cursor)
        BY <3>1, <3>3 DEF Behind
      <4>2. reading.cursor \in Posts
        BY <4>1, ReadingTyped DEF ShownBehind
      <4>3. more => Earlier(c, reading.cursor) /\ ~Earlier(p, c)
        BY <1>2, <1>6, <3>1, <4>1, <4>2, PostsOrdered
      <4> QED
        BY <1>8, <4>1, <4>3 DEF Behind
    <3> QED
      BY <3>2, <3>3
  <2> QED
    BY <2>1, <2>2
<1>11. ASSUME NEW p \in reading.promised, Behind(p)' PROVE p \in reading.shown \cup page
  <2>1. CASE Behind(p)
    BY <2>1 DEF ShownBehind
  <2>2. CASE ~Behind(p)
    <3>1. ~(LocalDay(p) > reading.day) /\ LocalDay(p) = reading.day
      BY <1>8, <1>11, <2>2 DEF Behind
    <3>2. p \in S
      BY <2>2, <3>1 DEF Behind
    <3>3. more => ~Earlier(p, c)
      BY <1>8, <1>11, <3>1, ZenonT(30) DEF Behind
    <3> QED
      BY <1>2, <3>2, <3>3
  <2> QED
    BY <2>1, <2>2
<1>12. ShownBehind'
  BY <1>7, <1>8, <1>10, <1>11 DEF ShownBehind, Visible
<1>13. WindowReading'
  BY <1>1, <1>2, <1>8 DEF WindowReading, Visible
<1> QED
  BY <1>8, <1>9, <1>12, <1>13

LEMMA ListPageStep == ASSUME PagesInv, ListPage PROVE PagesInv'
<1> USE DEF PagesInv
<1> DEFINE S == {p \in OfDay(reading.filters, reading.day) : Before(p, reading.cursor)}
<1>1. reading.step = "page" /\ posts' = posts
  BY DEF ListPage
<1>2. \A p \in S : p \in Posts /\ LocalDay(p) = reading.day /\ (reading.more => Earlier(p, reading.cursor))
  BY DayPosts DEF Before, ShownBehind
<1>3. ASSUME NEW p \in reading.shown PROVE p \notin S
  <2>1. p \in Posts /\ Behind(p) /\ reading.day \in Nat
    BY ReadingTyped, DayPosts DEF ShownBehind
  <2> QED
    BY <1>1, <1>2, <2>1 DEF Behind
<1>4. ASSUME NEW p \in reading.promised, LocalDay(p) = reading.day
      PROVE  p \in S \/ (reading.more /\ ~Earlier(p, reading.cursor))
  <2>1. p \in OfDay(reading.filters, reading.day)
    BY <1>4, DayPosts DEF ShownBehind
  <2> QED
    BY <2>1 DEF Before, ShownBehind
<1>5. LET rows == Newest(S, PageLimit + 1)
          more == Cardinality(rows) > PageLimit
          page == Newest(rows, PageLimit) IN
      reading' = [Show(reading, page) EXCEPT !.step = "dates", !.more = more, !.cursor = CursorOf(page, more)]
  BY DEF ListPage
<1>6. S \subseteq OfDay(reading.filters, reading.day) /\ PageLimit \in Nat \ {0}
  BY PagesAssumption
<1> HIDE DEF S, PagesInv
<1> QED
  BY <1>1, <1>2, <1>3, <1>4, <1>5, <1>6, PageStep

LEMMA WindowBeforeStep == ASSUME PagesInv, WindowBefore PROVE PagesInv'
<1> USE DEF PagesInv
<1> DEFINE target == reading.focus
           S == {p \in OfDay(reading.filters, reading.day) : p = target \/ Earlier(p, target)}
<1>1. reading.step = "before" /\ posts' = posts /\ reading.shown = {} /\ ~reading.more
  BY DEF WindowBefore, WindowReading
<1>2. target \in Posts
  BY <1>1, DayPosts DEF WindowReading
<1>3. \A p \in S : p \in Posts /\ ~Earlier(target, p)
  BY <1>2, DayPosts, PostsOrdered
<1>4. ASSUME NEW p \in reading.promised, LocalDay(p) = reading.day PROVE p \in S
  <2>1. p \in OfDay(reading.filters, reading.day) /\ p \in Posts /\ ~Earlier(target, p)
    BY <1>1, <1>4, DayPosts DEF ShownBehind, WindowReading
  <2> QED
    BY <1>2, <2>1, PostsOrdered
<1>5. /\ Around + 1 \in Nat \ {0} /\ (Around + 1) + 1 = Around + 2
  BY PagesAssumption
<1>6. LET rows == Newest(S, Around + 2)
          more == Cardinality(rows) > Around + 1
          page == Newest(rows, Around + 1) IN
      reading' = [Show(reading, page) EXCEPT !.step = "after", !.more = more, !.cursor = CursorOf(page, more)]
  BY DEF WindowBefore
<1>7. S \subseteq OfDay(reading.filters, reading.day)
  OBVIOUS
<1> DEFINE limit == Around + 1
<1>8. limit \in Nat \ {0} /\ limit + 1 = Around + 2
  BY <1>5
<1>9. LET rows == Newest(S, limit + 1)
          more == Cardinality(rows) > limit
          page == Newest(rows, limit) IN
      reading' = [Show(reading, page) EXCEPT !.step = "after", !.more = more, !.cursor = CursorOf(page, more)]
  BY <1>6, <1>8, Zenon
<1> HIDE DEF S, limit, PagesInv
<1> QED
  BY <1>1, <1>3, <1>4, <1>7, <1>8, <1>9, PageStep

LEMMA WindowAfterStep == ASSUME PagesInv, WindowAfter PROVE PagesInv'
<1> USE DEF PagesInv
<1> DEFINE later == {p \in OfDay(reading.filters, reading.day) : Earlier(reading.focus, p)}
           page == Oldest(later, Around)
<1>1. /\ reading.step = "after" /\ posts' = posts /\ reading.focus \in Posts
      /\ reading' = [Show(reading, page) EXCEPT !.step = "dates"]
  BY DayPosts DEF WindowAfter, WindowReading
<1>2. ASSUME NEW p \in page
      PROVE  /\ p \in Posts /\ LocalDay(p) = reading.day /\ p \notin reading.shown
             /\ reading.more => ~Earlier(p, reading.cursor)
  <2>1. p \in Posts /\ LocalDay(p) = reading.day /\ Earlier(reading.focus, p)
    BY DayPosts DEF Oldest
  <2>2. p \notin reading.shown
    BY <1>1, <2>1 DEF WindowReading
  <2>3. ASSUME reading.more PROVE ~Earlier(p, reading.cursor)
    <3>1. reading.cursor \in Posts /\ ~Earlier(reading.focus, reading.cursor)
      BY <1>1, <2>3, ReadingTyped DEF ShownBehind, WindowReading
    <3> QED
      BY <1>1, <2>1, <3>1, PostsOrdered
  <2> QED
    BY <2>1, <2>2, <2>3
<1> HIDE DEF page
<1>3. /\ reading'.step = "dates" /\ reading'.more = reading.more /\ reading'.cursor = reading.cursor
      /\ reading'.shown = reading.shown \cup page /\ reading'.again = {}
      /\ reading'.day = reading.day /\ reading'.filters = reading.filters /\ reading'.promised = reading.promised
      /\ reading'.previous = reading.previous /\ reading'.focus = reading.focus
  BY <1>1, <1>2, ReadingTyped DEF Show
<1>4. PagesTypeOK'
  <2>1. reading.again \cup (reading.shown \cap page) \in SUBSET Posts /\ reading.shown \cup page \in SUBSET Posts
    BY <1>2, ReadingTyped
  <2> QED
    BY <1>1, <2>1, ReadingTyped DEF PagesTypeOK, Show, ReadSteps
<1>5. \A p : Behind(p)' <=> Behind(p)
  BY <1>1, <1>3 DEF Behind
<1>6. \A p \in page : Behind(p)
  BY <1>1, <1>2 DEF Behind
<1>7. ShownBehind'
  BY <1>1, <1>3, <1>5, <1>6 DEF ShownBehind, Visible
<1>8. WindowReading'
  BY <1>3 DEF WindowReading
<1> QED
  BY <1>3, <1>4, <1>7, <1>8

\* The day before is the latest of those that are left.
LEMMA AdjacentDatesStep == ASSUME PagesInv, AdjacentDates PROVE PagesInv'
<1> USE DEF PagesInv
<1> DEFINE S == {q \in Visible(reading.filters) : LocalDay(q) < reading.day}
           days == {LocalDay(p) : p \in S}
           previous == IF days = {} THEN NoDate ELSE CHOOSE d \in days : \A e \in days : e <= d
<1>1. reading.step = "dates" /\ posts' = posts /\ reading' = [reading EXCEPT !.step = "shown", !.previous = previous]
  BY DEF AdjacentDates
<1>2. S \subseteq Posts /\ S \subseteq Visible(reading.filters) /\ \A p \in S : LocalDay(p) \in Nat \ {0} /\ LocalDay(p) < reading.day
  BY DayPosts
<1>3. /\ previous \in {NoDate} \cup {LocalDay(p) : p \in Posts}
      /\ previous # NoDate => previous < reading.day
      /\ \A p \in S : previous # NoDate /\ LocalDay(p) <= previous
  <2>1. CASE S = {}
    BY <2>1
  <2>2. CASE S # {}
    <3>1. days # {} /\ previous = CHOOSE d \in days : \A e \in days : e <= d
      BY <2>2
    <3> HIDE DEF S
    <3>2. previous \in days /\ \A p \in S : LocalDay(p) <= previous
      BY <1>2, <2>2, <3>1, LatestDay
    <3> HIDE DEF previous
    <3>3. PICK p \in S : previous = LocalDay(p)
      BY <3>2
    <3> QED
      BY <1>2, <3>2, <3>3 DEF NoDate
  <2> QED
    BY <2>1, <2>2
<1>4. \A p \in reading.promised : LocalDay(p) < reading.day => p \in S
  BY DEF ShownBehind
<1> HIDE DEF S, days, previous
<1>5. /\ reading'.step = "shown" /\ reading'.previous = previous
      /\ reading'.more = reading.more /\ reading'.cursor = reading.cursor
      /\ reading'.shown = reading.shown /\ reading'.again = reading.again
      /\ reading'.day = reading.day /\ reading'.filters = reading.filters /\ reading'.promised = reading.promised
  BY <1>1, ReadingTyped
<1>6. PagesTypeOK'
  BY <1>1, <1>3, ReadingTyped DEF PagesTypeOK, ReadSteps
<1>7. \A p : Behind(p)' <=> Behind(p)
  BY <1>1, <1>5 DEF Behind
<1>8. ShownBehind'
  BY <1>1, <1>3, <1>4, <1>5, <1>7 DEF ShownBehind, Visible
<1>9. WindowReading'
  BY <1>5 DEF WindowReading
<1> QED
  BY <1>5, <1>6, <1>8, <1>9

LEMMA GoOnReadingStep == ASSUME PagesInv, LoadEarlier \/ PreviousDate PROVE PagesInv'
<1> USE DEF PagesInv
<1>1. CASE LoadEarlier
  <2>1. /\ reading.step = "shown" /\ reading.more /\ posts' = posts
        /\ reading' = [reading EXCEPT !.step = "page"]
    BY <1>1 DEF LoadEarlier
  <2>2. /\ reading'.step = "page" /\ reading'.previous = reading.previous
        /\ reading'.more = reading.more /\ reading'.cursor = reading.cursor
        /\ reading'.shown = reading.shown /\ reading'.again = reading.again
        /\ reading'.day = reading.day /\ reading'.filters = reading.filters /\ reading'.promised = reading.promised
    BY <2>1, ReadingTyped
  <2>3. PagesTypeOK'
    BY <2>1, ReadingTyped DEF PagesTypeOK, ReadSteps
  <2>4. \A p : Behind(p)' <=> Behind(p)
    BY <2>1, <2>2 DEF Behind
  <2> QED
    BY <2>1, <2>2, <2>3, <2>4 DEF ShownBehind, WindowReading, Visible
<1>2. CASE PreviousDate
  <2>1. /\ reading.step = "shown" /\ ~reading.more /\ reading.previous # NoDate /\ posts' = posts
        /\ reading' = [reading EXCEPT !.step = "page", !.day = reading.previous, !.focus = 0]
    BY <1>2 DEF PreviousDate
  <2>2. /\ reading'.step = "page" /\ reading'.day = reading.previous /\ reading'.previous = reading.previous
        /\ reading'.more = reading.more /\ reading'.cursor = reading.cursor
        /\ reading'.shown = reading.shown /\ reading'.again = reading.again
        /\ reading'.filters = reading.filters /\ reading'.promised = reading.promised
    BY <2>1, ReadingTyped
  <2>3. PagesTypeOK'
    BY <2>1, ReadingTyped DEF PagesTypeOK, ReadSteps
  <2>4. /\ reading.day \in Nat /\ reading.previous \in Nat /\ reading.previous < reading.day
        /\ \A p \in Posts : LocalDay(p) \in Nat
    BY <2>1, ReadingTyped, DayPosts DEF ShownBehind, NoDate
  <2>5. ASSUME NEW p \in reading.shown PROVE Behind(p)'
    <3>1. p \in Posts /\ Behind(p)
      BY ReadingTyped DEF ShownBehind
    <3> QED
      BY <2>2, <2>4, <3>1 DEF Behind
  <2>6. ASSUME NEW p \in reading.promised, Behind(p)' PROVE p \in reading.shown
    <3>1. p \in Posts /\ LocalDay(p) > reading.previous
      BY <2>1, <2>2, <2>4, <2>6, ReadingTyped DEF Behind
    <3>2. ~(LocalDay(p) < reading.day)
      BY <2>1, <2>4, <3>1 DEF ShownBehind
    <3>3. Behind(p)
      BY <2>1, <2>4, <3>1, <3>2 DEF Behind
    <3> QED
      BY <3>3 DEF ShownBehind
  <2>7. ShownBehind'
    BY <2>1, <2>2, <2>5, <2>6 DEF ShownBehind, Visible
  <2> QED
    BY <2>2, <2>3, <2>7 DEF WindowReading
<1> QED
  BY <1>1, <1>2

LEMMA PagesInvStep == ASSUME PagesInv, [PagesNext]_pagesVars PROVE PagesInv'
<1>1. CASE UNCHANGED pagesVars
  BY <1>1 DEF pagesVars, PagesInv, PagesTypeOK, ShownBehind, WindowReading, Behind, Visible
<1>2. ASSUME NEW p \in Posts, NEW filters \in BOOLEAN, OpenAround(p, filters) PROVE PagesInv'
  BY <1>2, OpenAroundStep
<1>3. ASSUME NEW p \in Posts, StorePost(p) PROVE PagesInv'
  BY <1>3, StorePostStep
<1>4. ASSUME NEW filters \in BOOLEAN, OpenLatest(filters) PROVE PagesInv'
  BY <1>4, OpenLatestStep
<1>5. CASE ListPage \/ WindowBefore \/ WindowAfter \/ AdjacentDates \/ LoadEarlier \/ PreviousDate
  BY <1>5, ListPageStep, WindowBeforeStep, WindowAfterStep, AdjacentDatesStep, GoOnReadingStep
<1> QED
  BY <1>1, <1>2, <1>3, <1>4, <1>5 DEF PagesNext

\* Whoever reads a chat backwards is shown every message that was there when
\* it was opened, and no message twice, whatever is stored between the pages
\* and however many messages share a second (ListPageForRange,
\* listMessagesBeforeTarget and listMessagesAfterTarget, AdjacentDates).
THEOREM EveryMessageShown == PagesSpec => []ShownOnce
BY PagesInitInv, PagesInvStep, PagesShown, PTL DEF PagesSpec
-----------------------------------------------------------------------------
(* SummaryBatch                                                             *)

(* What prepareSummaryBatchItem has seen of a row stays true until the      *)
(* generation begins, because every flow that could make the row succeed    *)
(* would have to hold the task the item holds; and a retry that was due     *)
(* when its task was taken still has a count below the limit when it is     *)
(* counted.                                                                 *)

\* The goroutine of an item and the other flow of its key hold the task, and
\* never both (Service.inflight).
Holders ==
  \A k \in Items :
    /\ work[k] # "none" \/ other[k] # "none" => k \in inTask
    /\ work[k] = "none" \/ other[k] = "none"

\* A retry that was due still is when SetRunning counts it.
RetryCounted == \A k \in Items : other[k] = "retry" => summary[k].count < RetryLimit

\* The items of a round and those at work are queued, so that no request can
\* replace the batch under them.
RoundQueued ==
  \A k \in Items :
    /\ k \in round.todo => items[k].status = "queued" /\ work[k] = "none"
    /\ work[k] # "none" => items[k].status = "queued"

\* One item at a time is prepared, and only while one more may be started.
OnePrepared ==
  \A j \in Items : work[j] = "prepare" =>
    /\ round.started < summaryBatchParallelism
    /\ \A k \in Items : work[k] = "prepare" => j = k

BatchInv == BatchTypeOK /\ Holders /\ RetryCounted /\ RoundQueued /\ OnePrepared /\ NoOverwrite
-----------------------------------------------------------------------------
\* The first item the loop looks at is one of the round.
LEMMA MinOfItems ==
  ASSUME NEW S, S \subseteq Nat, S # {}
  PROVE  Min(S) \in S
BY LeastOfSet DEF Min

LEMMA BatchInitInv == BatchInit => BatchInv
<1> SUFFICES ASSUME BatchInit PROVE BatchInv
  OBVIOUS
<1>1. BatchTypeOK
  BY BatchAssumption DEF BatchInit, BatchTypeOK, SummaryRow, NoSummary, BatchItem, NoItem, Result,
     NoPlan, NoRound, WorkSteps, RunSteps
<1> QED
  BY <1>1 DEF BatchInit, BatchInv, Holders, RetryCounted, RoundQueued, OnePrepared, NoOverwrite, NoRound

\* The rows a statement writes are rows.
LEMMA RowTypes ==
  ASSUME BatchTypeOK, NEW k \in Items
  PROVE  /\ NoSummary \in SummaryRow /\ Succeeded \in SummaryRow /\ Failed(k) \in SummaryRow
         /\ [NoSummary EXCEPT !.status = "pending"] \in SummaryRow
         /\ [NoSummary EXCEPT !.status = "running"] \in SummaryRow
         /\ [summary[k] EXCEPT !.next = TRUE] \in SummaryRow
         /\ [summary[k] EXCEPT !.status = "failed", !.next = TRUE] \in SummaryRow
<1>1. summary[k] \in SummaryRow
  BY DEF BatchTypeOK
<1>2. 0 \in 0..RetryLimit
  BY BatchAssumption
<1> QED
  BY <1>1, <1>2 DEF SummaryRow, NoSummary, Succeeded, Failed

LEMMA WriteType ==
  ASSUME BatchTypeOK, NEW k \in Items, NEW r \in SummaryRow, Write(k, r)
  PROVE  summary' \in [Items -> SummaryRow] /\ touched' \subseteq Items
BY DEF BatchTypeOK, Write

LEMMA FinishType ==
  ASSUME BatchTypeOK, NEW k \in Items, NEW result \in Result, Finish(k, result)
  PROVE  items' \in [Items -> BatchItem] /\ work' \in [Items -> WorkSteps] /\ inTask' \subseteq Items
BY DEF BatchTypeOK, Finish, Release, Step, BatchItem, WorkSteps

LEMMA StartedType ==
  ASSUME BatchTypeOK, NEW k \in Items, NEW b \in BOOLEAN
  PROVE  [items EXCEPT ![k].started = b] \in [Items -> BatchItem]
<1>1. items[k] \in BatchItem
  BY DEF BatchTypeOK
<1>2. [items[k] EXCEPT !.started = b] \in BatchItem
  BY <1>1 DEF BatchItem
<1> QED
  BY <1>2 DEF BatchTypeOK

LEMMA BatchTypeStep ==
  ASSUME BatchInv, BatchNext
  PROVE  BatchTypeOK'
<1> USE DEF BatchInv
<1>1. ASSUME NEW overwrite \in BOOLEAN, PlanBatch(overwrite) PROVE BatchTypeOK'
  BY <1>1, BatchAssumption DEF PlanBatch, BatchTypeOK, otherVars
<1>2. CASE QueueBatch
  BY <1>2 DEF QueueBatch, BatchTypeOK, BatchItem, NoItem, NoPlan, worldVars, otherVars
<1>3. CASE BeginRound
  BY <1>3, BatchAssumption DEF BeginRound, BatchTypeOK, worldVars, otherVars
<1>4. CASE LookAt
  <2> DEFINE k == Min(round.todo)
  <2>1. k \in Items /\ k \in round.todo
    BY <1>4, MinOfItems, BatchAssumption DEF LookAt, BatchTypeOK
  <2> HIDE DEF k
  <2>2. round' = [round EXCEPT !.todo = @ \ {k}]
    BY <1>4 DEF LookAt, k
  <2>3. \/ UNCHANGED <<inTask, work>>
        \/ inTask' = inTask \cup {k} /\ (Step(k, "check") \/ Step(k, "prepare"))
    BY <1>4 DEF LookAt, k
  <2>4. UNCHANGED <<summary, touched, items, plan, otherVars, worldVars>>
    BY <1>4 DEF LookAt
  <2> QED
    BY <2>1, <2>2, <2>3, <2>4 DEF BatchTypeOK, Step, WorkSteps, RunSteps, worldVars, otherVars
<1>5. CASE BatchRestart
  <2>1. summary' \in [Items -> SummaryRow]
    BY <1>5, RowTypes DEF BatchRestart, BatchTypeOK
  <2>2. touched' \subseteq Items /\ items' \in [Items -> BatchItem]
    BY <1>5 DEF BatchRestart, BatchTypeOK
  <2>3. work' \in [Items -> WorkSteps] /\ other' \in [Items -> {"none", "retry", "generate", "deliver", "save", "schedule"}]
    BY <1>5 DEF BatchRestart, WorkSteps
  <2>4. /\ plan' \in [keys : SUBSET Items, overwrite : BOOLEAN]
        /\ round' \in [todo : SUBSET Items, started : 0..summaryBatchParallelism]
    <3>1. plan' = NoPlan /\ round' = NoRound
      BY <1>5 DEF BatchRestart
    <3>2. 0 \in 0..summaryBatchParallelism
      BY BatchAssumption
    <3> QED
      BY <3>1, <3>2 DEF NoPlan, NoRound
  <2>5. effort' \in [batches : 0..MaxBatches, others : 0..MaxOthers, upsets : 0..MaxUpsets]
    <3>1. Upset
      BY <1>5 DEF BatchRestart
    <3> QED
      BY <3>1, BatchAssumption DEF BatchTypeOK, Upset
  <2> QED
    BY <1>5, <2>1, <2>2, <2>3, <2>4, <2>5 DEF BatchRestart, BatchTypeOK
<1>6. ASSUME NEW k \in Items,
             PrepareItem(k) \/ StartItem(k) \/ Target(k) \/ RunNow(k) \/ AfterError(k) \/ CheckItem(k)
      PROVE  BatchTypeOK'
  <2> USE DEF worldVars, otherVars
  <2>1. CASE PrepareItem(k)
    <3>1. \/ Finish(k, "skipped") /\ UNCHANGED round
          \/ Step(k, "start") /\ round' = [round EXCEPT !.started = @ + 1] /\ UNCHANGED <<items, inTask>>
      BY <2>1 DEF PrepareItem
    <3>2. round' \in [todo : SUBSET Items, started : 0..summaryBatchParallelism]
      <4>1. work[k] = "prepare"
        BY <2>1 DEF PrepareItem
      <4> QED
        BY <3>1, <4>1, BatchAssumption DEF BatchTypeOK, OnePrepared
    <3>3. work' \in [Items -> WorkSteps] /\ items' \in [Items -> BatchItem] /\ inTask' \subseteq Items
      BY <3>1, FinishType DEF Step, BatchTypeOK, WorkSteps, Result
    <3> QED
      BY <2>1, <3>2, <3>3 DEF PrepareItem, BatchTypeOK
  <2>2. CASE StartItem(k)
    <3>1. items' \in [Items -> BatchItem]
      BY <2>2, StartedType DEF StartItem
    <3>2. work' \in [Items -> WorkSteps]
      BY <2>2 DEF StartItem, Step, BatchTypeOK, WorkSteps
    <3> QED
      BY <2>2, <3>1, <3>2 DEF StartItem, BatchTypeOK
  <2>3. CASE Target(k)
    <3>1. Finish(k, "skipped") \/ (Step(k, "pending") /\ UNCHANGED <<items, inTask>>)
      BY <2>3 DEF Target
    <3>2. work' \in [Items -> WorkSteps] /\ items' \in [Items -> BatchItem] /\ inTask' \subseteq Items
      BY <3>1, FinishType DEF Step, BatchTypeOK, WorkSteps, RunSteps, Result
    <3> QED
      BY <2>3, <3>2 DEF Target, BatchTypeOK
  <2>4. CASE RunNow(k)
    <3>1. UNCHANGED <<summary, touched>> \/ \E r \in SummaryRow : Write(k, r)
      BY <2>4, RowTypes DEF RunNow
    <3>2. summary' \in [Items -> SummaryRow] /\ touched' \subseteq Items
      BY <3>1, WriteType DEF BatchTypeOK
    <3>3. work' \in [Items -> WorkSteps]
      BY <2>4 DEF RunNow, Step, BatchTypeOK, WorkSteps, RunSteps
    <3> QED
      BY <2>4, <3>2, <3>3 DEF RunNow, BatchTypeOK
  <2>5. CASE AfterError(k)
    <3>1. UNCHANGED <<summary, touched>> \/ \E r \in SummaryRow : Write(k, r)
      BY <2>5, RowTypes DEF AfterError
    <3>2. summary' \in [Items -> SummaryRow] /\ touched' \subseteq Items
      BY <3>1, WriteType DEF BatchTypeOK
    <3>3. Finish(k, "failed") \/ (Step(k, "check") /\ UNCHANGED <<items, inTask>>)
      BY <2>5 DEF AfterError
    <3>4. work' \in [Items -> WorkSteps] /\ items' \in [Items -> BatchItem] /\ inTask' \subseteq Items
      BY <3>3, FinishType DEF Step, BatchTypeOK, WorkSteps, Result
    <3> QED
      BY <2>5, <3>2, <3>4 DEF AfterError, BatchTypeOK
  <2>6. CASE CheckItem(k)
    <3>1. InterruptedItem(k) \/ summary[k].status \in {"succeeded", "failed"}
      BY DEF InterruptedItem, BatchTypeOK, SummaryRow
    <3>2. \/ items' = [items EXCEPT ![k].started = FALSE] /\ Release(k)
          \/ UNCHANGED items /\ Release(k)
          \/ \E result \in Result : Finish(k, result)
      BY <2>6, <3>1 DEF CheckItem, Result
    <3>3. work' \in [Items -> WorkSteps] /\ items' \in [Items -> BatchItem] /\ inTask' \subseteq Items
      <4>1. CASE \E result \in Result : Finish(k, result)
        BY <4>1, FinishType
      <4>2. CASE items' = [items EXCEPT ![k].started = FALSE] /\ Release(k)
        <5>1. items' \in [Items -> BatchItem]
          BY <4>2, StartedType
        <5> QED
          BY <4>2, <5>1 DEF Release, Step, BatchTypeOK, WorkSteps
      <4>3. CASE UNCHANGED items /\ Release(k)
        BY <4>3 DEF Release, Step, BatchTypeOK, WorkSteps
      <4> QED
        BY <3>2, <4>1, <4>2, <4>3
    <3> QED
      BY <2>6, <3>3 DEF CheckItem, BatchTypeOK
  <2> QED
    BY <1>6, <2>1, <2>2, <2>3, <2>4, <2>5, <2>6
<1>7. ASSUME NEW k \in Items, ItemFails(k) PROVE BatchTypeOK'
  BY <1>7, BatchAssumption DEF ItemFails, BatchTypeOK, Upset, Step, Release, WorkSteps, RunSteps, otherVars
<1>8. ASSUME NEW k \in Items,
             BeginDueRetry(k) \/ BeginOther(k) \/ OtherRun(k) \/ OtherFails(k) \/ SetFailed(k) \/ ChangeChat(k)
      PROVE  BatchTypeOK'
  <2> USE DEF worldVars, otherVars, loopVars
  <2>1. CASE BeginDueRetry(k)
    BY <2>1 DEF BeginDueRetry, BatchTypeOK, Turn
  <2>2. CASE BeginOther(k)
    BY <2>2, BatchAssumption DEF BeginOther, BatchTypeOK, Turn
  <2>3. CASE OtherRun(k)
    <3>1. other[k] = "retry" => [status |-> "running", count |-> summary[k].count + 1, next |-> FALSE] \in SummaryRow
      BY BatchAssumption DEF BatchTypeOK, RetryCounted, SummaryRow
    <3>2. summary[k] \in SummaryRow
      BY DEF BatchTypeOK
    <3>3. UNCHANGED <<summary, touched>> \/ \E r \in SummaryRow : Write(k, r)
      BY <2>3, <3>1, <3>2, RowTypes DEF OtherRun
    <3>4. summary' \in [Items -> SummaryRow] /\ touched' \subseteq Items
      BY <3>3, WriteType DEF BatchTypeOK
    <3>5. other' \in [Items -> {"none", "retry", "generate", "deliver", "save", "schedule"}] /\ inTask' \subseteq Items
      BY <2>3 DEF OtherRun, Turn, TurnEnd, BatchTypeOK
    <3> QED
      BY <2>3, <3>4, <3>5 DEF OtherRun, BatchTypeOK
  <2>4. CASE OtherFails(k)
    BY <2>4, BatchAssumption DEF OtherFails, BatchTypeOK, Turn, TurnEnd, Upset
  <2>5. CASE SetFailed(k)
    <3>1. summary' \in [Items -> SummaryRow] /\ touched' \subseteq Items /\ late' \subseteq Items
      BY <2>5, RowTypes DEF SetFailed, Write, BatchTypeOK
    <3> QED
      BY <2>5, <3>1 DEF SetFailed, BatchTypeOK
  <2>6. CASE ChangeChat(k)
    BY <2>6, BatchAssumption DEF ChangeChat, BatchTypeOK, Upset
  <2> QED
    BY <1>8, <2>1, <2>2, <2>3, <2>4, <2>5, <2>6
<1> QED
  BY <1>1, <1>2, <1>3, <1>4, <1>5, <1>6, <1>7, <1>8 DEF BatchNext, ItemStep

-----------------------------------------------------------------------------
\* The task of a key is taken by LookAt, BeginDueRetry and BeginOther only,
\* when nobody holds it, and is given back by its holder.
LEMMA HoldersStep ==
  ASSUME BatchInv, BatchNext
  PROVE  Holders'
<1> USE DEF BatchInv
<1>1. ASSUME NEW overwrite \in BOOLEAN, PlanBatch(overwrite) PROVE Holders'
  BY <1>1 DEF PlanBatch, Holders, otherVars
<1>2. CASE QueueBatch
  BY <1>2 DEF QueueBatch, Holders, otherVars
<1>3. CASE BeginRound
  BY <1>3 DEF BeginRound, Holders, otherVars
<1>4. CASE LookAt
  <2> DEFINE k == Min(round.todo)
  <2>1. k \in Items
    BY <1>4, MinOfItems, BatchAssumption DEF LookAt, BatchTypeOK
  <2> HIDE DEF k
  <2>2. \/ UNCHANGED <<inTask, work>>
        \/ k \notin inTask /\ inTask' = inTask \cup {k} /\ (Step(k, "check") \/ Step(k, "prepare"))
    BY <1>4 DEF LookAt, Passed, k
  <2>3. UNCHANGED other
    BY <1>4 DEF LookAt, otherVars
  <2> QED
    BY <2>1, <2>2, <2>3 DEF BatchTypeOK, Step, Holders
<1>5. CASE BatchRestart
  BY <1>5 DEF BatchRestart, Holders
<1>6. ASSUME NEW k \in Items,
             PrepareItem(k) \/ StartItem(k) \/ Target(k) \/ RunNow(k) \/ AfterError(k) \/ CheckItem(k) \/ ItemFails(k)
      PROVE  Holders'
  <2>1. UNCHANGED other
    BY <1>6 DEF PrepareItem, StartItem, Target, RunNow, AfterError, CheckItem, ItemFails, otherVars
  <2>2. work[k] # "none"
    BY <1>6 DEF PrepareItem, StartItem, Target, RunNow, AfterError, CheckItem, ItemFails
  <2>3. Release(k) \/ (inTask' = inTask /\ \E next \in WorkSteps : Step(k, next))
    <3>1. InterruptedItem(k) \/ summary[k].status \in {"succeeded", "failed"}
      BY DEF InterruptedItem, BatchTypeOK, SummaryRow
    <3>2. CASE CheckItem(k)
      BY <3>1, <3>2 DEF CheckItem, Finish
    <3> QED
      BY <1>6, <3>2 DEF PrepareItem, StartItem, Target, RunNow, AfterError, ItemFails, Finish, WorkSteps, RunSteps
  <2> QED
    BY <2>1, <2>2, <2>3 DEF Release, Step, Holders, BatchTypeOK
<1>7. ASSUME NEW k \in Items,
             BeginDueRetry(k) \/ BeginOther(k) \/ OtherRun(k) \/ OtherFails(k) \/ SetFailed(k) \/ ChangeChat(k)
      PROVE  Holders'
  <2> USE DEF loopVars, otherVars
  <2>1. UNCHANGED work
    BY <1>7 DEF BeginDueRetry, BeginOther, OtherRun, OtherFails, SetFailed, ChangeChat
  <2>2. CASE BeginDueRetry(k) \/ BeginOther(k)
    BY <2>1, <2>2 DEF BeginDueRetry, BeginOther, Turn, Holders, BatchTypeOK
  <2>3. CASE OtherRun(k) \/ OtherFails(k)
    <3>1. other[k] # "none"
      BY <2>3 DEF OtherRun, OtherFails
    <3>2. TurnEnd(k) \/ (inTask' = inTask /\ (Turn(k, "save") \/ Turn(k, "schedule")))
      BY <2>3 DEF OtherRun, OtherFails
    <3> QED
      BY <2>1, <3>1, <3>2 DEF Turn, TurnEnd, Holders, BatchTypeOK
  <2>4. CASE SetFailed(k) \/ ChangeChat(k)
    BY <2>1, <2>4 DEF SetFailed, ChangeChat, Holders
  <2> QED
    BY <1>7, <2>2, <2>3, <2>4
<1> QED
  BY <1>1, <1>2, <1>3, <1>4, <1>5, <1>6, <1>7 DEF BatchNext, ItemStep

\* A row that is written while its task is held is written by the holder, or
\* set to failed with its count.
LEMMA RetryCountedStep ==
  ASSUME BatchInv, BatchNext
  PROVE  RetryCounted'
<1> USE DEF BatchInv
<1>1. ASSUME NEW overwrite \in BOOLEAN, PlanBatch(overwrite) PROVE RetryCounted'
  BY <1>1 DEF PlanBatch, RetryCounted, otherVars
<1>2. CASE QueueBatch \/ BeginRound \/ LookAt
  BY <1>2 DEF QueueBatch, BeginRound, LookAt, RetryCounted, otherVars
<1>3. CASE BatchRestart
  BY <1>3 DEF BatchRestart, RetryCounted
<1>4. ASSUME NEW k \in Items,
             PrepareItem(k) \/ StartItem(k) \/ Target(k) \/ RunNow(k) \/ AfterError(k) \/ CheckItem(k) \/ ItemFails(k)
      PROVE  RetryCounted'
  <2>1. UNCHANGED other
    BY <1>4 DEF PrepareItem, StartItem, Target, RunNow, AfterError, CheckItem, ItemFails, otherVars
  <2>2. work[k] # "none"
    BY <1>4 DEF PrepareItem, StartItem, Target, RunNow, AfterError, CheckItem, ItemFails
  <2>3. \A j \in Items \ {k} : summary'[j] = summary[j]
    <3>1. UNCHANGED summary \/ \E r : Write(k, r)
      <4>1. CASE RunNow(k)
        BY <4>1 DEF RunNow
      <4>2. CASE AfterError(k)
        BY <4>2 DEF AfterError
      <4> QED
        BY <1>4, <4>1, <4>2 DEF PrepareItem, StartItem, Target, CheckItem, ItemFails
    <3> QED
      BY <3>1 DEF Write, BatchTypeOK
  <2> QED
    BY <2>1, <2>2, <2>3 DEF Holders, RetryCounted
<1>5. ASSUME NEW k \in Items, BeginDueRetry(k) \/ BeginOther(k) PROVE RetryCounted'
  BY <1>5 DEF BeginDueRetry, BeginOther, Retryable, Turn, RetryCounted, BatchTypeOK
<1>6. ASSUME NEW k \in Items, OtherRun(k) \/ OtherFails(k) PROVE RetryCounted'
  <2>1. \A j \in Items \ {k} : summary'[j] = summary[j] /\ other'[j] = other[j]
    BY <1>6 DEF OtherRun, OtherFails, Turn, TurnEnd, Write, BatchTypeOK
  <2>2. other'[k] # "retry"
    BY <1>6 DEF OtherRun, OtherFails, Turn, TurnEnd, BatchTypeOK
  <2> QED
    BY <2>1, <2>2 DEF RetryCounted
<1>7. ASSUME NEW k \in Items, SetFailed(k) PROVE RetryCounted'
  <2>1. summary' = [summary EXCEPT ![k] = Failed(k)] /\ UNCHANGED other
    BY <1>7 DEF SetFailed, Write
  <2>2. summary[k] \in SummaryRow
    BY DEF BatchTypeOK
  <2>3. Failed(k).count = summary[k].count
    BY <2>2 DEF Failed, SummaryRow
  <2> QED
    BY <2>1, <2>3 DEF RetryCounted, BatchTypeOK
<1>8. ASSUME NEW k \in Items, ChangeChat(k) PROVE RetryCounted'
  BY <1>8 DEF ChangeChat, RetryCounted, otherVars
<1> QED
  BY <1>1, <1>2, <1>3, <1>4, <1>5, <1>6, <1>7, <1>8 DEF BatchNext, ItemStep

\* An item is at work once it has been taken out of the round, and keeps its
\* place in the batch until it has its result.
LEMMA RoundQueuedStep ==
  ASSUME BatchInv, BatchNext
  PROVE  RoundQueued'
<1> USE DEF BatchInv
<1>1. ASSUME NEW overwrite \in BOOLEAN, PlanBatch(overwrite) PROVE RoundQueued'
  BY <1>1 DEF PlanBatch, RoundQueued
<1>2. CASE QueueBatch
  <2>1. CASE Active
    BY <1>2, <2>1 DEF QueueBatch, RoundQueued
  <2>2. CASE ~Active
    BY <1>2, <2>2 DEF QueueBatch, RoundQueued, Active
  <2> QED
    BY <2>1, <2>2
<1>3. CASE BeginRound
  BY <1>3 DEF BeginRound, RoundQueued
<1>4. CASE LookAt
  <2> DEFINE k == Min(round.todo)
  <2>1. k \in Items /\ k \in round.todo
    BY <1>4, MinOfItems, BatchAssumption DEF LookAt, BatchTypeOK
  <2> HIDE DEF k
  <2>2. round'.todo = round.todo \ {k} /\ UNCHANGED items
    BY <1>4 DEF LookAt, k, BatchTypeOK
  <2>3. UNCHANGED work \/ Step(k, "check") \/ Step(k, "prepare")
    BY <1>4 DEF LookAt, k
  <2> QED
    BY <2>1, <2>2, <2>3 DEF BatchTypeOK, Step, RoundQueued
<1>5. CASE BatchRestart
  BY <1>5 DEF BatchRestart, RoundQueued, NoRound
<1>6. ASSUME NEW k \in Items,
             PrepareItem(k) \/ StartItem(k) \/ Target(k) \/ RunNow(k) \/ AfterError(k) \/ CheckItem(k) \/ ItemFails(k)
      PROVE  RoundQueued'
  <2>1. round'.todo = round.todo
    BY <1>6 DEF PrepareItem, StartItem, Target, RunNow, AfterError, CheckItem, ItemFails, BatchTypeOK
  <2>2. work[k] # "none"
    BY <1>6 DEF PrepareItem, StartItem, Target, RunNow, AfterError, CheckItem, ItemFails
  <2>3. \A j \in Items \ {k} : items'[j] = items[j] /\ work'[j] = work[j]
    <3>1. InterruptedItem(k) \/ summary[k].status \in {"succeeded", "failed"}
      BY DEF InterruptedItem, BatchTypeOK, SummaryRow
    <3>2. CASE CheckItem(k)
      BY <3>1, <3>2 DEF CheckItem, Finish, Release, Step, BatchTypeOK
    <3>3. CASE PrepareItem(k) \/ StartItem(k) \/ Target(k)
      BY <3>3 DEF PrepareItem, StartItem, Target, Finish, Release, Step, BatchTypeOK
    <3>4. CASE RunNow(k) \/ AfterError(k) \/ ItemFails(k)
      BY <3>4 DEF RunNow, AfterError, ItemFails, Finish, Release, Step, BatchTypeOK
    <3> QED
      BY <1>6, <3>2, <3>3, <3>4
  <2>4. work'[k] = "none" \/ items'[k].status = "queued"
    <3>1. InterruptedItem(k) \/ summary[k].status \in {"succeeded", "failed"}
      BY DEF InterruptedItem, BatchTypeOK, SummaryRow
    <3>2. items[k].status = "queued"
      BY <2>2 DEF RoundQueued
    <3>3. CASE CheckItem(k)
      BY <3>1, <3>3 DEF CheckItem, Finish, Release, Step, BatchTypeOK
    <3>4. CASE StartItem(k)
      <4>1. items'[k] = [items[k] EXCEPT !.started = TRUE] /\ items[k] \in BatchItem
        BY <3>4 DEF StartItem, BatchTypeOK
      <4> QED
        BY <3>2, <4>1 DEF BatchItem
    <3>5. CASE PrepareItem(k) \/ Target(k)
      BY <3>2, <3>5 DEF PrepareItem, Target, Finish, Release, Step, BatchTypeOK
    <3>6. CASE RunNow(k) \/ AfterError(k) \/ ItemFails(k)
      BY <3>2, <3>6 DEF RunNow, AfterError, ItemFails, Finish, Release, Step, BatchTypeOK
    <3> QED
      BY <1>6, <3>3, <3>4, <3>5, <3>6
  <2> QED
    BY <2>1, <2>2, <2>3, <2>4 DEF RoundQueued
<1>7. ASSUME NEW k \in Items,
             BeginDueRetry(k) \/ BeginOther(k) \/ OtherRun(k) \/ OtherFails(k) \/ SetFailed(k) \/ ChangeChat(k)
      PROVE  RoundQueued'
  BY <1>7 DEF BeginDueRetry, BeginOther, OtherRun, OtherFails, SetFailed, ChangeChat, RoundQueued, loopVars
<1> QED
  BY <1>1, <1>2, <1>3, <1>4, <1>5, <1>6, <1>7 DEF BatchNext, ItemStep

\* The number of items started grows when the only item in preparation leaves
\* it.
LEMMA OnePreparedStep ==
  ASSUME BatchInv, BatchNext
  PROVE  OnePrepared'
<1> USE DEF BatchInv
<1>1. ASSUME NEW overwrite \in BOOLEAN, PlanBatch(overwrite) PROVE OnePrepared'
  BY <1>1 DEF PlanBatch, OnePrepared
<1>2. CASE QueueBatch
  BY <1>2 DEF QueueBatch, OnePrepared
<1>3. CASE BeginRound
  BY <1>3 DEF BeginRound, OnePrepared
<1>4. CASE LookAt
  <2> DEFINE k == Min(round.todo)
  <2>1. k \in Items
    BY <1>4, MinOfItems, BatchAssumption DEF LookAt, BatchTypeOK
  <2> HIDE DEF k
  <2>2. round'.started = round.started /\ \A j \in Items : work[j] # "prepare"
    BY <1>4 DEF LookAt, BatchTypeOK
  <2>3. UNCHANGED work \/ Step(k, "check") \/ (Step(k, "prepare") /\ ~Passed(k) /\ ~items[k].started)
    BY <1>4 DEF LookAt, k
  <2>4. ~Passed(k) /\ ~items[k].started => round.started < summaryBatchParallelism
    BY BatchAssumption DEF Passed, BatchTypeOK
  <2> QED
    BY <2>1, <2>2, <2>3, <2>4 DEF BatchTypeOK, Step, OnePrepared
<1>5. CASE BatchRestart
  BY <1>5 DEF BatchRestart, OnePrepared
<1>6. ASSUME NEW k \in Items, PrepareItem(k) PROVE OnePrepared'
  <2>1. work[k] = "prepare" /\ work'[k] # "prepare" /\ \A j \in Items \ {k} : work'[j] = work[j]
    BY <1>6 DEF PrepareItem, Finish, Release, Step, BatchTypeOK
  <2>2. \A j \in Items : work'[j] # "prepare"
    BY <2>1 DEF OnePrepared
  <2> QED
    BY <2>2 DEF OnePrepared
<1>7. ASSUME NEW k \in Items,
             StartItem(k) \/ Target(k) \/ RunNow(k) \/ AfterError(k) \/ CheckItem(k) \/ ItemFails(k)
      PROVE  OnePrepared'
  <2>1. UNCHANGED round
    BY <1>7 DEF StartItem, Target, RunNow, AfterError, CheckItem, ItemFails
  <2>2. Release(k) \/ \E next \in WorkSteps \ {"prepare"} : Step(k, next)
    <3>1. InterruptedItem(k) \/ summary[k].status \in {"succeeded", "failed"}
      BY DEF InterruptedItem, BatchTypeOK, SummaryRow
    <3>2. CASE CheckItem(k)
      BY <3>1, <3>2 DEF CheckItem, Finish
    <3> QED
      BY <1>7, <3>2 DEF StartItem, Target, RunNow, AfterError, ItemFails, Finish, WorkSteps, RunSteps
  <2>3. work'[k] # "prepare" /\ \A j \in Items \ {k} : work'[j] = work[j]
    BY <2>2 DEF Release, Step, BatchTypeOK
  <2> QED
    BY <2>1, <2>3 DEF OnePrepared
<1>8. ASSUME NEW k \in Items,
             BeginDueRetry(k) \/ BeginOther(k) \/ OtherRun(k) \/ OtherFails(k) \/ SetFailed(k) \/ ChangeChat(k)
      PROVE  OnePrepared'
  BY <1>8 DEF BeginDueRetry, BeginOther, OtherRun, OtherFails, SetFailed, ChangeChat, OnePrepared, loopVars
<1> QED
  BY <1>1, <1>2, <1>3, <1>4, <1>5, <1>6, <1>7, <1>8 DEF BatchNext, ItemStep

\* prepareSummaryBatchItem looks at the row inside the task.  Until the item
\* has written it, the row is kept by the task: a flow that could make it
\* succeed holds the task itself, and what is set to failed late has not
\* succeeded.
LEMMA NoOverwriteStep ==
  ASSUME BatchInv, BatchNext
  PROVE  NoOverwrite'
<1> USE DEF BatchInv
<1> DEFINE Begun == {"start", "target", "pending", "running"}
<1>1. ASSUME NEW overwrite \in BOOLEAN, PlanBatch(overwrite) PROVE NoOverwrite'
  BY <1>1 DEF PlanBatch, NoOverwrite
<1>2. CASE QueueBatch
  <2>1. CASE Active
    BY <1>2, <2>1 DEF QueueBatch, NoOverwrite
  <2>2. CASE ~Active
    <3>1. \A k \in Items : work'[k] = "none"
      BY <1>2, <2>2 DEF QueueBatch, RoundQueued, Active
    <3> QED
      BY <3>1 DEF NoOverwrite
  <2> QED
    BY <2>1, <2>2
<1>3. CASE BeginRound
  BY <1>3 DEF BeginRound, NoOverwrite
<1>4. CASE LookAt
  <2> DEFINE k == Min(round.todo)
  <2>1. k \in Items
    BY <1>4, MinOfItems, BatchAssumption DEF LookAt, BatchTypeOK
  <2> HIDE DEF k
  <2>2. UNCHANGED <<items, summary>>
    BY <1>4 DEF LookAt
  <2>3. UNCHANGED work \/ Step(k, "check") \/ Step(k, "prepare")
    BY <1>4 DEF LookAt, k
  <2> QED
    BY <2>1, <2>2, <2>3 DEF BatchTypeOK, Step, NoOverwrite
<1>5. CASE BatchRestart
  BY <1>5 DEF BatchRestart, NoOverwrite
<1>6. ASSUME NEW k \in Items,
             PrepareItem(k) \/ StartItem(k) \/ Target(k) \/ RunNow(k) \/ AfterError(k) \/ CheckItem(k) \/ ItemFails(k)
      PROVE  NoOverwrite'
  <2>1. \A j \in Items \ {k} : items'[j] = items[j] /\ work'[j] = work[j] /\ summary'[j] = summary[j]
    <3>1. InterruptedItem(k) \/ summary[k].status \in {"succeeded", "failed"}
      BY DEF InterruptedItem, BatchTypeOK, SummaryRow
    <3>2. CASE CheckItem(k)
      BY <3>1, <3>2 DEF CheckItem, Finish, Release, Step, BatchTypeOK
    <3>3. CASE PrepareItem(k) \/ StartItem(k) \/ Target(k)
      BY <3>3 DEF PrepareItem, StartItem, Target, Finish, Release, Step, BatchTypeOK
    <3>4. CASE RunNow(k)
      BY <3>4 DEF RunNow, Write, Step, BatchTypeOK
    <3>5. CASE AfterError(k) \/ ItemFails(k)
      BY <3>5 DEF AfterError, ItemFails, Write, Finish, Release, Step, BatchTypeOK
    <3> QED
      BY <1>6, <3>2, <3>3, <3>4, <3>5
  <2>2. work'[k] \in Begun /\ ~items'[k].overwrite => summary'[k].status # "succeeded"
    <3>1. CASE PrepareItem(k)
      BY <3>1 DEF PrepareItem, Skipped, Finish, Release, Step, BatchTypeOK
    <3>2. CASE StartItem(k)
      <4>1. items'[k] = [items[k] EXCEPT !.started = TRUE] /\ items[k] \in BatchItem
        BY <3>2 DEF StartItem, BatchTypeOK
      <4>2. items'[k].overwrite = items[k].overwrite
        BY <4>1 DEF BatchItem
      <4> QED
        BY <3>2, <4>2 DEF StartItem, NoOverwrite
    <3>3. CASE Target(k)
      BY <3>3 DEF Target, Finish, Release, Step, BatchTypeOK, NoOverwrite
    <3>4. CASE RunNow(k)
      BY <3>4 DEF RunNow, Write, Step, NoSummary, BatchTypeOK, NoOverwrite
    <3>5. CASE AfterError(k)
      BY <3>5 DEF AfterError, Finish, Release, Step, BatchTypeOK
    <3>6. CASE CheckItem(k)
      <4>1. InterruptedItem(k) \/ summary[k].status \in {"succeeded", "failed"}
        BY DEF InterruptedItem, BatchTypeOK, SummaryRow
      <4> QED
        BY <3>6, <4>1 DEF CheckItem, Finish, Release, Step, BatchTypeOK
    <3>7. CASE ItemFails(k)
      BY <3>7 DEF ItemFails, Release, Step, BatchTypeOK
    <3> QED
      BY <1>6, <3>1, <3>2, <3>3, <3>4, <3>5, <3>6, <3>7
  <2> QED
    BY <2>1, <2>2 DEF NoOverwrite
<1>7. ASSUME NEW k \in Items,
             BeginDueRetry(k) \/ BeginOther(k) \/ OtherRun(k) \/ OtherFails(k) \/ SetFailed(k) \/ ChangeChat(k)
      PROVE  NoOverwrite'
  <2> USE DEF loopVars
  <2>1. CASE BeginDueRetry(k) \/ BeginOther(k) \/ OtherFails(k) \/ ChangeChat(k)
    BY <2>1 DEF BeginDueRetry, BeginOther, OtherFails, ChangeChat, NoOverwrite
  <2>2. CASE OtherRun(k)
    <3>1. work[k] = "none"
      BY <2>2 DEF OtherRun, Holders
    <3>2. UNCHANGED <<items, work>> /\ \A j \in Items \ {k} : summary'[j] = summary[j]
      BY <2>2 DEF OtherRun, Write, BatchTypeOK
    <3> QED
      BY <3>1, <3>2 DEF NoOverwrite
  <2>3. CASE SetFailed(k)
    <3>1. UNCHANGED <<items, work>> /\ summary' = [summary EXCEPT ![k] = Failed(k)]
      BY <2>3 DEF SetFailed, Write
    <3>2. summary[k] \in SummaryRow
      BY DEF BatchTypeOK
    <3>3. Failed(k).status = "failed"
      BY <3>2 DEF Failed, SummaryRow
    <3> QED
      BY <3>1, <3>3 DEF NoOverwrite, BatchTypeOK
  <2> QED
    BY <1>7, <2>1, <2>2, <2>3
<1> QED
  BY <1>1, <1>2, <1>3, <1>4, <1>5, <1>6, <1>7 DEF BatchNext, ItemStep
-----------------------------------------------------------------------------
LEMMA BatchInvStep == BatchInv /\ [BatchNext]_batchVars => BatchInv'
<1> SUFFICES ASSUME BatchInv, [BatchNext]_batchVars PROVE BatchInv'
  OBVIOUS
<1>1. CASE BatchNext
  BY <1>1, BatchTypeStep, HoldersStep, RetryCountedStep, RoundQueuedStep, OnePreparedStep, NoOverwriteStep DEF BatchInv
<1>2. CASE UNCHANGED batchVars
  BY <1>2 DEF batchVars, BatchInv, BatchTypeOK, Holders, RetryCounted, RoundQueued, OnePrepared, NoOverwrite
<1> QED
  BY <1>1, <1>2

LEMMA BatchInvariant == BatchSpec => []BatchInv
BY BatchInitInv, BatchInvStep, PTL DEF BatchSpec

\* The state of a batch stays in range: no round starts more items than
\* summaryBatchParallelism, no retry is counted beyond SummaryRetryLimit.
THEOREM BatchTypes == BatchSpec => []BatchTypeOK
<1>1. BatchInv => BatchTypeOK
  BY DEF BatchInv
<1> QED
  BY <1>1, BatchInvariant, PTL

\* The task of a key has one holder: an item of the batch, or another flow
\* (beginTask; LookAt passes an item whose key is in use).
THEOREM BatchTask == BatchSpec => []Holders
<1>1. BatchInv => Holders
  BY DEF BatchInv
<1> QED
  BY <1>1, BatchInvariant, PTL

\* A batch that does not overwrite never generates a summary again that has
\* succeeded, for any number of chats, days, batches, other flows, failing
\* calls and restarts (prepareSummaryBatchItem, inside the task).
THEOREM BatchOverwritesNothing == BatchSpec => []NoOverwrite
<1>1. BatchInv => NoOverwrite
  BY DEF BatchInv
<1> QED
  BY <1>1, BatchInvariant, PTL
-----------------------------------------------------------------------------
(* Services                                                                 *)

\* Where a behaviour of Services begins for each service.
LEMMA ServicesBegin ==
  ServicesInit =>
    /\ CatchUpInit /\ LoginInit /\ AlertsInit /\ BackfillInit
    /\ BatchInit /\ NoticesInit /\ PagesInit /\ DailyInit /\ RollupInit
<1> SUFFICES ASSUME ServicesInit
             PROVE  /\ CatchUpInit /\ LoginInit /\ AlertsInit /\ BackfillInit
                    /\ BatchInit /\ NoticesInit /\ PagesInit /\ DailyInit /\ RollupInit
  OBVIOUS
<1>1. /\ AnyOf(Windows) \in Windows /\ AnyOf(ModelLimits) \in ModelLimits
      /\ AnyOf(RollupWindows) \in RollupWindows /\ AnyOf(RollupLimits) \in RollupLimits
      /\ AnyOf(ContextSizes) \in ContextSizes
  BY ServicesAssumption DEF AnyOf
<1>2. DailyInit
  BY <1>1 DEF ServicesInit, DailyInit
<1>3. RollupInit
  BY <1>1 DEF ServicesInit, RollupInit
<1> QED
  BY <1>2, <1>3 DEF ServicesInit

LEMMA ServicesGoOn ==
  [ServicesNext]_services =>
    /\ [CatchUpNext]_catchUpVars /\ [LoginNext]_loginVars /\ [AlertsNext]_alertVars
    /\ [BackfillNext]_backfillVars /\ [BatchNext]_batchVars /\ [NoticesNext]_noticeVars
    /\ [PagesNext]_pagesVars /\ [DailyNext]_dailyVars /\ [RollupNext]_rollupVars
<1>1. ASSUME UNCHANGED services
      PROVE  /\ UNCHANGED catchUpVars /\ UNCHANGED loginVars /\ UNCHANGED alertVars
             /\ UNCHANGED backfillVars /\ UNCHANGED batchVars /\ UNCHANGED noticeVars
             /\ UNCHANGED pagesVars /\ UNCHANGED dailyVars /\ UNCHANGED rollupVars
  BY <1>1 DEF services
<1>2. ASSUME ServicesNext
      PROVE  /\ [CatchUpNext]_catchUpVars /\ [LoginNext]_loginVars /\ [AlertsNext]_alertVars
             /\ [BackfillNext]_backfillVars /\ [BatchNext]_batchVars /\ [NoticesNext]_noticeVars
             /\ [PagesNext]_pagesVars /\ [DailyNext]_dailyVars /\ [RollupNext]_rollupVars
  <2>1. /\ component = "catch-up" => CatchUpNext
        /\ component = "login" => LoginNext
        /\ component = "alerts" => AlertsNext
        /\ component = "back-fill" => BackfillNext
        /\ component = "batch" => BatchNext
        /\ component = "notices" => NoticesNext
        /\ component = "pages" => PagesNext
        /\ component = "generation" => DailyNext
        /\ component = "roll-up" => RollupNext
    BY <1>2 DEF ServicesNext
  <2>2. OthersKeep
    BY <1>2, Zenon DEF ServicesNext
  <2> QED
    BY <2>1, <2>2, Zenon DEF OthersKeep
<1> QED
  BY <1>1, <1>2

\* A behaviour of Services is one of the service it is about, and for every
\* other service one in which nothing happens; this follows from the shape of
\* Services alone.
LEMMA ServicesEach ==
  Services =>
    /\ CatchUpSpec /\ LoginSpec /\ AlertsSpec /\ BackfillSpec
    /\ BatchSpec /\ NoticesSpec /\ PagesSpec /\ DailySpec /\ RollupSpec
BY ServicesBegin, ServicesGoOn, PTL
   DEF Services, CatchUpSpec, LoginSpec, AlertsSpec, BackfillSpec, BatchSpec, NoticesSpec, PagesSpec,
       DailySpec, RollupSpec

\* The state of every service stays in range: no row is retried, no password
\* tried and no text merged more often than its limit, and no request of a
\* merge is longer than the budget it was packed for (RecoverInterrupted,
\* recordFailure, maximumMergeDepth, PackTextParts).
THEOREM ServicesInRange == Services => []ServicesTypeOK
<1>1. CatchUpSpec => []CatchUpTypeOK
  <2>1. CatchUpInv => CatchUpTypeOK
    BY DEF CatchUpInv
  <2> QED
    BY <2>1, CatchUpInitInv, CatchUpInvStep, PTL DEF CatchUpSpec
<1>2. LoginSpec => []LoginTypeOK
  <2>1. LoginInv => LoginTypeOK
    BY DEF LoginInv
  <2> QED
    BY <2>1, LoginInitInv, LoginInvStep, PTL DEF LoginSpec
<1>3. AlertsSpec => []AlertsTypeOK
  <2>1. AlertsInv => AlertsTypeOK
    BY DEF AlertsInv
  <2> QED
    BY <2>1, AlertsInitInv, AlertsInvStep, PTL DEF AlertsSpec
<1>4. BackfillSpec => []BackfillTypeOK
  <2>1. BackfillInv => BackfillTypeOK
    BY DEF BackfillInv
  <2>2. BackfillInv /\ [BackfillNext]_backfillVars => BackfillInv'
    BY BackfillInvStep
  <2> QED
    BY <2>1, <2>2, BackfillInitInv, PTL DEF BackfillSpec
<1>5. NoticesSpec => []NoticesTypeOK
  <2>1. NoticesInv => NoticesTypeOK
    BY DEF NoticesInv
  <2> QED
    BY <2>1, NoticesInitInv, NoticesInvStep, PTL DEF NoticesSpec
<1>6. PagesSpec => []PagesTypeOK
  <2>1. PagesInv => PagesTypeOK
    BY DEF PagesInv
  <2>2. PagesInv /\ [PagesNext]_pagesVars => PagesInv'
    BY PagesInvStep
  <2> QED
    BY <2>1, <2>2, PagesInitInv, PTL DEF PagesSpec
<1> QED
  BY <1>1, <1>2, <1>3, <1>4, <1>5, <1>6, ServicesEach, BatchTypes, DailyTypes, RollupTypes, PTL
     DEF ServicesTypeOK

\* The bot repeats no announcement, however many goroutines match keywords and
\* however the claims of alerts and notices, their deliveries and the restarts
\* interleave (claim and release of keywordalert, ClaimFailureNotice and
\* FinishFailureNotice of dailydigest).
THEOREM NothingAnnouncedTwice == Services => []NoRepeats
BY ServicesEach, AlertsKeepApart, NoticeOnce, PTL DEF NoRepeats

\* What the archive holds is whole and is shown whole (importChatHistory,
\* ListPageForRange).
THEOREM ArchiveStaysWhole == Services => []ArchiveWhole
BY ServicesEach, BackfillStoresAll, EveryMessageShown, PTL DEF ArchiveWhole

\* A summary rests on every message of its period and a document on every
\* source (mergeDailyPartials, mergePartials).
THEOREM NoTextLost == Services => []NothingLost
BY ServicesEach, EveryMessage, EverySource, PTL DEF NothingLost

\* What the other services promise, each by itself: a batch overwrites no
\* success (prepareSummaryBatchItem), a session is one of the stored
\* password (CheckSession), a generated catch-up stays (RecordDelivery), and
\* each answer brings a generation nearer to its end (mergeDailyPartials,
\* mergePartials).
THEOREM ServicesSafe ==
  Services => /\ []NoOverwrite /\ SessionOfPassword /\ GeneratedStays
              /\ DailyShrinks /\ RollupShrinks
BY ServicesEach, BatchOverwritesNothing, SessionsMatchPassword, GeneratedIsFinal, DailyEnds, RollupEnds
=============================================================================
