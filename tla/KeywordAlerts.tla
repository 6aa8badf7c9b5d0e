--------------------------- MODULE KeywordAlerts ----------------------------
(***************************************************************************)
(* Keyword alerts: a live message that contains a keyword of its chat is   *)
(* announced through the bot, by a goroutine of its own.  The last alert   *)
(* of a chat and keyword is kept in memory, claimed before the message is  *)
(* sent and given back when the bot fails.                                 *)
(*                                                                         *)
(* Abstractions: a keyword is its position in the list of the chat, the    *)
(* text of a message the set of keywords it contains; time is a number.    *)
(* claim reads the clock before it takes the lock; here these are one      *)
(* step, so that no goroutine is held up between the two while the alert   *)
(* of another is claimed, fails and is given back.  A behaviour is one     *)
(* life of the process: a restart forgets lastAlert, and the first alert   *)
(* after it may follow the last one before it at any distance.             *)
(***************************************************************************)
EXTENDS Integers, FiniteSets

CONSTANTS
  AlertChats,    \* the chats with alerts
  Keywords,      \* positions in the list of keywords
  Handlers,      \* goroutines of Handle that may be under way together
  Cooldown,
  MaxMessageAge,
  MaxTime,       \* bound: the clock
  MaxAlerts,     \* bound: messages
  MaxBotFaults   \* bound: failing calls

ASSUME AlertsAssumption ==
  /\ Keywords \subseteq Nat /\ IsFiniteSet(Keywords)
  /\ Cooldown \in Nat \ {0} /\ MaxMessageAge \in Nat
  /\ MaxTime \in Nat /\ MaxAlerts \in Nat /\ MaxBotFaults \in Nat

VARIABLES
  now,        \* the clock
  lastAlert,  \* Service.lastAlert, -1 where there is no entry
  handler,    \* the goroutines
  announced,  \* history: how many alerts claimed at a time the bot has confirmed
  handled,    \* messages so far
  failing     \* failing calls so far

alertVars == <<now, lastAlert, handler, announced, handled, failing>>

Key == AlertChats \X Keywords
Never == -1
NoHandler == [step |-> "none", key |-> <<>>, at |-> Never]
HandlerSteps == {"settings", "claim", "send", "release"}
Continue(h, next) == handler' = [handler EXCEPT ![h].step = next]
End(h) == handler' = [handler EXCEPT ![h] = NoHandler]

AlertsInit ==
  /\ now = 0 /\ lastAlert = [key \in Key |-> Never]
  /\ handler = [h \in Handlers |-> NoHandler]
  /\ announced = [key \in Key |-> [t \in 0..MaxTime |-> 0]] /\ handled = 0 /\ failing = 0

Tick == now < MaxTime /\ now' = now + 1 /\ UNCHANGED <<lastAlert, handler, announced, handled, failing>>

\* MatchKeyword: the first keyword of the list that the text contains.
MatchKeyword(contained) == CHOOSE k \in contained : \A l \in contained : k <= l

\* Handle of a live message sent at time t: not older than maxMessageAge,
\* with a keyword.
Handle(h, c, contained, t) ==
  /\ handled < MaxAlerts /\ handled' = handled + 1
  /\ handler[h] = NoHandler
  /\ contained # {} /\ now - t <= MaxMessageAge
  /\ handler' = [handler EXCEPT ![h] =
       [step |-> "settings", key |-> <<c, MatchKeyword(contained)>>, at |-> Never]]
  /\ UNCHANGED <<now, lastAlert, announced, failing>>

\* Settings.Get: the bot may have been switched off.
ReadBot(h) ==
  /\ handler[h].step = "settings"
  /\ Continue(h, "claim") \/ End(h)
  /\ UNCHANGED <<now, lastAlert, announced, handled, failing>>

Cooling(key) == lastAlert[key] # Never /\ now - lastAlert[key] < Cooldown

Claim(h) ==
  LET key == handler[h].key IN
  /\ handler[h].step = "claim"
  /\ IF Cooling(key) THEN End(h) /\ UNCHANGED lastAlert
     ELSE /\ lastAlert' = [lastAlert EXCEPT ![key] = now]
          /\ handler' = [handler EXCEPT ![h].step = "send", ![h].at = now]
  /\ UNCHANGED <<now, announced, handled, failing>>

\* SendMessageWithLanguage
Announce(h) ==
  /\ handler[h].step = "send"
  /\ \/ /\ announced' = [announced EXCEPT ![handler[h].key][handler[h].at] = @ + 1]
        /\ End(h) /\ UNCHANGED failing
     \/ /\ failing < MaxBotFaults /\ failing' = failing + 1
        /\ Continue(h, "release") /\ UNCHANGED announced
  /\ UNCHANGED <<now, lastAlert, handled>>

\* Mutant: the entry is deleted whoever has made it.
ReleasedAny(h) == [lastAlert EXCEPT ![handler[h].key] = Never]

\* An entry is deleted as long as it is the one of this alert.
Released(h) ==
  IF lastAlert[handler[h].key] = handler[h].at
  THEN [lastAlert EXCEPT ![handler[h].key] = Never] ELSE lastAlert

GiveBack(h) ==
  /\ handler[h].step = "release"
  /\ lastAlert' = Released(h)
  /\ End(h)
  /\ UNCHANGED <<now, announced, handled, failing>>

AlertsNext ==
  \/ Tick
  \/ \E h \in Handlers :
       \/ ReadBot(h) \/ Claim(h) \/ Announce(h) \/ GiveBack(h)
       \/ \E c \in AlertChats, contained \in SUBSET Keywords, t \in 0..now : Handle(h, c, contained, t)

AlertsSpec == AlertsInit /\ [][AlertsNext]_alertVars
-----------------------------------------------------------------------------
AlertsTypeOK ==
  /\ now \in 0..MaxTime /\ lastAlert \in [Key -> {Never} \cup 0..MaxTime]
  /\ \A h \in Handlers : handler[h] = NoHandler \/
       handler[h] \in [step : HandlerSteps, key : Key, at : {Never} \cup 0..MaxTime]
  /\ announced \in [Key -> [0..MaxTime -> 0..MaxAlerts]]
  /\ handled \in 0..MaxAlerts /\ failing \in 0..MaxBotFaults

\* The alerts of a chat and a keyword that were delivered have been claimed at
\* least the cooldown apart, while the process lives, with several messages at
\* once and a failing bot:
\* a failed alert gives back its own claim only (release).
AlertsApart ==
  \A key \in Key, s, t \in 0..MaxTime :
    /\ announced[key][t] <= 1
    /\ s < t /\ announced[key][s] > 0 /\ announced[key][t] > 0 => t - s >= Cooldown
=============================================================================
