-------------------------------- MODULE TermUI --------------------------------
(***************************************************************************)
(* The dashboard (cmd/termup): its update loop, one message at a time, a     *)
(* key, a tick or the answer to a fetch, and what the view makes of the      *)
(* model it leaves.  The keyboard selection is a pair of indices into the    *)
(* monitors that the filter leaves visible, and every message that changes   *)
(* what is visible must clamp it.                                            *)
(*                                                                          *)
(* The filter holds no query or one, known by the set of the names that it   *)
(* matches; a check is a value of Checks.  The daemon is the environment:    *)
(* it answers with its dashboard of the moment, and what it answered to two  *)
(* fetches that overlap may arrive in any order.                             *)
(***************************************************************************)
EXTENDS Subsequences

CONSTANTS Names,       \* the monitors' names
          Checks,      \* what a bar of a card stands for
          Queries,     \* what a query may match, sets of names
          Dashboards,  \* what the daemon may answer
          BarLen,      \* the checks a card has room for
          Fetches      \* bound: the goroutines that may be fetching

ASSUME BarLenAssumption == BarLen \in Nat \ {0}
ASSUME DashboardsAssumption ==
  Dashboards \subseteq Seq([name : Names, recent : Seq(Checks)])

VARIABLES
  health,     \* the monitors of the last good answer, in config order
  err,        \* the last answer was an error
  query,      \* the filter's value: <<>>, or <<names it matches>>
  filtering,  \* keys go to the filter
  sel,        \* the selection: mon and check, from 0, or NoSel
  fetch,      \* where each fetch is, and what it has got
  timers,     \* ticks to come
  serving,    \* the daemon answers
  current,    \* what it would answer now
  quit

vars == <<health, err, query, filtering, sel, fetch, timers, serving, current, quit>>

NoQuery == <<>>
FilterValues == {NoQuery} \union {<<q>> : q \in Queries}
NoSel == [mon |-> -1, check |-> -1]

Free == [step |-> "none", got |-> <<>>]
Asked == [step |-> "asked", got |-> <<>>]
Failed == [step |-> "failed", got |-> <<>>]
Got(d) == [step |-> "answered", got |-> d]
FetchStates == {Free, Asked, Failed} \union {Got(d) : d \in Dashboards}

Init ==
  /\ health = <<>>
  /\ err = FALSE
  /\ query = NoQuery
  /\ filtering = FALSE
  /\ sel = NoSel
  /\ \E f \in Fetches : fetch = [g \in Fetches |-> IF g = f THEN Asked ELSE Free]
  /\ timers = 1
  /\ serving \in BOOLEAN
  /\ current \in Dashboards
  /\ quit = FALSE

-----------------------------------------------------------------------------
(* Helpers, on a list of monitors and a query.                              *)

Visible(h, q) ==
  IF q = NoQuery THEN h ELSE Pick(h, {i \in DOMAIN h : h[i].name \in q[1]})

BarStart(m) == IF Len(m.recent) > BarLen THEN Len(m.recent) - BarLen ELSE 0

ShownCount(m) == Len(m.recent) - BarStart(m)

LastCheck(m) == IF ShownCount(m) > 0 THEN ShownCount(m) - 1 ELSE 0

\* check as near to c as the card of m allows.
Nearest(c, m) ==
  IF c < 0 \/ ShownCount(m) = 0 THEN 0
  ELSE IF c >= ShownCount(m) THEN ShownCount(m) - 1 ELSE c

Clamp(s, vis) ==
  IF s = NoSel \/ s.mon >= Len(vis) THEN NoSel
  ELSE [s EXCEPT !.check = Nearest(@, vis[s.mon + 1])]

\* What a move makes of no selection at all.
First(vis) == [mon |-> 0, check |-> LastCheck(vis[1])]

-----------------------------------------------------------------------------
(* Keys, while the filter has the focus.                                    *)

CancelFilter ==
  /\ ~quit /\ filtering
  /\ filtering' = FALSE
  /\ query' = NoQuery
  /\ sel' = Clamp(sel, Visible(health, NoQuery))
  /\ UNCHANGED <<health, err, fetch, timers, serving, current, quit>>

ApplyFilter ==
  /\ ~quit /\ filtering
  /\ filtering' = FALSE
  /\ UNCHANGED <<health, err, query, sel, fetch, timers, serving, current, quit>>

\* Any other key, q and ctrl+c among them, goes to the input.
TypeInFilter(q) ==
  /\ ~quit /\ filtering
  /\ query' = q
  /\ sel' = Clamp(sel, Visible(health, q))
  /\ UNCHANGED <<health, err, filtering, fetch, timers, serving, current, quit>>

-----------------------------------------------------------------------------
(* Keys, otherwise.                                                         *)

\* q, ctrl+c and esc, a query being applied or not.
Quit ==
  /\ ~quit /\ ~filtering
  /\ quit' = TRUE
  /\ UNCHANGED <<health, err, query, filtering, sel, fetch, timers, serving, current>>

OpenFilter ==
  /\ ~quit /\ ~filtering
  /\ filtering' = TRUE
  /\ UNCHANGED <<health, err, query, sel, fetch, timers, serving, current, quit>>

StartFetch(f) ==
  /\ fetch[f] = Free
  /\ fetch' = [fetch EXCEPT ![f] = Asked]

\* A plausible slip: every refresh starts another chain of ticks.
RefreshAndTick ==
  /\ ~quit /\ ~filtering
  /\ \E f \in Fetches : StartFetch(f)
  /\ timers' = timers + 1
  /\ UNCHANGED <<health, err, query, filtering, sel, serving, current, quit>>

Refresh ==
  /\ ~quit /\ ~filtering
  /\ \E f \in Fetches : StartFetch(f)
  /\ UNCHANGED <<health, err, query, filtering, sel, timers, serving, current, quit>>

MoveMonitor(d) ==
  LET vis == Visible(health, query)
      n == Len(vis)
  IN  /\ ~quit /\ ~filtering
      /\ n > 0
      /\ sel' = IF sel = NoSel THEN First(vis)
                ELSE Clamp([sel EXCEPT !.mon = (@ + d + n) % n], vis)
      /\ UNCHANGED <<health, err, query, filtering, fetch, timers, serving, current, quit>>

MoveCheck(d) ==
  LET vis == Visible(health, query)
  IN  /\ ~quit /\ ~filtering
      /\ vis # <<>>
      /\ sel' = IF sel = NoSel THEN First(vis)
                ELSE Clamp([sel EXCEPT !.check = @ + d], vis)
      /\ UNCHANGED <<health, err, query, filtering, fetch, timers, serving, current, quit>>

-----------------------------------------------------------------------------
(* Ticks and answers, whatever has the focus.                               *)

\* A plausible slip: the tick is not armed again.
LastTick ==
  /\ ~quit /\ timers > 0
  /\ \E f \in Fetches : StartFetch(f)
  /\ timers' = timers - 1
  /\ UNCHANGED <<health, err, query, filtering, sel, serving, current, quit>>

Tick ==
  /\ ~quit /\ timers > 0
  /\ \E f \in Fetches : StartFetch(f)
  /\ UNCHANGED <<health, err, query, filtering, sel, timers, serving, current, quit>>

\* The daemon answers a fetch; the answer is on its way to the update loop.
Reply(f) ==
  /\ ~quit /\ serving
  /\ fetch[f] = Asked
  /\ fetch' = [fetch EXCEPT ![f] = Got(current)]
  /\ UNCHANGED <<health, err, query, filtering, sel, timers, serving, current, quit>>

\* No daemon, or no answer in time.
FetchFails(f) ==
  /\ ~quit /\ ~serving
  /\ fetch[f] = Asked
  /\ fetch' = [fetch EXCEPT ![f] = Failed]
  /\ UNCHANGED <<health, err, query, filtering, sel, timers, serving, current, quit>>

\* A plausible slip: the selection stays where the old answer had it.
UnclampedAnswer(f) ==
  /\ ~quit /\ fetch[f].step = "answered"
  /\ fetch' = [fetch EXCEPT ![f] = Free]
  /\ health' = fetch[f].got
  /\ err' = FALSE
  /\ UNCHANGED <<query, filtering, sel, timers, serving, current, quit>>

Answer(f) ==
  /\ ~quit /\ fetch[f].step = "answered"
  /\ fetch' = [fetch EXCEPT ![f] = Free]
  /\ health' = fetch[f].got
  /\ err' = FALSE
  /\ sel' = Clamp(sel, Visible(fetch[f].got, query))
  /\ UNCHANGED <<query, filtering, timers, serving, current, quit>>

\* The last good answer stays in the model, the error takes the grid's place.
ErrorAnswer(f) ==
  /\ ~quit /\ fetch[f] = Failed
  /\ fetch' = [fetch EXCEPT ![f] = Free]
  /\ err' = TRUE
  /\ UNCHANGED <<health, query, filtering, sel, timers, serving, current, quit>>

\* The daemon stops, comes back, probes its monitors or reloads their list.
DaemonChanges ==
  /\ \/ serving' = ~serving /\ UNCHANGED current
     \/ current' \in Dashboards \ {current} /\ UNCHANGED serving
  /\ UNCHANGED <<health, err, query, filtering, sel, fetch, timers, quit>>

-----------------------------------------------------------------------------
(* The view, a function of the model.  It cuts and counts the bars by itself, *)
(* where the model's own code, Detail included, uses BarStart.               *)

\* The bars of a card, oldest first: the newest checks it has room for.
RenderBar(m) ==
  LET n == Len(m.recent)
  IN  IF n > BarLen THEN SubSeq(m.recent, n - BarLen + 1, n) ELSE m.recent

NoMarker == -1

\* The column of the row under the bars that holds the marker.
RenderMarker(m, c) ==
  LET shown == IF Len(m.recent) > BarLen THEN BarLen ELSE Len(m.recent)
  IN  IF c < 0 \/ c >= shown THEN NoMarker ELSE c

\* A card; c is the selected check, negative unless the card is the active one.
RenderCard(m, c) ==
  [name |-> m.name, active |-> c >= 0, bars |-> RenderBar(m), marker |-> RenderMarker(m, c)]

\* What the error, the wait for the first answer or the filter leave of the grid.
Body ==
  LET vis == Visible(health, query)
  IN  IF err \/ health = <<>> THEN <<>>
      ELSE [i \in 1 .. Len(vis) |->
             RenderCard(vis[i], IF sel # NoSel /\ sel.mon + 1 = i THEN sel.check ELSE -1)]

NoPanel == [name |-> "", check |-> <<>>]

\* The check the panel describes, as <<check>>, and its monitor's name.
Detail ==
  LET vis == Visible(health, query)
      m == vis[sel.mon + 1]
      i == BarStart(m) + sel.check
  IN  IF sel # NoSel /\ sel.mon < Len(vis) /\ i >= 0 /\ i < Len(m.recent)
      THEN [name |-> m.name, check |-> <<m.recent[i + 1]>>]
      ELSE NoPanel

-----------------------------------------------------------------------------
Arrives(f) == Reply(f) \/ FetchFails(f) \/ Answer(f) \/ ErrorAnswer(f)

Next ==
  \/ CancelFilter \/ ApplyFilter \/ \E q \in FilterValues : TypeInFilter(q)
  \/ Quit \/ OpenFilter \/ Refresh
  \/ \E d \in {-1, 1} : MoveMonitor(d) \/ MoveCheck(d)
  \/ Tick \/ \E f \in Fetches : Arrives(f)
  \/ DaemonChanges

Spec == Init /\ [][Next]_vars

(* Timers fire; a request ends at the latest with the client's timeout, and  *)
(* its message reaches the loop, which serves every goroutine that sends.    *)
FairSpec == Spec /\ WF_vars(Tick) /\ \A f \in Fetches : WF_vars(Arrives(f))

-----------------------------------------------------------------------------
(* Type correctness; there is one chain of ticks, however often the user     *)
(* refreshes.                                                               *)
TypeOK ==
  /\ health \in Dashboards \union {<<>>}
  /\ err \in BOOLEAN /\ filtering \in BOOLEAN
  /\ serving \in BOOLEAN /\ quit \in BOOLEAN
  /\ query \in FilterValues
  /\ sel = NoSel \/ sel \in [mon : Nat, check : Nat]
  /\ fetch \in [Fetches -> FetchStates]
  /\ current \in Dashboards
  /\ timers = 1

(* What is marked is what is described, whatever filter, refresh, answer and *)
(* move came last.  While the grid is drawn a selection has its active card, *)
(* no other card is active, and the panel replaces the key help exactly when *)
(* that card has bars: it then describes the check of the bar above the      *)
(* marker, which view.go finds from the drawn bars and model.go, detail,     *)
(* from the whole history.                                                   *)
MarkedIsDescribed ==
  Body # <<>> =>
    /\ \A i \in DOMAIN Body : Body[i].active <=> sel # NoSel /\ i = sel.mon + 1
    /\ sel # NoSel =>
         /\ sel.mon + 1 \in DOMAIN Body
         /\ LET card == Body[sel.mon + 1]
            IN  IF card.bars = <<>> THEN card.marker = NoMarker /\ Detail = NoPanel
                ELSE /\ card.marker + 1 \in DOMAIN card.bars
                     /\ Detail = [name |-> card.name, check |-> <<card.bars[card.marker + 1]>>]
    /\ sel = NoSel => Detail = NoPanel

(* The screen catches up with the daemon by itself, although an old answer   *)
(* may overtake a new one: once the daemon is back for good and its          *)
(* dashboard stays the same, that dashboard is on the screen for good, and   *)
(* no error is.                                                              *)
ScreenCatchesUp ==
  \A d \in Dashboards :
    <>[](serving /\ current = d) => <>[](quit \/ (health = d /\ ~err))
=============================================================================
