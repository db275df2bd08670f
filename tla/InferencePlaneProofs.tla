------------------------ MODULE InferencePlaneProofs ------------------------
(***************************************************************************)
(* What the request planes promise, proved for any number of calls, miners *)
(* and client-chosen request ids, and all token counts.                    *)
(*                                                                         *)
(* The invariant describes one call at a time: what it remembers of its    *)
(* event (MemoryOK), what it has not written yet (RowsOK) and, when it has *)
(* ended, what the properties say of it.  Others interfere with it only    *)
(* through the event, so Moves says what a step of one call can do to the  *)
(* events: expire what is due, and close or open the one it bills.         *)
(* OtherKept shows once and for all that no other call is disturbed by     *)
(* that; what is left for each action is its own call.                     *)
(*                                                                         *)
(* The part that makes it hold is Alone: a call whose event no other call  *)
(* has acted on has it as it remembers it, although the objects of its     *)
(* session are never refreshed.  Sealed calls are always alone among       *)
(* themselves (Apart), since a reused id is billed under a fresh one.      *)
(***************************************************************************)
EXTENDS InferencePlane, TLAPS

(* The call holds an event object. *)
Active(c) == call[c].pc \in {"forward", "relay"}

Status(c) == event[call[c].rid].status

(* Nobody else has acted on the event of c. *)
Alone(c) == \A d \in Calls \ {c} : call[d].pc = "idle" \/ call[d].rid # call[c].rid

(* An uncommitted reservation is that of a waiting plain call, there is    *)
(* nothing else of it, and what such a call expired was due.               *)
FreshOK(c) ==
    /\ call[c].fresh =>
          /\ call[c].kind = "plain" /\ call[c].pc = "forward"
          /\ call[c].mem = "reserved" /\ Status(c) = "none"
    /\ call[c].swept \subseteq due

(* A call that has reserved has an event.  Once it remembers it as closed  *)
(* it is not open again.  If nobody else has acted on it the call          *)
(* remembers it as reserved, and so it is until its time to live passes.   *)
MemoryOK(c) ==
    Active(c) =>
       /\ call[c].mem # "none"
       /\ ~ call[c].fresh => Status(c) # "none"
       /\ call[c].mem # "reserved" => Status(c) # "reserved" \/ call[c].rid \in due
       /\ Alone(c) =>
             /\ call[c].mem = "reserved"
             /\ \/ call[c].fresh
                \/ Status(c) = "reserved"
                \/ Status(c) = "expired" /\ call[c].rid \in due

(* A call that is not answered has left no rows of its answer.             *)
RowsOK(c) ==
    /\ call[c].pc = "idle" => call[c] = Idle(c)
    /\ call[c].pc \in {"idle", "forward"} =>
          /\ call[c].answer = "none" /\ call[c].chunks = 0 /\ call[c].usage = 0
          /\ stats[c] = [failed |-> {}, server |-> Nobody, tokens |-> 0]
    /\ call[c].pc \in {"idle", "forward", "relay"} => log[c].rows = 0
    /\ call[c].pc = "forward" /\ call[c].kind = "sealed" => call[c].pinned = {}
    /\ call[c].pc = "relay" =>
          /\ call[c].server # Nobody
          /\ call[c].chunks > 0 \/ call[c].usage > 0 => call[c].answer # "none"
          /\ call[c].answer = "served" => call[c].chunks > 0

(* ServedIffCharged and RecordsAgree of one call.                          *)
Charged(c) ==
    /\ call[c].pc = "done" /\ call[c].answer = "served" /\ Alone(c)
    /\ call[c].rid \notin due /\ ~ call[c].unpaid
    => Status(c) = "settled"

Billed(c) ==
    /\ call[c].pc = "done" /\ call[c].answer # "none" /\ Alone(c) /\ Status(c) = "settled"
    => /\ log[c] = [rows |-> 1, tokens |-> event[call[c].rid].charged]
       /\ stats[c].server # Nobody /\ (call[c].chunks > 0 => call[c].usage > 0)
             => stats[c].tokens = event[call[c].rid].charged

Recorded(c) ==
    call[c].pc \in {"relay", "done"} =>
        call[c].failed = stats[c].failed /\ call[c].pinned \subseteq stale

(* NoneDangling of one call.  An ended call without an event has the id    *)
(* that is its own, which no other call can be given.                      *)
Closed(c) ==
    /\ call[c].pc = "done" =>
          \/ call[c].rid \in due
          \/ call[c].unpaid /\ call[c].server # Nobody
          \/ Status(c) # "reserved"
    /\ call[c].pc = "done" \/ call[c].kind = "sealed" =>
          Status(c) # "none" \/ call[c].rid = c

CallOK(c) ==
    /\ call[c].rid \in Ids \union {c}
    /\ FreshOK(c) /\ MemoryOK(c) /\ RowsOK(c)
    /\ Charged(c) /\ Billed(c) /\ Recorded(c) /\ Closed(c)

(* An event is that of a call.                                             *)
Owned ==
    \A r \in Rids : event[r].status # "none" =>
        \E c \in Calls : call[c].pc # "idle" /\ call[c].rid = r

(* Sealed calls share no event.                                            *)
Apart ==
    \A c, d \in Calls : c # d =>
        ~ /\ call[c].kind = "sealed" /\ call[c].pc # "idle"
          /\ call[d].kind = "sealed" /\ call[d].pc # "idle"
          /\ call[c].rid = call[d].rid

PlaneInv ==
    /\ TypeOK
    /\ Owned /\ Apart /\ ChargedWasServed
    /\ \A c \in Calls : CallOK(c)

-----------------------------------------------------------------------------
EventRows == [status : Statuses, charged : Nat]

(* The coroutine of a call ends: five fields are reset, the others stay.   *)
LEMMA OverIs ==
    ASSUME TypeOK, NEW c \in Calls, NEW pc \in {"done", "crashed"}
    PROVE  /\ Over(c, pc) \in CallStates
           /\ Over(c, pc).pc = pc /\ ~ Over(c, pc).fresh /\ Over(c, pc).swept = {}
           /\ Over(c, pc).kind = call[c].kind /\ Over(c, pc).rid = call[c].rid
           /\ Over(c, pc).failed = call[c].failed /\ Over(c, pc).pinned = call[c].pinned
           /\ Over(c, pc).server = call[c].server /\ Over(c, pc).chunks = call[c].chunks
           /\ Over(c, pc).usage = call[c].usage /\ Over(c, pc).answer = call[c].answer
           /\ Over(c, pc).unpaid = call[c].unpaid
<1> DEFINE x == call[c]
           a == [x EXCEPT !.pc = pc]
           b == [a EXCEPT !.mem = "none"]
           d == [b EXCEPT !.fresh = FALSE]
           e == [d EXCEPT !.swept = {}]
           y == [e EXCEPT !.left = {}]
           Rest(z) == /\ z.kind = x.kind /\ z.rid = x.rid /\ z.failed = x.failed
                      /\ z.pinned = x.pinned /\ z.server = x.server /\ z.chunks = x.chunks
                      /\ z.usage = x.usage /\ z.answer = x.answer /\ z.unpaid = x.unpaid
<1>1. x \in CallStates
  BY DEF TypeOK
<1>2. Over(c, pc) = y
  BY DEF Over
<1> HIDE DEF x
<1>3. a \in CallStates /\ a.pc = pc /\ Rest(a)
  BY <1>1 DEF CallStates
<1> HIDE DEF a
<1>4. b \in CallStates /\ b.pc = pc /\ Rest(b)
  BY <1>3 DEF CallStates, Statuses
<1> HIDE DEF b
<1>5. d \in CallStates /\ d.pc = pc /\ ~ d.fresh /\ Rest(d)
  BY <1>4 DEF CallStates
<1> HIDE DEF d
<1>6. e \in CallStates /\ e.pc = pc /\ ~ e.fresh /\ e.swept = {} /\ Rest(e)
  BY <1>5 DEF CallStates
<1> HIDE DEF e
<1>7. y \in CallStates /\ y.pc = pc /\ ~ y.fresh /\ y.swept = {} /\ Rest(y)
  BY <1>6 DEF CallStates
<1> HIDE DEF y
<1> QED BY <1>2, <1>7 DEF x

(* Expiring changes the status of reserved events, and nothing else.       *)
LEMMA ExpireIs ==
    ASSUME NEW ev \in [Rids -> EventRows], NEW R
    PROVE  /\ Expire(ev, R) \in [Rids -> EventRows]
           /\ \A r \in Rids :
                 IF r \in R /\ ev[r].status = "reserved"
                 THEN Expire(ev, R)[r].status = "expired"
                 ELSE Expire(ev, R)[r] = ev[r]
<1>1. \A r \in Rids : [ev[r] EXCEPT !.status = "expired"] \in EventRows
  BY DEF EventRows, Statuses
<1>2. \A r \in Rids : [ev[r] EXCEPT !.status = "expired"].status = "expired"
  BY DEF EventRows
<1> QED BY <1>1, <1>2 DEF Expire

(* The rows as the session of a call sees them.                            *)
LEMMA SeenIs ==
    ASSUME PlaneInv, NEW c \in Calls
    PROVE  /\ Seen(c) \in [Rids -> EventRows]
           /\ \A r \in Rids :
                 \/ Seen(c)[r] = event[r]
                 \/ r \in due /\ event[r].status = "reserved" /\ Seen(c)[r].status = "expired"
                 \/ r = call[c].rid /\ call[c].fresh
           /\ call[c].fresh => Seen(c)[call[c].rid].status = "reserved"
<1>1. event \in [Rids -> EventRows] /\ call[c].rid \in Rids /\ call[c].swept \subseteq due
  BY DEF PlaneInv, TypeOK, EventRows, CallStates, CallOK, FreshOK
<1> DEFINE e == Expire(event, call[c].swept)
           f == [e EXCEPT ![call[c].rid] = [status |-> "reserved", charged |-> 0]]
<1>2. /\ e \in [Rids -> EventRows]
      /\ \A r \in Rids :
            \/ e[r] = event[r]
            \/ r \in due /\ event[r].status = "reserved" /\ e[r].status = "expired"
  <2> DEFINE S == call[c].swept
  <2>1. S \subseteq due
    BY <1>1
  <2> HIDE DEF S
  <2>2. /\ Expire(event, S) \in [Rids -> EventRows]
        /\ \A r \in Rids : IF r \in S /\ event[r].status = "reserved"
                          THEN Expire(event, S)[r].status = "expired"
                          ELSE Expire(event, S)[r] = event[r]
    BY <1>1, ExpireIs
  <2> QED BY <2>1, <2>2 DEF S
<1>3. Seen(c) = IF call[c].fresh THEN f ELSE e
  BY DEF Seen
<1> HIDE DEF e
<1>4. [status |-> "reserved", charged |-> 0] \in EventRows
  BY DEF EventRows, Statuses
<1>5. f \in [Rids -> EventRows] /\ f[call[c].rid].status = "reserved"
      /\ \A r \in Rids \ {call[c].rid} : f[r] = e[r]
  BY <1>1, <1>2, <1>4
<1> HIDE DEF f
<1> QED BY <1>1, <1>2, <1>3, <1>5

(* What a transaction of c may do to the rows of the events: expire what   *)
(* is due, and close its own.                                              *)
Closes(c, new) ==
    /\ new \in [Rids -> EventRows]
    /\ \A r \in Rids :
          \/ new[r] = event[r]
          \/ r \in due /\ event[r].status = "reserved" /\ new[r].status = "expired"
          \/ r = call[c].rid /\ new[r].status \in {"released", "expired", "settled"}

(* A release never charges, and leaves the event closed.                   *)
LEMMA ReleasedIs ==
    ASSUME PlaneInv, NEW c \in Calls, Active(c)
    PROVE  /\ Closes(c, Released(c))
           /\ \A r \in Rids : Released(c)[r].status = "settled" => event[r].status = "settled"
           /\ Released(c)[call[c].rid].status # "none"
           /\ Released(c)[call[c].rid].status # "reserved" \/ call[c].rid \in due
<1> DEFINE r0 == call[c].rid
           s == Seen(c)
           e == Expire(s, due)
           f == [s EXCEPT ![r0].status = "released"]
<1>1. /\ s \in [Rids -> EventRows]
      /\ \A r \in Rids :
            \/ s[r] = event[r]
            \/ r \in due /\ event[r].status = "reserved" /\ s[r].status = "expired"
            \/ r = r0 /\ call[c].fresh
      /\ call[c].fresh => s[r0].status = "reserved"
  BY SeenIs
<1>2. r0 \in Rids /\ event \in [Rids -> EventRows]
  BY DEF PlaneInv, TypeOK, EventRows, CallStates
<1>3. /\ call[c].fresh => call[c].mem = "reserved"
      /\ ~ call[c].fresh => event[r0].status # "none"
      /\ call[c].mem # "reserved" => event[r0].status # "reserved" \/ r0 \in due
  BY DEF PlaneInv, CallOK, FreshOK, MemoryOK, Status
<1>4. /\ e \in [Rids -> EventRows]
      /\ \A r \in Rids : IF r \in due /\ s[r].status = "reserved"
                        THEN e[r].status = "expired" ELSE e[r] = s[r]
  BY <1>1, ExpireIs
<1>5. Released(c) = IF call[c].mem # "reserved" THEN s ELSE IF r0 \in due THEN e ELSE f
  BY DEF Released
<1>6. /\ f \in [Rids -> EventRows] /\ f[r0].status = "released"
      /\ \A r \in Rids \ {r0} : f[r] = s[r]
  <2>1. [s[r0] EXCEPT !.status = "released"] \in EventRows
        /\ [s[r0] EXCEPT !.status = "released"].status = "released"
    BY <1>1, <1>2 DEF EventRows, Statuses
  <2>2. f = [s EXCEPT ![r0] = [s[r0] EXCEPT !.status = "released"]]
    OBVIOUS
  <2> QED BY <1>1, <1>2, <2>1, <2>2
<1> HIDE DEF s, e, f
<1>7. CASE call[c].mem # "reserved"
  <2>1. Released(c) = s /\ ~ call[c].fresh
    BY <1>3, <1>5, <1>7
  <2> QED BY <1>1, <1>2, <1>3, <1>7, <2>1 DEF Closes
<1>8. CASE call[c].mem = "reserved" /\ r0 \in due
  <2>1. Released(c) = e
    BY <1>5, <1>8
  <2>2. \A r \in Rids :
          \/ e[r] = event[r]
          \/ r \in due /\ event[r].status = "reserved" /\ e[r].status = "expired"
          \/ r = r0 /\ call[c].fresh /\ e[r].status = "expired"
    BY <1>1, <1>4, <1>8
  <2>3. Closes(c, e)
    BY <1>4, <2>2 DEF Closes
  <2>4. \A r \in Rids : e[r].status = "settled" => event[r].status = "settled"
    BY <2>2
  <2>5. e[r0].status # "none"
    <3>1. \/ e[r0] = event[r0]
          \/ e[r0].status = "expired"
      BY <1>2, <2>2
    <3>2. CASE ~ call[c].fresh
      BY <1>3, <3>1, <3>2
    <3>3. CASE call[c].fresh
      BY <1>1, <1>2, <1>4, <1>8, <3>3
    <3> QED BY <3>2, <3>3
  <2> QED BY <1>8, <2>1, <2>3, <2>4, <2>5
<1>9. CASE call[c].mem = "reserved" /\ r0 \notin due
  <2>1. Released(c) = f
    BY <1>5, <1>9
  <2> QED BY <1>1, <1>2, <1>6, <2>1 DEF Closes
<1> QED BY <1>7, <1>8, <1>9

(* A settlement closes the event too, and charges what it is told unless   *)
(* the event was settled before.  So it is with the expiries after it.     *)
LEMMA SettledIs ==
    ASSUME PlaneInv, NEW c \in Calls, Active(c), Settleable(c), NEW n \in Nat,
           NEW new \in {Settled(c, n), Expire(Settled(c, n), due)}
    PROVE  /\ Closes(c, new)
           /\ \A r \in Rids \ {call[c].rid} :
                 new[r].status = "settled" => event[r].status = "settled"
           /\ new[call[c].rid].status # "none"
           /\ new[call[c].rid].status # "reserved" \/ call[c].rid \in due
           /\ Alone(c) => new[call[c].rid] = [status |-> "settled", charged |-> n]
<1> DEFINE r0 == call[c].rid
           s == Seen(c)
           row == [status |-> "settled", charged |-> n]
           t == Settled(c, n)
           f == [s EXCEPT ![r0] = row]
           e == Expire(t, due)
<1>1. /\ s \in [Rids -> EventRows]
      /\ \A r \in Rids :
            \/ s[r] = event[r]
            \/ r \in due /\ event[r].status = "reserved" /\ s[r].status = "expired"
            \/ r = r0 /\ call[c].fresh
  BY SeenIs
<1>2. r0 \in Rids /\ event \in [Rids -> EventRows]
  BY DEF PlaneInv, TypeOK, EventRows, CallStates
<1>3. /\ call[c].fresh => call[c].mem = "reserved"
      /\ ~ call[c].fresh => event[r0].status # "none"
      /\ call[c].mem # "reserved" => event[r0].status # "reserved" \/ r0 \in due
      /\ Alone(c) => call[c].mem = "reserved"
  BY DEF PlaneInv, CallOK, FreshOK, MemoryOK, Status
<1>4. row \in EventRows /\ row.status = "settled"
  BY DEF EventRows, Statuses
<1>5. /\ f \in [Rids -> EventRows] /\ f[r0] = row
      /\ \A r \in Rids \ {r0} : f[r] = s[r]
  BY <1>1, <1>2, <1>4
<1>6. t = IF call[c].mem = "settled" THEN s ELSE f
  BY DEF Settled
<1> HIDE DEF s, f, row
<1>7. /\ t \in [Rids -> EventRows]
      /\ \A r \in Rids \ {r0} :
            \/ t[r] = event[r]
            \/ r \in due /\ event[r].status = "reserved" /\ t[r].status = "expired"
      /\ \/ t[r0] = row
         \/ /\ call[c].mem = "settled"
            /\ \/ t[r0] = event[r0]
               \/ r0 \in due /\ event[r0].status = "reserved" /\ t[r0].status = "expired"
  BY <1>1, <1>2, <1>3, <1>5, <1>6
<1> HIDE DEF t
<1>8. /\ e \in [Rids -> EventRows]
      /\ \A r \in Rids : IF r \in due /\ t[r].status = "reserved"
                        THEN e[r].status = "expired" ELSE e[r] = t[r]
  BY <1>7, ExpireIs
<1> HIDE DEF e
<1>9. CASE new = t
  BY <1>2, <1>3, <1>4, <1>7, <1>9 DEF Closes, row
<1>10. CASE new = e
  <2>1. /\ \A r \in Rids \ {r0} :
            \/ e[r] = event[r]
            \/ r \in due /\ event[r].status = "reserved" /\ e[r].status = "expired"
        /\ \/ e[r0] = row
           \/ /\ call[c].mem = "settled"
              /\ \/ e[r0] = event[r0]
                 \/ r0 \in due /\ event[r0].status = "reserved" /\ e[r0].status = "expired"
    BY <1>2, <1>4, <1>7, <1>8
  <2> QED BY <1>2, <1>3, <1>4, <1>8, <1>10, <2>1 DEF Closes, row
<1> QED BY <1>9, <1>10 DEF t, e

-----------------------------------------------------------------------------
(* A step of c: what it does to the event r ...                            *)
EventStep(c, r) ==
    \/ event'[r] = event[r]
    \/ r \in due /\ event[r].status = "reserved" /\ event'[r].status = "expired"
    \/ /\ r = call'[c].rid
       /\ event'[r].status # "none"
       /\ event'[r].status = "reserved" => event[r].status \in {"none", "reserved"}
       /\ event'[r].status = "settled" =>
             event[r].status = "settled" \/ call'[c].answer # "none"
       /\ \A d \in Calls \ {c} : ~ call[d].fresh

(* ... and to everything else: the rows of the other calls stay, and the   *)
(* call keeps its event and what it has been answered.                     *)
Moves(c) ==
    /\ due' = due /\ stale \subseteq stale'
    /\ \A d \in Calls \ {c} :
          call'[d] = call[d] /\ stats'[d] = stats[d] /\ log'[d] = log[d]
    /\ call'[c].pc # "idle" /\ call'[c].rid \in Ids \union {c}
    /\ call[c].pc # "idle" => call'[c].rid = call[c].rid /\ call'[c].kind = call[c].kind
    /\ call[c].answer # "none" => call'[c].answer # "none"
    /\ \A r \in Rids : EventStep(c, r)

(* The other calls do not notice.                                          *)
LEMMA OtherKept ==
    ASSUME PlaneInv, TypeOK', NEW c \in Calls, NEW d \in Calls \ {c}, Moves(c)
    PROVE  CallOK(d)'
<1> DEFINE x == call[d]
           r == x.rid
<1>1. call'[d] = x /\ stats'[d] = stats[d] /\ log'[d] = log[d] /\ due' = due
      /\ stale \subseteq stale'
  BY DEF Moves
<1>2. CallOK(d) /\ x \in CallStates /\ r \in Rids
  BY DEF PlaneInv, TypeOK, CallStates
<1>3. EventStep(c, r)
  BY <1>2 DEF Moves
<1>4. Alone(d)' => Alone(d) /\ call'[c].rid # r
  BY <1>1 DEF Moves, Alone
<1>5. /\ event[r].status # "none" => event'[r].status # "none"
      /\ event'[r].status = "reserved" => event[r].status \in {"none", "reserved"}
      /\ call'[c].rid # r =>
            \/ event'[r] = event[r]
            \/ r \in due /\ event[r].status = "reserved" /\ event'[r].status = "expired"
  BY <1>3 DEF EventStep
<1>6. x.fresh => event'[r] = event[r]
  <2>1. x.fresh => event[r].status = "none"
    BY <1>2 DEF CallOK, FreshOK, Status
  <2> QED BY <1>3, <2>1 DEF EventStep
<1>7. FreshOK(d)'
  BY <1>1, <1>2, <1>6 DEF CallOK, FreshOK, Status
<1>8. MemoryOK(d)'
  <2> SUFFICES ASSUME Active(d)
               PROVE  /\ x.mem # "none"
                      /\ ~ x.fresh => event'[r].status # "none"
                      /\ x.mem # "reserved" => event'[r].status # "reserved" \/ r \in due
                      /\ Alone(d)' =>
                            /\ x.mem = "reserved"
                            /\ \/ x.fresh
                               \/ event'[r].status = "reserved"
                               \/ event'[r].status = "expired" /\ r \in due
    BY <1>1 DEF MemoryOK, Active, Status
  <2>1. /\ x.mem # "none"
        /\ ~ x.fresh => event[r].status # "none"
        /\ x.mem # "reserved" => event[r].status # "reserved" \/ r \in due
        /\ x.fresh => x.mem = "reserved"
        /\ Alone(d) =>
              /\ x.mem = "reserved"
              /\ \/ x.fresh
                 \/ event[r].status = "reserved"
                 \/ event[r].status = "expired" /\ r \in due
    BY <1>2 DEF CallOK, MemoryOK, FreshOK, Status
  <2>2. ~ x.fresh => event'[r].status # "none"
    BY <1>5, <2>1
  <2>3. x.mem # "reserved" => event'[r].status # "reserved" \/ r \in due
    BY <1>5, <2>1
  <2>4. Alone(d)' =>
              /\ x.mem = "reserved"
              /\ \/ x.fresh
                 \/ event'[r].status = "reserved"
                 \/ event'[r].status = "expired" /\ r \in due
    BY <1>4, <1>5, <2>1
  <2> QED BY <2>1, <2>2, <2>3, <2>4
<1>9. RowsOK(d)'
  BY <1>1, <1>2 DEF CallOK, RowsOK, Idle
<1>10. Charged(d)'
  BY <1>1, <1>2, <1>4, <1>5 DEF CallOK, Charged, Status
<1>11. Billed(d)'
  BY <1>1, <1>2, <1>4, <1>5 DEF CallOK, Billed, Status
<1>12. Recorded(d)'
  BY <1>1, <1>2 DEF CallOK, Recorded
<1>13. Closed(d)'
  <2>1. /\ x.pc = "done" =>
              \/ r \in due
              \/ x.unpaid /\ x.server # Nobody
              \/ event[r].status # "reserved"
        /\ x.pc = "done" \/ x.kind = "sealed" => event[r].status # "none" \/ r = d
    BY <1>2 DEF CallOK, Closed, Status
  <2>2. r = d /\ event'[r].status = "reserved" => event[r].status = "reserved"
    <3> SUFFICES ASSUME r = d, event'[r].status = "reserved"
                 PROVE  event[r].status = "reserved"
      OBVIOUS
    <3>1. call'[c].rid # r
      BY PlaneAssumption DEF Moves
    <3> QED BY <1>5, <3>1
  <2>3. x.pc = "done" /\ event'[r].status = "reserved" => event[r].status = "reserved"
    BY <1>5, <2>1, <2>2
  <2> QED BY <1>1, <1>5, <2>1, <2>3 DEF Closed, Status
<1>14. (call[d].rid \in Ids \union {d})'
  BY <1>1, <1>2 DEF CallOK
<1> QED BY <1>7, <1>8, <1>9, <1>10, <1>11, <1>12, <1>13, <1>14 DEF CallOK

(* So a step keeps the invariant, if it leaves its own call in order.      *)
LEMMA MoveKeeps ==
    ASSUME PlaneInv, TypeOK', NEW c \in Calls, Moves(c), CallOK(c)',
           call'[c].kind = "sealed" =>
              \/ call[c].pc # "idle"
              \/ \A d \in Calls \ {c} :
                    call[d].kind = "sealed" /\ call[d].pc # "idle"
                       => call[d].rid # call'[c].rid
    PROVE  PlaneInv'
<1>1. \A d \in Calls \ {c} : call'[d] = call[d]
  BY DEF Moves
<1>2. /\ call'[c].pc # "idle"
      /\ call[c].pc # "idle" => call'[c].rid = call[c].rid /\ call'[c].kind = call[c].kind
      /\ call[c].answer # "none" => call'[c].answer # "none"
  BY DEF Moves
<1>3. \A d \in Calls : CallOK(d)'
  <2> TAKE d \in Calls
  <2>1. CASE d = c
    BY <2>1
  <2>2. CASE d # c
    BY <2>2, OtherKept
  <2> QED BY <2>1, <2>2
<1>4. Owned'
  <2> SUFFICES ASSUME NEW r \in Rids, event'[r].status # "none"
               PROVE  \E d \in Calls : call'[d].pc # "idle" /\ call'[d].rid = r
    BY DEF Owned
  <2>1. CASE event[r].status # "none"
    <3>1. PICK d \in Calls : call[d].pc # "idle" /\ call[d].rid = r
      BY <2>1 DEF PlaneInv, Owned
    <3>2. call'[d].pc # "idle" /\ call'[d].rid = r
      BY <1>1, <1>2, <3>1
    <3> QED BY <3>2
  <2>2. CASE event[r].status = "none"
    <3>1. r = call'[c].rid
      BY <2>2 DEF Moves, EventStep
    <3> QED BY <1>2, <3>1
  <2> QED BY <2>1, <2>2
<1>5. Apart'
  <2>1. \A d \in Calls \ {c} :
          ~ /\ call'[c].kind = "sealed"
            /\ call[d].kind = "sealed" /\ call[d].pc # "idle"
            /\ call'[c].rid = call[d].rid
    BY <1>2 DEF PlaneInv, Apart
  <2> QED BY <1>1, <2>1 DEF PlaneInv, Apart
<1>6. ChargedWasServed'
  <2> SUFFICES ASSUME NEW r \in Rids, event'[r].status = "settled"
               PROVE  \E d \in Calls : call'[d].rid = r /\ call'[d].answer # "none"
    BY DEF ChargedWasServed
  <2>1. CASE event[r].status = "settled"
    <3>1. PICK d \in Calls : call[d].rid = r /\ call[d].answer # "none"
      BY <2>1 DEF PlaneInv, ChargedWasServed
    <3>2. call[d].pc # "idle"
      BY <3>1 DEF PlaneInv, CallOK, RowsOK
    <3>3. call'[d].rid = r /\ call'[d].answer # "none"
      BY <1>1, <1>2, <3>1, <3>2
    <3> QED BY <3>3
  <2>2. CASE event[r].status # "settled"
    <3>1. r = call'[c].rid /\ call'[c].answer # "none"
      BY <2>2 DEF Moves, EventStep
    <3> QED BY <3>1
  <2> QED BY <2>1, <2>2
<1> QED BY <1>3, <1>4, <1>5, <1>6 DEF PlaneInv

-----------------------------------------------------------------------------
(* Closing an event is a step like that: whoever writes while others hold  *)
(* a fresh reservation waits for the row of the period.                    *)
LEMMA ClosesStep ==
    ASSUME PlaneInv, NEW c \in Calls, NEW new, event' = new, Closes(c, new),
           ~ PeriodLockedByOther(c), call'[c].rid = call[c].rid,
           new[call[c].rid].status # "none",
           new[call[c].rid].status = "settled" =>
              event[call[c].rid].status = "settled" \/ call'[c].answer # "none"
    PROVE  \A r \in Rids : EventStep(c, r)
<1>1. \A d \in Calls \ {c} : ~ call[d].fresh
  <2>1. \A d \in Calls : call[d].fresh => call[d].kind = "plain" /\ call[d].pc = "forward"
    BY DEF PlaneInv, CallOK, FreshOK
  <2> QED BY <2>1 DEF PeriodLockedByOther
<1> QED BY <1>1 DEF Closes, EventStep

(* A call that ends has to have closed its event and recorded its attempts *)
(* and its charge.                                                         *)
LEMMA EndKeeps ==
    ASSUME PlaneInv, TypeOK', NEW c \in Calls, Active(c), NEW x \in CallStates,
           call' = [call EXCEPT ![c] = x],
           x.pc = "done", ~ x.fresh, x.swept = {},
           x.rid = call[c].rid, x.kind = call[c].kind,
           call[c].answer # "none" => x.answer # "none",
           \A d \in Calls \ {c} : stats'[d] = stats[d] /\ log'[d] = log[d],
           due' = due, stale \subseteq stale',
           \A r \in Rids : EventStep(c, r),
           event'[x.rid].status # "none",
           \/ x.rid \in due
           \/ x.unpaid /\ x.server # Nobody
           \/ event'[x.rid].status # "reserved",
           x.failed = stats'[c].failed, x.pinned \subseteq stale',
           Charged(c)', Billed(c)'
    PROVE  PlaneInv'
<1>1. call'[c] = x /\ \A d \in Calls \ {c} : call'[d] = call[d]
  BY DEF PlaneInv, TypeOK
<1>2. x.rid \in Ids \union {c} /\ call[c].pc # "idle"
  BY DEF PlaneInv, CallOK, Active
<1>3. Moves(c)
  BY <1>1, <1>2 DEF Moves
<1>4. FreshOK(c)' /\ MemoryOK(c)' /\ RowsOK(c)' /\ Recorded(c)' /\ Closed(c)'
  BY <1>1 DEF FreshOK, MemoryOK, RowsOK, Recorded, Closed, Active, Status
<1>5. CallOK(c)'
  BY <1>1, <1>2, <1>4 DEF CallOK
<1> QED BY <1>2, <1>3, <1>5, MoveKeeps

(* A release at the end of a call.                                         *)
LEMMA EndReleased ==
    ASSUME PlaneInv, NEW c \in Calls, Active(c), NEW x \in CallStates,
           ~ PeriodLockedByOther(c), event' = Released(c),
           call' = [call EXCEPT ![c] = x],
           x.pc = "done", ~ x.fresh, x.swept = {},
           x.rid = call[c].rid, x.kind = call[c].kind,
           call[c].answer = "none", x.answer = "none",
           stats' = [stats EXCEPT ![c].failed = x.failed], UNCHANGED <<due, log>>,
           stale \subseteq stale', stale' \subseteq Miners, x.pinned \subseteq stale'
    PROVE  PlaneInv'
<1>1. /\ Closes(c, Released(c))
      /\ Released(c)[x.rid].status = "settled" => event[x.rid].status = "settled"
      /\ Released(c)[x.rid].status # "none"
      /\ Released(c)[x.rid].status # "reserved" \/ x.rid \in due
  <2>1. x.rid \in Rids
    BY DEF CallStates
  <2> QED BY <2>1, ReleasedIs
<1> DEFINE new == Released(c)
<1>2. event' = new
  OBVIOUS
<1> HIDE DEF new
<1>3. call'[c] = x
  BY DEF PlaneInv, TypeOK
<1>4. \A r \in Rids : EventStep(c, r)
  BY <1>1, <1>2, <1>3, ClosesStep DEF new
<1>5. TypeOK'
  <2>1. event' \in [Rids -> [status : Statuses, charged : Nat]]
    BY <1>1, <1>2 DEF Closes, EventRows, new
  <2>2. x.failed \in SUBSET Miners
    BY DEF CallStates
  <2>3. stats' \in [Calls -> [failed : SUBSET Miners, server : Miners \union {Nobody},
                              tokens : Nat]]
    BY <2>2 DEF PlaneInv, TypeOK
  <2>4. call' \in [Calls -> CallStates]
    BY DEF PlaneInv, TypeOK
  <2> QED BY <2>1, <2>3, <2>4 DEF PlaneInv, TypeOK
<1>6. stats'[c].failed = x.failed /\ \A d \in Calls \ {c} : stats'[d] = stats[d]
  BY DEF PlaneInv, TypeOK
<1>7. Charged(c)' /\ Billed(c)'
  BY <1>3 DEF Charged, Billed
<1> QED BY <1>1, <1>2, <1>4, <1>5, <1>6, <1>7, EndKeeps DEF new

(* A settlement at the end of a call: the log row and the row of the miner *)
(* say what was charged.                                                   *)
LEMMA EndSettled ==
    ASSUME PlaneInv, NEW c \in Calls, Active(c), NEW x \in CallStates, NEW n \in Nat,
           ~ PeriodLockedByOther(c), Settleable(c),
           event' \in {Settled(c, n), Expire(Settled(c, n), due)},
           call' = [call EXCEPT ![c] = x],
           x.pc = "done", ~ x.fresh, x.swept = {},
           x.rid = call[c].rid, x.kind = call[c].kind, x.answer # "none",
           NEW row \in [failed : SUBSET Miners, server : Miners \union {Nobody}, tokens : Nat],
           stats' = [stats EXCEPT ![c] = row],
           row.failed = x.failed, row.server = Nobody \/ row.tokens = n,
           log[c].rows = 0, log' = [log EXCEPT ![c] = [rows |-> 1, tokens |-> n]],
           due' = due,
           stale \subseteq stale', stale' \subseteq Miners, x.pinned \subseteq stale'
    PROVE  PlaneInv'
<1>1. PICK new \in {Settled(c, n), Expire(Settled(c, n), due)} : event' = new
  OBVIOUS
<1>2. /\ Closes(c, new)
      /\ new[x.rid].status # "none"
      /\ new[x.rid].status # "reserved" \/ x.rid \in due
      /\ Alone(c) => new[x.rid] = [status |-> "settled", charged |-> n]
  BY SettledIs
<1>3. call'[c] = x /\ \A d \in Calls \ {c} : call'[d] = call[d]
  BY DEF PlaneInv, TypeOK
<1>4. \A r \in Rids : EventStep(c, r)
  BY <1>1, <1>2, <1>3, ClosesStep
<1>5. /\ log' \in [Calls -> [rows : Nat, tokens : Nat]]
      /\ log'[c] = [rows |-> 1, tokens |-> n]
      /\ \A d \in Calls \ {c} : log'[d] = log[d]
  BY DEF PlaneInv, TypeOK
<1>6. /\ stats' \in [Calls -> [failed : SUBSET Miners, server : Miners \union {Nobody},
                              tokens : Nat]]
      /\ stats'[c] = row
      /\ \A d \in Calls \ {c} : stats'[d] = stats[d]
  BY DEF PlaneInv, TypeOK
<1>7. TypeOK'
  <2>1. event' \in [Rids -> [status : Statuses, charged : Nat]]
    BY <1>1, <1>2 DEF Closes, EventRows
  <2>2. call' \in [Calls -> CallStates]
    BY DEF PlaneInv, TypeOK
  <2> QED BY <1>5, <1>6, <2>1, <2>2 DEF PlaneInv, TypeOK
<1>8. Alone(c)' => event'[x.rid] = [status |-> "settled", charged |-> n]
  BY <1>1, <1>2, <1>3 DEF Alone
<1>9. Charged(c)' /\ Billed(c)'
  BY <1>3, <1>5, <1>6, <1>8 DEF Charged, Billed, Status
<1> QED BY <1>1, <1>2, <1>4, <1>5, <1>6, <1>7, <1>9, EndKeeps

-----------------------------------------------------------------------------
(* What is so of a call that waits for a miner. *)
LEMMA Waiting ==
    ASSUME PlaneInv, NEW c \in Calls, call[c].pc = "forward"
    PROVE  /\ Active(c) /\ call[c] \in CallStates /\ call[c].rid \in Rids
           /\ call[c].answer = "none" /\ call[c].chunks = 0 /\ call[c].usage = 0
           /\ stats[c] = [failed |-> {}, server |-> Nobody, tokens |-> 0]
           /\ log[c].rows = 0
           /\ call[c].kind = "sealed" => call[c].pinned = {}
BY DEF PlaneInv, TypeOK, CallStates, Active, CallOK, RowsOK

LEMMA BreaksKeeps ==
    ASSUME PlaneInv, NEW c \in Calls, AllFailed(c) \/ \E m \in Miners : AttemptBreaks(c, m)
    PROVE  PlaneInv'
<1> DEFINE x == Over(c, "done")
<1>1. /\ call[c].pc = "forward" /\ ~ PeriodLockedByOther(c) /\ event' = Released(c)
      /\ stats' = [stats EXCEPT ![c].failed = call[c].failed]
      /\ stale' = stale \union call[c].pinned
      /\ call' = [call EXCEPT ![c] = x] /\ UNCHANGED <<due, log>>
  BY DEF AllFailed, AttemptBreaks, CanTry, CommitAttempts, End
<1>2. x \in CallStates /\ x.pc = "done" /\ ~ x.fresh /\ x.swept = {}
      /\ x.rid = call[c].rid /\ x.kind = call[c].kind /\ x.answer = call[c].answer
      /\ x.failed = call[c].failed /\ x.pinned = call[c].pinned
  BY OverIs DEF PlaneInv
<1> HIDE DEF x
<1>3. Active(c) /\ call[c].answer = "none" /\ call[c] \in CallStates
  BY <1>1, Waiting
<1>4. stale' \subseteq Miners
  BY <1>1, <1>3 DEF PlaneInv, TypeOK, CallStates
<1> QED BY <1>1, <1>2, <1>3, <1>4, EndReleased

LEMMA SettleRaisesKeeps ==
    ASSUME PlaneInv, NEW c \in Calls, call[c].pc = "forward", ~ PeriodLockedByOther(c),
           NEW unpaid \in BOOLEAN, SettleRaises(c, unpaid)
    PROVE  PlaneInv'
<1> DEFINE y == Over(c, "done")
           x == [y EXCEPT !.unpaid = unpaid]
<1>1. /\ event' = Released(c)
      /\ stats' = [stats EXCEPT ![c].failed = call[c].failed]
      /\ stale' = stale \union call[c].pinned
      /\ call' = [call EXCEPT ![c] = x] /\ UNCHANGED <<due, log>>
  BY DEF SettleRaises, CommitAttempts
<1>2. y \in CallStates /\ y.pc = "done" /\ ~ y.fresh /\ y.swept = {}
      /\ y.rid = call[c].rid /\ y.kind = call[c].kind /\ y.answer = call[c].answer
      /\ y.failed = call[c].failed /\ y.pinned = call[c].pinned
  BY OverIs DEF PlaneInv
<1> HIDE DEF y
<1>3. x \in CallStates /\ x.pc = "done" /\ ~ x.fresh /\ x.swept = {}
      /\ x.rid = call[c].rid /\ x.kind = call[c].kind /\ x.answer = call[c].answer
      /\ x.failed = call[c].failed /\ x.pinned = call[c].pinned
  BY <1>2 DEF CallStates
<1> HIDE DEF x
<1>4. Active(c) /\ call[c].answer = "none" /\ call[c] \in CallStates
  BY Waiting
<1>5. stale' \subseteq Miners
  BY <1>1, <1>4 DEF PlaneInv, TypeOK, CallStates
<1> QED BY <1>1, <1>3, <1>4, <1>5, EndReleased

LEMMA SettleAndAnswerKeeps ==
    ASSUME PlaneInv, NEW c \in Calls, call[c].pc = "forward", ~ PeriodLockedByOther(c),
           NEW m \in Miners, NEW n \in Nat, SettleAndAnswer(c, m, n, "served")
    PROVE  PlaneInv'
<1> DEFINE y == Over(c, "done")
           x == [y EXCEPT !.server = m, !.answer = "served"]
           row == [failed |-> call[c].failed, server |-> m, tokens |-> n]
<1>1. /\ Settleable(c)
      /\ event' \in {Settled(c, n), Expire(Settled(c, n), due)}
      /\ stats' = [stats EXCEPT ![c] = row]
      /\ stale' = stale \union call[c].pinned
      /\ log' = [log EXCEPT ![c] = [rows |-> log[c].rows + 1, tokens |-> n]]
      /\ call' = [call EXCEPT ![c] = x] /\ due' = due
  BY DEF SettleAndAnswer, PlaneInv, TypeOK
<1>2. y \in CallStates /\ y.pc = "done" /\ ~ y.fresh /\ y.swept = {}
      /\ y.rid = call[c].rid /\ y.kind = call[c].kind
      /\ y.failed = call[c].failed /\ y.pinned = call[c].pinned
  BY OverIs DEF PlaneInv
<1> HIDE DEF y
<1>3. x \in CallStates /\ x.pc = "done" /\ ~ x.fresh /\ x.swept = {}
      /\ x.rid = call[c].rid /\ x.kind = call[c].kind /\ x.answer = "served"
      /\ x.failed = call[c].failed /\ x.pinned = call[c].pinned
  BY <1>2 DEF CallStates
<1> HIDE DEF x
<1>4. Active(c) /\ call[c] \in CallStates /\ log[c].rows = 0
  BY Waiting
<1>5. stale' \subseteq Miners
  BY <1>1, <1>4 DEF PlaneInv, TypeOK, CallStates
<1>6. row \in [failed : SUBSET Miners, server : Miners \union {Nobody}, tokens : Nat]
      /\ row.failed = call[c].failed /\ row.tokens = n
  BY <1>4 DEF CallStates
<1> HIDE DEF row
<1>7. log' = [log EXCEPT ![c] = [rows |-> 1, tokens |-> n]]
  BY <1>1, <1>4
<1>8. /\ x.answer # "none" /\ row.failed = x.failed
      /\ row.server = Nobody \/ row.tokens = n
      /\ stale \subseteq stale' /\ x.pinned \subseteq stale'
  BY <1>1, <1>3, <1>6
<1> QED BY <1>1, <1>3, <1>4, <1>5, <1>6, <1>7, <1>8, EndSettled

LEMMA PlainAnswerKeeps ==
    ASSUME PlaneInv, NEW c \in Calls, NEW m \in Miners, NEW u \in Usages,
           PlainAnswer(c, m, u)
    PROVE  PlaneInv'
<1> DEFINE n == IF u = 0 THEN Words ELSE u
<1>1. n \in Nat
  BY PlaneAssumption
<1>2. call[c].pc = "forward" /\ ~ PeriodLockedByOther(c)
  BY DEF PlainAnswer, CanTry
<1>3. SettleAndAnswer(c, m, n, "served") \/ \E unpaid \in BOOLEAN : SettleRaises(c, unpaid)
  BY DEF PlainAnswer
<1> HIDE DEF n
<1> QED BY <1>1, <1>2, <1>3, SettleAndAnswerKeeps, SettleRaisesKeeps

LEMMA SealedAnswerKeeps ==
    ASSUME PlaneInv, NEW c \in Calls, NEW m \in Miners, NEW u \in Usages,
           NEW reported \in BOOLEAN, SealedAnswer(c, m, u, reported)
    PROVE  PlaneInv'
<1> DEFINE n == IF reported THEN u ELSE Estimate
<1>1. n \in Nat
  BY PlaneAssumption
<1>2. call[c].pc = "forward" /\ ~ PeriodLockedByOther(c)
  BY DEF SealedAnswer, CanTry
<1>3. SettleAndAnswer(c, m, n, "served") \/ \E unpaid \in BOOLEAN : SettleRaises(c, unpaid)
  BY DEF SealedAnswer
<1> HIDE DEF n
<1> QED BY <1>1, <1>2, <1>3, SettleAndAnswerKeeps, SettleRaisesKeeps

LEMMA SealedFailsKeeps ==
    ASSUME PlaneInv, NEW c \in Calls, NEW m \in Miners, NEW mismatch \in BOOLEAN,
           SealedFails(c, m, mismatch)
    PROVE  PlaneInv'
<1> DEFINE P == IF mismatch THEN {m} ELSE {}
           y == Over(c, "done")
           z == [y EXCEPT !.failed = {m}]
           x == [z EXCEPT !.pinned = P]
<1>1. /\ call[c].pc = "forward" /\ ~ PeriodLockedByOther(c) /\ event' = Released(c)
      /\ stats' = [stats EXCEPT ![c].failed = {m}]
      /\ stale' = IF mismatch THEN stale \union {m} ELSE stale
      /\ call' = [call EXCEPT ![c] = x] /\ UNCHANGED <<due, log>>
  BY DEF SealedFails, FailBeforeResponse, CanTry
<1>2. P \in SUBSET Miners /\ P \subseteq stale' /\ stale \subseteq stale' /\ stale' \subseteq Miners
  BY <1>1 DEF PlaneInv, TypeOK
<1> HIDE DEF P
<1>3. y \in CallStates /\ y.pc = "done" /\ ~ y.fresh /\ y.swept = {}
      /\ y.rid = call[c].rid /\ y.kind = call[c].kind /\ y.answer = call[c].answer
  BY OverIs DEF PlaneInv
<1> HIDE DEF y
<1>4. z \in CallStates /\ z.pc = "done" /\ ~ z.fresh /\ z.swept = {}
      /\ z.rid = call[c].rid /\ z.kind = call[c].kind /\ z.answer = call[c].answer
      /\ z.failed = {m}
  BY <1>3 DEF CallStates
<1> HIDE DEF z
<1>5. x \in CallStates /\ x.pc = "done" /\ ~ x.fresh /\ x.swept = {}
      /\ x.rid = call[c].rid /\ x.kind = call[c].kind /\ x.answer = call[c].answer
      /\ x.failed = {m} /\ x.pinned = P
  BY <1>2, <1>4 DEF CallStates
<1> HIDE DEF x
<1>6. Active(c) /\ call[c].answer = "none"
  BY <1>1, Waiting
<1> QED BY <1>1, <1>2, <1>5, <1>6, EndReleased

LEMMA SealedRefusalKeeps ==
    ASSUME PlaneInv, NEW c \in Calls, NEW m \in Miners, NEW serverError \in BOOLEAN,
           SealedRefusal(c, m, serverError)
    PROVE  PlaneInv'
<1> DEFINE F == IF serverError THEN {m} ELSE {}
           y == Over(c, "done")
           x == [y EXCEPT !.failed = F]
<1>1. /\ call[c].pc = "forward" /\ ~ PeriodLockedByOther(c) /\ event' = Released(c)
      /\ stats' = [stats EXCEPT ![c].failed = F]
      /\ call[c].kind = "sealed" /\ stale' = stale
      /\ call' = [call EXCEPT ![c] = x] /\ UNCHANGED <<due, log>>
  BY DEF SealedRefusal, CanTry
<1>2. F \in SUBSET Miners /\ stale' \subseteq Miners
  BY <1>1 DEF PlaneInv, TypeOK
<1> HIDE DEF F
<1>3. y \in CallStates /\ y.pc = "done" /\ ~ y.fresh /\ y.swept = {}
      /\ y.rid = call[c].rid /\ y.kind = call[c].kind /\ y.answer = call[c].answer
      /\ y.pinned = call[c].pinned
  BY OverIs DEF PlaneInv
<1> HIDE DEF y
<1>4. x \in CallStates /\ x.pc = "done" /\ ~ x.fresh /\ x.swept = {}
      /\ x.rid = call[c].rid /\ x.kind = call[c].kind /\ x.answer = call[c].answer
      /\ x.failed = F /\ x.pinned = call[c].pinned
  BY <1>2, <1>3 DEF CallStates
<1> HIDE DEF x
<1>5. Active(c) /\ call[c].answer = "none" /\ call[c].pinned = {}
  BY <1>1, Waiting
<1> QED BY <1>1, <1>2, <1>4, <1>5, EndReleased

LEMMA SealedErrorKeeps ==
    ASSUME PlaneInv, NEW c \in Calls, NEW m \in Miners, NEW u \in Usages,
           NEW reported \in BOOLEAN, NEW serverError \in BOOLEAN,
           SealedError(c, m, u, reported, serverError)
    PROVE  PlaneInv'
<1> DEFINE F == IF serverError THEN {m} ELSE {}
           a == IF reported THEN "metered" ELSE "none"
           y == Over(c, "done")
           z == [y EXCEPT !.failed = F]
           w == [z EXCEPT !.server = m]
           x == [w EXCEPT !.answer = a]
           row == [failed |-> F, server |-> Nobody, tokens |-> 0]
<1>1. /\ call[c].pc = "forward" /\ ~ PeriodLockedByOther(c)
      /\ stats' = [stats EXCEPT ![c].failed = F]
      /\ call[c].kind = "sealed" /\ stale' = stale /\ due' = due
      /\ call' = [call EXCEPT ![c] = x]
  BY DEF SealedError, CanTry
<1>2. /\ reported => /\ Settleable(c) /\ event' = Settled(c, u)
                     /\ log' = [log EXCEPT ![c] = [rows |-> log[c].rows + 1, tokens |-> u]]
      /\ ~ reported => event' = Released(c) /\ log' = log
  <2>1. CASE reported
    BY <2>1 DEF SealedError, ErrorTokens
  <2>2. CASE ~ reported
    <3>1. ~ (reported \/ ErrorTokens(u, reported) > 0)
      BY <2>2 DEF ErrorTokens
    <3> QED BY <2>2, <3>1 DEF SealedError
  <2> QED BY <2>1, <2>2
<1>3. F \in SUBSET Miners /\ stale' \subseteq Miners /\ u \in Nat
      /\ a \in {"none", "metered"} /\ (a = "metered" <=> reported)
  BY <1>1, PlaneAssumption DEF PlaneInv, TypeOK
<1> HIDE DEF F, a
<1>4. y \in CallStates /\ y.pc = "done" /\ ~ y.fresh /\ y.swept = {}
      /\ y.rid = call[c].rid /\ y.kind = call[c].kind /\ y.pinned = call[c].pinned
  BY OverIs DEF PlaneInv
<1> HIDE DEF y
<1>5. z \in CallStates /\ z.pc = "done" /\ ~ z.fresh /\ z.swept = {}
      /\ z.rid = call[c].rid /\ z.kind = call[c].kind /\ z.pinned = call[c].pinned
      /\ z.failed = F
  BY <1>3, <1>4 DEF CallStates
<1> HIDE DEF z
<1>6. w \in CallStates /\ w.pc = "done" /\ ~ w.fresh /\ w.swept = {}
      /\ w.rid = call[c].rid /\ w.kind = call[c].kind /\ w.pinned = call[c].pinned
      /\ w.failed = F
  BY <1>5 DEF CallStates
<1> HIDE DEF w
<1>7. x \in CallStates /\ x.pc = "done" /\ ~ x.fresh /\ x.swept = {}
      /\ x.rid = call[c].rid /\ x.kind = call[c].kind /\ x.pinned = call[c].pinned
      /\ x.failed = F /\ x.answer = a
  BY <1>3, <1>6 DEF CallStates
<1> HIDE DEF x
<1>8. /\ Active(c) /\ call[c].answer = "none" /\ call[c].pinned = {} /\ log[c].rows = 0
      /\ stats[c] = [failed |-> {}, server |-> Nobody, tokens |-> 0]
  BY <1>1, Waiting
<1>9. CASE ~ reported
  <2>1. x.answer = "none" /\ event' = Released(c) /\ UNCHANGED <<due, log>>
        /\ x.pinned \subseteq stale' /\ stale \subseteq stale'
        /\ stats' = [stats EXCEPT ![c].failed = x.failed]
    BY <1>1, <1>2, <1>3, <1>7, <1>8, <1>9
  <2> QED BY <1>1, <1>3, <1>7, <1>8, <2>1, EndReleased
<1>10. CASE reported
  <2>1. x.answer # "none" /\ event' \in {Settled(c, u), Expire(Settled(c, u), due)}
        /\ x.pinned \subseteq stale' /\ stale \subseteq stale' /\ Settleable(c)
        /\ log' = [log EXCEPT ![c] = [rows |-> 1, tokens |-> u]]
    BY <1>1, <1>2, <1>3, <1>7, <1>8, <1>10
  <2>2. row \in [failed : SUBSET Miners, server : Miners \union {Nobody}, tokens : Nat]
        /\ row.failed = x.failed /\ row.server = Nobody
    BY <1>3, <1>7
  <2>3. stats' = [stats EXCEPT ![c] = row]
    <3>1. [stats[c] EXCEPT !.failed = F] = row
      BY <1>8
    <3> QED BY <1>1, <3>1
  <2> HIDE DEF row
  <2>4. row.server = Nobody \/ row.tokens = u
    BY <2>2
  <2> QED BY <1>1, <1>3, <1>7, <1>8, <2>1, <2>2, <2>3, <2>4, EndSettled
<1> QED BY <1>9, <1>10

-----------------------------------------------------------------------------
(* A call that goes on keeps its event and what it remembers of it.        *)
LEMMA GoesOn ==
    ASSUME PlaneInv, NEW c \in Calls, Active(c), NEW x \in CallStates,
           call' = [call EXCEPT ![c] = x],
           x.pc \in {"forward", "relay"}, x.rid = call[c].rid, x.kind = call[c].kind,
           x.mem = call[c].mem, x.fresh = call[c].fresh, x.swept = call[c].swept,
           x.fresh => x.pc = "forward",
           call[c].answer # "none" => x.answer # "none",
           UNCHANGED <<event, due, log>>,
           NEW F \in SUBSET Miners,
           stats' = stats \/ stats' = [stats EXCEPT ![c].failed = F],
           stale \subseteq stale', stale' \subseteq Miners,
           RowsOK(c)', Recorded(c)'
    PROVE  PlaneInv'
<1>1. call'[c] = x /\ \A d \in Calls \ {c} : call'[d] = call[d]
  BY DEF PlaneInv, TypeOK
<1>2. CallOK(c) /\ call[c].pc # "idle"
  BY DEF PlaneInv, Active
<1>3. stats' \in [Calls -> [failed : SUBSET Miners, server : Miners \union {Nobody},
                            tokens : Nat]]
      /\ \A d \in Calls \ {c} : stats'[d] = stats[d]
  <2> DEFINE Rows == [failed : SUBSET Miners, server : Miners \union {Nobody}, tokens : Nat]
  <2>1. stats \in [Calls -> Rows] /\ stats[c] \in Rows
    BY DEF PlaneInv, TypeOK
  <2>2. [stats[c] EXCEPT !.failed = F] \in Rows
    BY <2>1
  <2>3. stats' = stats \/ stats' = [stats EXCEPT ![c] = [stats[c] EXCEPT !.failed = F]]
    BY <2>1
  <2> HIDE DEF Rows
  <2>4. stats' \in [Calls -> Rows] /\ \A d \in Calls \ {c} : stats'[d] = stats[d]
    BY <2>1, <2>2, <2>3
  <2> QED BY <2>4 DEF Rows
<1>4. TypeOK'
  <2>1. call' \in [Calls -> CallStates]
    BY DEF PlaneInv, TypeOK
  <2> QED BY <1>3, <2>1 DEF PlaneInv, TypeOK
<1>5. Moves(c)
  <2>1. x.rid \in Ids \union {c}
    BY <1>2 DEF CallOK
  <2>2. \A r \in Rids : EventStep(c, r)
    BY DEF EventStep
  <2> QED BY <1>1, <1>3, <2>1, <2>2 DEF Moves
<1>6. Alone(c)' => Alone(c)
  BY <1>1 DEF Alone
<1>7. FreshOK(c)'
  BY <1>1, <1>2 DEF CallOK, FreshOK, Status
<1>8. MemoryOK(c)'
  BY <1>1, <1>2, <1>6 DEF CallOK, MemoryOK, Active, Status
<1>9. Charged(c)' /\ Billed(c)'
  BY <1>1 DEF Charged, Billed
<1>10. Closed(c)'
  BY <1>1, <1>2 DEF CallOK, Closed, Status
<1>11. CallOK(c)'
  BY <1>1, <1>2, <1>7, <1>8, <1>9, <1>10 DEF CallOK
<1> QED BY <1>2, <1>4, <1>5, <1>11, MoveKeeps

LEMMA AttemptFailsKeeps ==
    ASSUME PlaneInv, NEW c \in Calls, NEW m \in Miners, NEW mismatch \in BOOLEAN,
           ForwardFails(c, m, mismatch) \/ ForwardStreamFails(c, m, mismatch)
    PROVE  PlaneInv'
<1> DEFINE q == call[c]
           y == [q EXCEPT !.left = q.left \ {m}]
           z == [y EXCEPT !.failed = q.failed \union {m}]
           P == IF mismatch THEN q.pinned \union {m} ELSE q.pinned
           x == [z EXCEPT !.pinned = P]
           Rest(r) == /\ r.pc = q.pc /\ r.rid = q.rid /\ r.kind = q.kind /\ r.mem = q.mem
                      /\ r.fresh = q.fresh /\ r.swept = q.swept /\ r.answer = q.answer
                      /\ r.chunks = q.chunks /\ r.usage = q.usage
<1>1. /\ q.pc = "forward" /\ q.kind # "sealed" /\ UNCHANGED <<event, due, stats, log, stale>>
  BY DEF ForwardFails, ForwardStreamFails, AttemptFails, CanTry
<1>2. q \in CallStates /\ call \in [Calls -> CallStates]
  BY DEF PlaneInv, TypeOK
<1>3. call' = [call EXCEPT ![c] = x]
  BY <1>2 DEF ForwardFails, ForwardStreamFails, AttemptFails
<1>4. P \in SUBSET Miners
  BY <1>2 DEF CallStates
<1> HIDE DEF P
<1>5. y \in CallStates /\ Rest(y)
  BY <1>2 DEF CallStates
<1>6. q.failed \union {m} \in SUBSET Miners
  BY <1>2 DEF CallStates
<1> HIDE DEF y
<1>7. z \in CallStates /\ Rest(z)
  BY <1>5, <1>6 DEF CallStates
<1> HIDE DEF z
<1>8. x \in CallStates /\ Rest(x)
  BY <1>4, <1>7 DEF CallStates
<1> HIDE DEF x
<1>9. call'[c] = x
  BY <1>2, <1>3
<1>10. RowsOK(c)'
  BY <1>1, <1>8, <1>9, Waiting DEF RowsOK
<1>11. Recorded(c)'
  BY <1>1, <1>8, <1>9 DEF Recorded
<1>12. Active(c) /\ stale' \subseteq Miners /\ {} \in SUBSET Miners
  BY <1>1 DEF Active, PlaneInv, TypeOK
<1> QED BY <1>1, <1>3, <1>8, <1>10, <1>11, <1>12, GoesOn

LEMMA OpenStreamKeeps ==
    ASSUME PlaneInv, NEW c \in Calls, NEW m \in Miners, OpenStream(c, m)
    PROVE  PlaneInv'
<1> DEFINE q == call[c]
           y == [q EXCEPT !.pc = "relay"]
           x == [y EXCEPT !.server = m]
           Rest(r) == /\ r.pc = "relay" /\ r.rid = q.rid /\ r.kind = q.kind /\ r.mem = q.mem
                      /\ r.fresh = q.fresh /\ r.swept = q.swept /\ r.answer = q.answer
                      /\ r.chunks = q.chunks /\ r.usage = q.usage
                      /\ r.failed = q.failed /\ r.pinned = q.pinned
<1>1. /\ q.pc = "forward" /\ q.kind # "plain" /\ UNCHANGED <<event, due, log>>
      /\ stats' = [stats EXCEPT ![c].failed = q.failed]
      /\ stale' = stale \union q.pinned
  BY DEF OpenStream, CanTry, CommitAttempts
<1>2. q \in CallStates /\ call \in [Calls -> CallStates]
  BY DEF PlaneInv, TypeOK
<1>3. call' = [call EXCEPT ![c] = x]
  BY <1>2 DEF OpenStream
<1>4. y \in CallStates /\ Rest(y)
  BY <1>2 DEF CallStates
<1> HIDE DEF y
<1>5. x \in CallStates /\ Rest(x) /\ x.server = m
  BY <1>4 DEF CallStates
<1> HIDE DEF x
<1>6. call'[c] = x
  BY <1>2, <1>3
<1>7. q.failed \in SUBSET Miners /\ q.pinned \subseteq Miners
  BY <1>2 DEF CallStates
<1>8. stats'[c].failed = q.failed
  BY <1>1 DEF PlaneInv, TypeOK
<1>9. RowsOK(c)'
  BY <1>1, <1>5, <1>6, Waiting, PlaneAssumption DEF RowsOK
<1>10. Recorded(c)'
  BY <1>1, <1>5, <1>6, <1>8 DEF Recorded
<1>11. ~ q.fresh
  BY <1>1 DEF PlaneInv, CallOK, FreshOK
<1>12. Active(c) /\ stale' \subseteq Miners
  BY <1>1, <1>7 DEF Active, PlaneInv, TypeOK
<1> QED BY <1>1, <1>3, <1>5, <1>7, <1>9, <1>10, <1>11, <1>12, GoesOn

LEMMA RelayKeeps ==
    ASSUME PlaneInv, NEW c \in Calls, Chunk(c) \/ \E u \in Usages : UsageChunk(c, u)
    PROVE  PlaneInv'
<1> DEFINE q == call[c]
<1>1. /\ q.pc = "relay" /\ q \in CallStates /\ call \in [Calls -> CallStates]
      /\ Active(c) /\ stale' \subseteq Miners /\ {} \in SUBSET Miners
      /\ UNCHANGED <<event, due, stats, log, stale>>
  BY DEF Chunk, UsageChunk, PlaneInv, TypeOK, Active
<1>2. /\ q.server # Nobody /\ log[c].rows = 0 /\ ~ q.fresh
      /\ q.chunks > 0 \/ q.usage > 0 => q.answer # "none"
      /\ q.answer = "served" => q.chunks > 0
      /\ q.failed = stats[c].failed /\ q.pinned \subseteq stale
  BY <1>1 DEF PlaneInv, CallOK, RowsOK, FreshOK, Recorded
<1> SUFFICES ASSUME NEW x \in CallStates, call' = [call EXCEPT ![c] = x],
                    x.pc = "relay", x.rid = q.rid, x.kind = q.kind, x.mem = q.mem,
                    x.fresh = q.fresh, x.swept = q.swept, x.server = q.server,
                    x.failed = q.failed, x.pinned = q.pinned, x.answer # "none",
                    x.answer = "served" => x.chunks > 0
             PROVE  PlaneInv'
  <2>1. CASE Chunk(c)
    <3> DEFINE y == [q EXCEPT !.chunks = q.chunks + 1]
               x == [y EXCEPT !.answer = "served"]
               Rest(r) == /\ r.pc = "relay" /\ r.rid = q.rid /\ r.kind = q.kind
                          /\ r.mem = q.mem /\ r.fresh = q.fresh /\ r.swept = q.swept
                          /\ r.server = q.server /\ r.failed = q.failed
                          /\ r.pinned = q.pinned
    <3>1. q.chunks \in Nat /\ q.chunks + 1 \in 0 .. MaxChunks /\ q.chunks + 1 > 0
      BY <1>1, <2>1, PlaneAssumption DEF Chunk, CallStates
    <3>2. call' = [call EXCEPT ![c] = x]
      BY <1>1, <2>1 DEF Chunk
    <3>3. y \in CallStates /\ Rest(y) /\ y.chunks > 0
      BY <1>1, <3>1 DEF CallStates
    <3> HIDE DEF y
    <3>4. x \in CallStates /\ Rest(x) /\ x.chunks > 0 /\ x.answer = "served"
      BY <3>3 DEF CallStates
    <3> HIDE DEF x
    <3> QED BY <3>2, <3>4
  <2>2. ASSUME NEW u \in Usages, UsageChunk(c, u)
        PROVE  PlaneInv'
    <3> DEFINE a == IF q.answer = "none" THEN "metered" ELSE q.answer
               y == [q EXCEPT !.usage = u]
               x == [y EXCEPT !.answer = a]
               Rest(r) == /\ r.pc = "relay" /\ r.rid = q.rid /\ r.kind = q.kind
                          /\ r.mem = q.mem /\ r.fresh = q.fresh /\ r.swept = q.swept
                          /\ r.server = q.server /\ r.failed = q.failed
                          /\ r.pinned = q.pinned /\ r.chunks = q.chunks
    <3>1. a \in {"served", "metered"} /\ (a = "served" => q.answer = "served")
      BY <1>1 DEF CallStates
    <3>2. call' = [call EXCEPT ![c] = x]
      BY <1>1, <2>2 DEF UsageChunk
    <3> HIDE DEF a
    <3>3. y \in CallStates /\ Rest(y)
      BY <1>1 DEF CallStates
    <3> HIDE DEF y
    <3>4. x \in CallStates /\ Rest(x) /\ x.answer = a
      BY <3>1, <3>3 DEF CallStates
    <3> HIDE DEF x
    <3>5. x.answer = "served" => x.chunks > 0
      BY <1>2, <3>1, <3>4
    <3> QED BY <3>1, <3>2, <3>4, <3>5
  <2> QED BY <2>1, <2>2
<1>3. call'[c] = x
  BY <1>1
<1>4. RowsOK(c)'
  BY <1>1, <1>2, <1>3 DEF RowsOK
<1>5. Recorded(c)'
  BY <1>1, <1>2, <1>3 DEF Recorded
<1> QED BY <1>1, <1>2, <1>4, <1>5, GoesOn

LEMMA UsageNat ==
    ASSUME NEW u \in Usages \union {0}
    PROVE  u \in Nat
  BY PlaneAssumption

(* StreamTokens bills something exactly if something was relayed.          *)
LEMMA TokensBilled ==
    ASSUME NEW u \in Usages \union {0}, NEW k \in 0 .. MaxChunks
    PROVE  LET t == IF u > 0 THEN u
                    ELSE IF k > 0 THEN Words + Lesser(k, MaxTokens) ELSE 0
           IN  t \in Nat /\ (u > 0 => t = u) /\ (k > 0 => t > 0) /\ (t > 0 => k > 0 \/ u > 0)
<1>1. u \in Nat
  BY UsageNat
<1>2. k \in Nat /\ Words \in Nat /\ Words > 0 /\ MaxTokens \in Nat
  BY PlaneAssumption
<1> QED BY <1>1, <1>2 DEF Lesser

(* The finally block of a stream.                                          *)
LEMMA CloseStreamKeeps ==
    ASSUME PlaneInv, NEW c \in Calls, NEW unpaid \in BOOLEAN, CloseStream(c, unpaid)
    PROVE  PlaneInv'
<1> DEFINE q == call[c]
           r == q.rid
           n == StreamTokens(c)
           y == Over(c, "done")
           x == [y EXCEPT !.unpaid = unpaid]
           open == event[r].status = "reserved"
           raises == open /\ n > 0 /\ (unpaid \/ r \in due)
           settles == open /\ n > 0 /\ ~ raises
           row == [status |-> "settled", charged |-> n]
<1>1. /\ q.pc = "relay" /\ q \in CallStates /\ r \in Rids /\ Active(c)
      /\ event \in [Rids -> EventRows]
  BY DEF CloseStream, PlaneInv, TypeOK, EventRows, Active, CallStates
<1>2. /\ q.server # Nobody /\ log[c].rows = 0 /\ ~ q.fresh /\ event[r].status # "none"
      /\ q.chunks > 0 \/ q.usage > 0 => q.answer # "none"
      /\ q.answer = "served" => q.chunks > 0
      /\ q.failed = stats[c].failed /\ q.pinned \subseteq stale
      /\ Alone(c) => open \/ (event[r].status = "expired" /\ r \in due)
  BY <1>1 DEF PlaneInv, CallOK, RowsOK, FreshOK, MemoryOK, Recorded, Status
<1>3. /\ unpaid => open /\ n > 0 /\ r \notin due
      /\ open /\ ~ raises => ~ PeriodLockedByOther(c)
      /\ UNCHANGED <<due, stale>>
      /\ call' = [call EXCEPT ![c] = x]
  BY DEF CloseStream
<1> DEFINE closed == CASE settles -> [event EXCEPT ![r] = row]
                       [] open /\ n = 0 -> IF r \in due THEN Expire(event, due)
                                          ELSE [event EXCEPT ![r].status = "released"]
                       [] OTHER -> event
<1>14. event' = closed
  BY DEF CloseStream
<1>4. /\ settles => event' = [event EXCEPT ![r] = row]
      /\ open /\ n = 0 => event' = IF r \in due THEN Expire(event, due)
                                 ELSE [event EXCEPT ![r].status = "released"]
      /\ ~ open \/ raises => event' = event
      /\ settles =>
            /\ stats' = [stats EXCEPT ![c].server = q.server, ![c].tokens = q.usage]
            /\ log' = [log EXCEPT ![c] = [rows |-> log[c].rows + 1, tokens |-> n]]
      /\ ~ settles => UNCHANGED <<stats, log>>
  <2>1. /\ stats' = IF settles THEN [stats EXCEPT ![c].server = q.server, ![c].tokens = q.usage]
                   ELSE stats
        /\ log' = IF settles THEN [log EXCEPT ![c] = [rows |-> @.rows + 1, tokens |-> n]]
                 ELSE log
    BY DEF CloseStream
  <2>2. settles => open /\ n # 0 /\ ~ raises
    OBVIOUS
  <2>3. open /\ n = 0 => ~ settles
    OBVIOUS
  <2>4. ~ open \/ raises => ~ settles /\ ~ (open /\ n = 0)
    OBVIOUS
  <2> HIDE DEF settles, raises, open
  <2> QED BY ONLY <1>14, <2>1, <2>2, <2>3, <2>4
<1>5. /\ n \in Nat /\ (q.usage > 0 => n = q.usage) /\ (q.chunks > 0 => n > 0)
      /\ (n > 0 => q.chunks > 0 \/ q.usage > 0)
  <2>1. q.usage \in Usages \union {0} /\ q.chunks \in 0 .. MaxChunks
    BY <1>1 DEF CallStates
  <2> DEFINE u == q.usage
             k == q.chunks
             t == IF u > 0 THEN u ELSE IF k > 0 THEN Words + Lesser(k, MaxTokens) ELSE 0
  <2>2. n = t
    BY DEF StreamTokens
  <2> HIDE DEF u, k
  <2>3. t \in Nat /\ (u > 0 => t = u) /\ (k > 0 => t > 0) /\ (t > 0 => k > 0 \/ u > 0)
    BY <2>1, TokensBilled DEF u, k
  <2> HIDE DEF n, t
  <2> QED BY <2>2, <2>3 DEF u, k
<1> HIDE DEF n
<1>6. y \in CallStates /\ y.pc = "done" /\ ~ y.fresh /\ y.swept = {} /\ y.rid = r
      /\ y.kind = q.kind /\ y.failed = q.failed /\ y.pinned = q.pinned
      /\ y.server = q.server /\ y.answer = q.answer /\ y.chunks = q.chunks
      /\ y.usage = q.usage
  BY OverIs DEF PlaneInv
<1> HIDE DEF y
<1>7. x \in CallStates /\ x.pc = "done" /\ ~ x.fresh /\ x.swept = {} /\ x.rid = r
      /\ x.kind = q.kind /\ x.failed = q.failed /\ x.pinned = q.pinned
      /\ x.server = q.server /\ x.answer = q.answer /\ x.chunks = q.chunks
      /\ x.usage = q.usage /\ x.unpaid = unpaid
  BY <1>6 DEF CallStates
<1> HIDE DEF x
<1>8. call'[c] = x /\ \A d \in Calls \ {c} : call'[d] = call[d]
  BY <1>3 DEF PlaneInv, TypeOK
<1>9. Alone(c)' => Alone(c)
  BY <1>7, <1>8 DEF Alone
<1>10. CASE settles
  <2>1. row \in EventRows /\ row.status = "settled" /\ row.charged = n
    BY <1>5 DEF EventRows, Statuses
  <2> HIDE DEF row
  <2>2. Closes(c, event') /\ event'[r] = row
    BY <1>1, <1>4, <1>10, <2>1 DEF Closes
  <2>3. /\ stats' \in [Calls -> [failed : SUBSET Miners, server : Miners \union {Nobody},
                                 tokens : Nat]]
        /\ stats'[c].failed = q.failed /\ stats'[c].tokens = q.usage
        /\ \A d \in Calls \ {c} : stats'[d] = stats[d]
    <3>1. q.server \in Miners \union {Nobody} /\ q.usage \in Usages \union {0}
      BY <1>1 DEF CallStates
    <3>2. q.usage \in Nat
      BY <3>1, UsageNat
    <3> QED BY <3>1, <3>2, <1>2, <1>4, <1>10, <3>1 DEF PlaneInv, TypeOK
  <2>4. /\ log' \in [Calls -> [rows : Nat, tokens : Nat]]
        /\ log'[c] = [rows |-> 1, tokens |-> n]
        /\ \A d \in Calls \ {c} : log'[d] = log[d]
    <3>1. log' = [log EXCEPT ![c] = [rows |-> 1, tokens |-> n]]
      <4>1. log' = [log EXCEPT ![c] = [rows |-> log[c].rows + 1, tokens |-> n]]
        BY <1>4, <1>10
      <4> QED BY <1>2, <4>1
    <3> QED BY <1>5, <3>1 DEF PlaneInv, TypeOK
  <2>5. TypeOK'
    <3>1. event' \in [Rids -> [status : Statuses, charged : Nat]]
      BY <2>2 DEF Closes, EventRows
    <3>2. call' \in [Calls -> CallStates]
      BY <1>3, <1>7 DEF PlaneInv, TypeOK
    <3> QED BY <1>3, <2>3, <2>4, <3>1, <3>2 DEF PlaneInv, TypeOK
  <2>6. q.answer # "none"
    BY <1>2, <1>5, <1>10
  <2>7. \A s \in Rids : EventStep(c, s)
    <3>1. ~ PeriodLockedByOther(c)
      BY <1>3, <1>10
    <3>2. call'[c].rid = r /\ call'[c].answer # "none"
      BY <1>7, <1>8, <2>6
    <3> QED BY <2>1, <2>2, <3>1, <3>2, ClosesStep
  <2>8. Charged(c)'
    BY <1>7, <1>8, <2>1, <2>2 DEF Charged, Status
  <2>9. Billed(c)'
    <3>1. /\ event'[call'[c].rid].charged = n
          /\ (call'[c].chunks > 0 => call'[c].usage > 0) => stats'[c].tokens = n
      <4>1. q.usage > 0 => stats'[c].tokens = n
        BY <1>5, <2>3
      <4>2. q.chunks > 0 \/ q.usage > 0
        BY <1>5, <1>10
      <4> QED BY <1>7, <1>8, <2>1, <2>2, <4>1, <4>2
    <3> QED BY <2>4, <3>1 DEF Billed
  <2> QED BY <1>1, <1>2, <1>3, <1>7, <2>1, <2>2, <2>3, <2>4, <2>5, <2>6, <2>7, <2>8, <2>9, EndKeeps
<1>11. CASE ~ settles
  <2>1. UNCHANGED <<stats, log, due, stale>>
    BY <1>3, <1>4, <1>11
  <2>2. /\ Closes(c, event') /\ event'[r].status # "none"
        /\ event'[r].status = "settled" => event[r].status = "settled"
        /\ \/ r \in due
           \/ unpaid
           \/ event'[r].status # "reserved"
        /\ (open /\ n = 0) \/ event' = event
    <3>1. CASE ~ open \/ raises
      BY <1>1, <1>2, <1>4, <3>1 DEF Closes
    <3>2. CASE open /\ n = 0 /\ r \in due
      <4>1. event' = Expire(event, due)
        BY <1>4, <3>2
      <4>2. /\ Expire(event, due) \in [Rids -> EventRows]
            /\ \A s \in Rids :
                  IF s \in due /\ event[s].status = "reserved"
                  THEN Expire(event, due)[s].status = "expired"
                  ELSE Expire(event, due)[s] = event[s]
        BY <1>1, ExpireIs
      <4> QED BY <1>1, <3>2, <4>1, <4>2 DEF Closes
    <3>3. CASE open /\ n = 0 /\ r \notin due
      <4>1. [event[r] EXCEPT !.status = "released"] \in EventRows
            /\ [event[r] EXCEPT !.status = "released"].status = "released"
        BY <1>1 DEF EventRows, Statuses
      <4>2. event' = [event EXCEPT ![r] = [event[r] EXCEPT !.status = "released"]]
        BY <1>4, <3>3
      <4> QED BY <1>1, <3>3, <4>1, <4>2 DEF Closes
    <3>4. n = 0 \/ n > 0
      BY <1>5
    <3> QED BY <1>11, <3>1, <3>2, <3>3, <3>4
  <2>3. TypeOK'
    <3>1. event' \in [Rids -> [status : Statuses, charged : Nat]]
      BY <2>2 DEF Closes, EventRows
    <3>2. call' \in [Calls -> CallStates]
      BY <1>3, <1>7 DEF PlaneInv, TypeOK
    <3> QED BY <2>1, <3>1, <3>2 DEF PlaneInv, TypeOK
  <2>4. \A s \in Rids : EventStep(c, s)
    <3>1. CASE event' = event
      BY <3>1 DEF EventStep
    <3>2. CASE open /\ n = 0
      <4>1. ~ PeriodLockedByOther(c)
        BY <1>3, <1>11, <3>2
      <4>2. call'[c].rid = r
        BY <1>7, <1>8
      <4> QED BY <2>2, <4>1, <4>2, ClosesStep
    <3> QED BY <2>2, <3>1, <3>2
  <2>5. Charged(c)'
    <3>1. q.answer = "served" /\ Alone(c) /\ r \notin due => unpaid
      BY <1>2, <1>5, <1>11
    <3> QED BY <1>7, <1>8, <1>9, <2>1, <3>1 DEF Charged
  <2>6. Billed(c)'
    <3>1. Alone(c) => event'[r].status # "settled"
      BY <1>2, <2>2
    <3> QED BY <1>7, <1>8, <1>9, <3>1 DEF Billed, Status
  <2>7. /\ x.failed = stats'[c].failed /\ x.pinned \subseteq stale' /\ stale \subseteq stale'
        /\ \A d \in Calls \ {c} : stats'[d] = stats[d] /\ log'[d] = log[d]
        /\ event'[x.rid].status # "none"
        /\ \/ x.rid \in due
           \/ x.unpaid /\ x.server # Nobody
           \/ event'[x.rid].status # "reserved"
    BY <1>2, <1>7, <2>1, <2>2
  <2> QED BY <1>1, <1>3, <1>7, <2>3, <2>4, <2>5, <2>6, <2>7, EndKeeps
<1> QED BY <1>10, <1>11

-----------------------------------------------------------------------------
(* Calls that begin.                                                       *)
LEMMA Fresh ==
    ASSUME PlaneInv, NEW c \in Calls, call[c].pc = "idle"
    PROVE  /\ call[c] = Idle(c) /\ c \in Rids /\ event[c].status = "none"
           /\ log[c].rows = 0 /\ stats[c] = [failed |-> {}, server |-> Nobody, tokens |-> 0]
           /\ ~ KeyLocked => \A d \in Calls : ~ call[d].fresh
<1>1. /\ call[c] = Idle(c) /\ log[c].rows = 0
      /\ stats[c] = [failed |-> {}, server |-> Nobody, tokens |-> 0]
  BY DEF PlaneInv, CallOK, RowsOK
<1>2. c \in Rids
  BY DEF Rids
<1>3. event[c].status = "none"
  <2> SUFFICES ASSUME event[c].status # "none"
               PROVE  FALSE
    OBVIOUS
  <2>1. PICK d \in Calls : call[d].pc # "idle" /\ call[d].rid = c
    BY <1>2 DEF PlaneInv, Owned
  <2>2. call[d].rid \in Ids \union {d}
    BY DEF PlaneInv, CallOK
  <2> QED BY <2>1, <2>2, PlaneAssumption
<1>4. \A d \in Calls : call[d].fresh => call[d].kind = "plain" /\ call[d].pc = "forward"
  BY DEF PlaneInv, CallOK, FreshOK
<1> QED BY <1>1, <1>2, <1>3, <1>4 DEF KeyLocked

(* A call that ends where it began. *)
LEMMA RefuseKeeps ==
    ASSUME PlaneInv, NEW c \in Calls, Refuse(c) \/ ListModels(c)
    PROVE  PlaneInv'
<1> DEFINE x == Over(c, "done")
<1>1. /\ call[c].pc = "idle" /\ UNCHANGED <<event, due, stats, stale>>
      /\ call' = [call EXCEPT ![c] = x]
      /\ log' = log \/ log' = [log EXCEPT ![c].rows = log[c].rows + 1]
  BY DEF Refuse, ListModels, End, PlaneInv, TypeOK
<1>2. /\ call[c] = Idle(c) /\ event[c].status = "none"
      /\ stats[c] = [failed |-> {}, server |-> Nobody, tokens |-> 0]
  BY <1>1, Fresh
<1>3. x \in CallStates /\ x.pc = "done" /\ ~ x.fresh /\ x.swept = {} /\ x.rid = c
      /\ x.kind = "plain" /\ x.answer = "none" /\ x.failed = {} /\ x.pinned = {}
  BY <1>2, OverIs DEF PlaneInv, Idle
<1> HIDE DEF x
<1>4. call'[c] = x /\ \A d \in Calls \ {c} : call'[d] = call[d] /\ log'[d] = log[d]
  BY <1>1 DEF PlaneInv, TypeOK
<1>5. TypeOK'
  <2>1. call' \in [Calls -> CallStates]
    BY <1>1, <1>3 DEF PlaneInv, TypeOK
  <2>2. log' \in [Calls -> [rows : Nat, tokens : Nat]]
    BY <1>1 DEF PlaneInv, TypeOK
  <2> QED BY <1>1, <2>1, <2>2 DEF PlaneInv, TypeOK
<1>6. Moves(c)
  <2>1. \A r \in Rids : EventStep(c, r)
    BY <1>1 DEF EventStep
  <2>2. call[c].answer = "none"
    BY <1>2 DEF Idle
  <2> QED BY <1>1, <1>3, <1>4, <2>1, <2>2 DEF Moves
<1>7. FreshOK(c)' /\ MemoryOK(c)' /\ RowsOK(c)' /\ Recorded(c)' /\ Closed(c)'
      /\ Charged(c)' /\ Billed(c)'
  BY <1>1, <1>2, <1>3, <1>4 DEF FreshOK, MemoryOK, RowsOK, Recorded, Closed, Charged, Billed,
     Active, Status
<1>8. CallOK(c)'
  BY <1>3, <1>4, <1>7 DEF CallOK
<1> QED BY <1>3, <1>4, <1>5, <1>6, <1>8, MoveKeeps

LEMMA EchoKeeps ==
    ASSUME PlaneInv, NEW c \in Calls, NEW id \in Ids \union {c}, EchoFallback(c, id)
    PROVE  PlaneInv'
<1> DEFINE swept == Expire(event, due)
           q == call[c]
           y == [q EXCEPT !.pc = "done"]
           z == [y EXCEPT !.kind = "plain"]
           x == [z EXCEPT !.rid = id]
           Rest(r) == /\ r.pc = "done" /\ ~ r.fresh /\ r.swept = {} /\ r.answer = "none"
                      /\ r.failed = {} /\ r.pinned = {}
<1>1. /\ q.pc = "idle" /\ ~ KeyLocked /\ UNCHANGED <<due, stats, stale>>
      /\ event' = IF swept[id].status \in {"none", "reserved"}
                  THEN [swept EXCEPT ![id].status = "released"] ELSE swept
      /\ log' = [log EXCEPT ![c].rows = log[c].rows + 1]
  BY DEF EchoFallback, PlaneInv, TypeOK
<1>2. /\ q = Idle(c) /\ stats[c] = [failed |-> {}, server |-> Nobody, tokens |-> 0]
      /\ \A d \in Calls : ~ call[d].fresh
      /\ q \in CallStates /\ call \in [Calls -> CallStates] /\ id \in Rids
      /\ event \in [Rids -> EventRows]
  BY <1>1, Fresh DEF PlaneInv, TypeOK, Rids, EventRows
<1>3. call' = [call EXCEPT ![c] = x]
  BY <1>2 DEF EchoFallback
<1>4. /\ swept \in [Rids -> EventRows]
      /\ \A r \in Rids : IF r \in due /\ event[r].status = "reserved"
                        THEN swept[r].status = "expired" ELSE swept[r] = event[r]
  BY <1>2, ExpireIs
<1> HIDE DEF swept
<1>5. /\ event' \in [Rids -> EventRows]
      /\ \A r \in Rids \ {id} : event'[r] = swept[r]
      /\ event'[id].status \notin {"none", "reserved"}
      /\ event'[id].status = "settled" => swept[id].status = "settled"
  <2> DEFINE e == [swept EXCEPT ![id] = [swept[id] EXCEPT !.status = "released"]]
  <2>1. [swept[id] EXCEPT !.status = "released"] \in EventRows
        /\ [swept[id] EXCEPT !.status = "released"].status = "released"
    BY <1>2, <1>4 DEF EventRows, Statuses
  <2>2. e \in [Rids -> EventRows] /\ e[id].status = "released"
        /\ \A r \in Rids \ {id} : e[r] = swept[r]
    BY <1>2, <1>4, <2>1
  <2>3. e = [swept EXCEPT ![id].status = "released"]
    OBVIOUS
  <2> HIDE DEF e
  <2> QED BY <1>1, <1>4, <2>2, <2>3
<1>6. y \in CallStates /\ Rest(y)
  <2>1. ~ q.fresh /\ q.swept = {} /\ q.answer = "none" /\ q.failed = {} /\ q.pinned = {}
    BY <1>2 DEF Idle
  <2> QED BY <1>2, <2>1 DEF CallStates
<1> HIDE DEF y
<1>7. z \in CallStates /\ Rest(z) /\ z.kind = "plain"
  BY <1>6 DEF CallStates
<1> HIDE DEF z
<1>8. x \in CallStates /\ Rest(x) /\ x.kind = "plain" /\ x.rid = id
  BY <1>2, <1>7 DEF CallStates
<1> HIDE DEF x
<1>9. call'[c] = x /\ \A d \in Calls \ {c} : call'[d] = call[d] /\ log'[d] = log[d]
  BY <1>1, <1>2, <1>3 DEF PlaneInv, TypeOK
<1>10. TypeOK'
  <2>1. call' \in [Calls -> CallStates]
    BY <1>2, <1>3, <1>8
  <2>2. log' \in [Calls -> [rows : Nat, tokens : Nat]]
    BY <1>1 DEF PlaneInv, TypeOK
  <2> QED BY <1>1, <1>5, <2>1, <2>2 DEF PlaneInv, TypeOK, EventRows
<1>11. Moves(c)
  <2>1. \A r \in Rids : EventStep(c, r)
    <3> TAKE r \in Rids
    <3>1. CASE r # id
      BY <1>4, <1>5, <3>1 DEF EventStep
    <3>2. CASE r = id
      <4>1. event'[r].status = "settled" => event[r].status = "settled"
        BY <1>4, <1>5, <3>2
      <4> QED BY <1>2, <1>5, <1>8, <1>9, <3>2, <4>1 DEF EventStep
    <3> QED BY <3>1, <3>2
  <2>2. q.answer = "none"
    BY <1>2 DEF Idle
  <2> QED BY <1>1, <1>8, <1>9, <2>1, <2>2 DEF Moves
<1>12. FreshOK(c)' /\ MemoryOK(c)' /\ RowsOK(c)' /\ Recorded(c)' /\ Closed(c)'
       /\ Charged(c)' /\ Billed(c)'
  BY <1>1, <1>2, <1>5, <1>8, <1>9 DEF FreshOK, MemoryOK, RowsOK, Recorded, Closed, Charged,
     Billed, Active, Status
<1>13. CallOK(c)'
  BY <1>8, <1>9, <1>12 DEF CallOK
<1> QED BY <1>8, <1>9, <1>10, <1>11, <1>13, MoveKeeps

(* A reservation.                                                          *)
LEMMA ReserveKeeps ==
    ASSUME PlaneInv, NEW c \in Calls, NEW kind \in {"plain", "stream", "sealed"},
           NEW id \in Ids \union {c}, NEW M \in SUBSET Miners, Reserve(c, kind, id, M)
    PROVE  PlaneInv'
<1> DEFINE q == call[c]
           r == BillingRid(c, kind, id)
           swept == Expire(event, due)
           fresh == swept[r].status = "none"
           mem == IF fresh THEN "reserved" ELSE swept[r].status
           F == fresh /\ kind = "plain"
           S == IF kind = "plain" THEN {s \in due : event[s].status = "reserved"} ELSE {}
           x == [q EXCEPT !.pc = "forward", !.kind = kind, !.rid = r, !.mem = mem,
                          !.left = M, !.fresh = F, !.swept = S]
           new == [status |-> "reserved", charged |-> 0]
<1>1. q.pc = "idle" /\ ~ KeyLocked /\ UNCHANGED <<due, stats, log, stale>>
  BY DEF Reserve
<1>2. event' = IF kind = "plain" THEN event
               ELSE IF fresh THEN [swept EXCEPT ![r] = new] ELSE swept
  BY DEF Reserve
<1>3. call' = [call EXCEPT ![c] = x]
  <2>1. call \in [Calls -> CallStates]
    BY DEF PlaneInv, TypeOK
  <2>2. call' = [call EXCEPT ![c].pc = "forward", ![c].kind = kind, ![c].rid = r,
                             ![c].mem = mem, ![c].left = M, ![c].fresh = F, ![c].swept = S]
    BY DEF Reserve
  <2> HIDE DEF mem, F, S, r
  <2> QED BY ONLY <2>1, <2>2
<1>4. /\ q = Idle(c) /\ stats[c] = [failed |-> {}, server |-> Nobody, tokens |-> 0]
      /\ log[c].rows = 0 /\ event[c].status = "none" /\ c \in Rids
      /\ \A d \in Calls : ~ call[d].fresh
  BY <1>1, Fresh
<1>5. /\ q \in CallStates /\ call \in [Calls -> CallStates] /\ due \subseteq Rids
      /\ event \in [Rids -> EventRows]
  BY DEF PlaneInv, TypeOK, EventRows
<1>6. /\ r \in Ids \union {c} /\ r \in Rids
      /\ kind = "sealed" => event[r].status = "none"
  BY <1>4 DEF BillingRid, Rids
<1> HIDE DEF r
<1>7. /\ swept \in [Rids -> EventRows]
      /\ \A s \in Rids : IF s \in due /\ event[s].status = "reserved"
                        THEN swept[s].status = "expired" ELSE swept[s] = event[s]
  BY <1>5, ExpireIs
<1> HIDE DEF swept
<1>8. /\ fresh <=> event[r].status = "none"
      /\ fresh => mem = "reserved"
      /\ ~ fresh => mem = swept[r].status /\ mem # "none"
                   /\ (mem # "reserved" => event[r].status # "reserved" \/ r \in due)
      /\ mem \in Statuses
  BY <1>6, <1>7 DEF EventRows, Statuses
<1> HIDE DEF mem
<1>9. F \in BOOLEAN /\ S \in SUBSET Rids /\ S \subseteq due
  BY <1>5
<1>10. F <=> event[r].status = "none" /\ kind = "plain"
  BY <1>8
<1> HIDE DEF F, S
<1>11. /\ x \in CallStates
       /\ x.pc = "forward" /\ x.kind = kind /\ x.rid = r /\ x.mem = mem
       /\ x.fresh = F /\ x.swept = S
       /\ x.answer = q.answer /\ x.chunks = q.chunks /\ x.usage = q.usage
       /\ x.pinned = q.pinned
  <2> HIDE DEF q, fresh
  <2>0. q \in CallStates /\ r \in Rids /\ mem \in Statuses /\ F \in BOOLEAN /\ S \in SUBSET Rids
    BY <1>5, <1>6, <1>8, <1>9
  <2> DEFINE x1 == [q EXCEPT !.pc = "forward"]
             x2 == [x1 EXCEPT !.kind = kind]
             x3 == [x2 EXCEPT !.rid = r]
             x4 == [x3 EXCEPT !.mem = mem]
             x5 == [x4 EXCEPT !.left = M]
             x6 == [x5 EXCEPT !.fresh = F]
             x7 == [x6 EXCEPT !.swept = S]
             Rest(z) == /\ z \in CallStates /\ z.pc = "forward" /\ z.answer = q.answer
                        /\ z.chunks = q.chunks /\ z.usage = q.usage /\ z.pinned = q.pinned
  <2>1. Rest(x1)
    BY <2>0 DEF CallStates
  <2> HIDE DEF x1
  <2>2. Rest(x2) /\ x2.kind = kind
    BY <2>0, <2>1 DEF CallStates
  <2> HIDE DEF x2
  <2>3. Rest(x3) /\ x3.kind = kind /\ x3.rid = r
    BY <2>0, <2>2 DEF CallStates
  <2> HIDE DEF x3
  <2>4. Rest(x4) /\ x4.kind = kind /\ x4.rid = r /\ x4.mem = mem
    BY <2>0, <2>3 DEF CallStates
  <2> HIDE DEF x4
  <2>5. Rest(x5) /\ x5.kind = kind /\ x5.rid = r /\ x5.mem = mem
    BY <2>0, <2>4 DEF CallStates
  <2> HIDE DEF x5
  <2>6. Rest(x6) /\ x6.kind = kind /\ x6.rid = r /\ x6.mem = mem /\ x6.fresh = F
    BY <2>0, <2>5 DEF CallStates
  <2> HIDE DEF x6
  <2>7. Rest(x7) /\ x7.kind = kind /\ x7.rid = r /\ x7.mem = mem /\ x7.fresh = F
        /\ x7.swept = S
    BY <2>0, <2>6 DEF CallStates
  <2>8. x7 = x
    BY DEF x7, x6, x5, x4, x3, x2, x1
  <2> QED BY <2>7, <2>8
<1>12. q.answer = "none" /\ q.chunks = 0 /\ q.usage = 0 /\ q.pinned = {}
  BY <1>4 DEF Idle
<1> HIDE DEF x
<1>13. call'[c] = x /\ \A d \in Calls \ {c} : call'[d] = call[d]
  BY <1>3, <1>5
<1>14. /\ event' \in [Rids -> EventRows]
       /\ \A s \in Rids \ {r} : event'[s] = event[s] \/ event'[s] = swept[s]
       /\ kind = "plain" => event'[r] = event[r]
       /\ kind # "plain" => IF fresh THEN event'[r].status = "reserved"
                            ELSE event'[r] = swept[r]
  <2>1. new \in EventRows /\ new.status = "reserved"
    BY DEF EventRows, Statuses
  <2> DEFINE e == [swept EXCEPT ![r] = new]
  <2>2. e \in [Rids -> EventRows] /\ e[r].status = "reserved"
        /\ \A s \in Rids \ {r} : e[s] = swept[s]
    BY <1>6, <1>7, <2>1
  <2>3. \/ event' = event /\ kind = "plain"
        \/ event' = e /\ fresh /\ kind # "plain"
        \/ event' = swept /\ ~ fresh /\ kind # "plain"
    BY <1>2
  <2> HIDE DEF e, fresh
  <2> QED BY <1>5, <1>7, <2>2, <2>3
<1>15. TypeOK'
  <2>1. call' \in [Calls -> CallStates]
    BY <1>3, <1>5, <1>11
  <2> QED BY <1>1, <1>14, <2>1 DEF PlaneInv, TypeOK, EventRows
<1>16. Moves(c)
  <2>1. \A s \in Rids : EventStep(c, s)
    <3> TAKE s \in Rids
    <3>1. CASE s # r
      BY <1>7, <1>14, <3>1 DEF EventStep
    <3>2. CASE s = r /\ fresh
      BY <1>4, <1>8, <1>11, <1>13, <1>14, <3>2 DEF EventStep
    <3>3. CASE s = r /\ ~ fresh
      <4>1. event'[r] = event[r] \/ event'[r] = swept[r]
        BY <1>14, <3>3
      <4> QED BY <1>6, <1>7, <3>3, <4>1 DEF EventStep
    <3> QED BY <3>1, <3>2, <3>3
  <2> QED BY <1>1, <1>6, <1>11, <1>12, <1>13, <2>1 DEF Moves
<1>17. /\ kind = "plain" => event'[r] = event[r]
       /\ kind # "plain" => event'[r].status = mem
       /\ F => event[r].status = "none" /\ kind = "plain" /\ mem = "reserved"
       /\ ~ F => event'[r].status # "none"
  <2>1. kind # "plain" => event'[r].status = mem
    BY <1>8, <1>14
  <2>2. ~ F => event'[r].status # "none"
    BY <1>6, <1>8, <1>10, <1>14, <2>1
  <2> HIDE DEF fresh
  <2> QED BY <1>8, <1>10, <1>14, <2>1, <2>2 DEF fresh
<1>18. FreshOK(c)'
  BY <1>1, <1>9, <1>11, <1>13, <1>17 DEF FreshOK, Status
<1>19. MemoryOK(c)'
  <2>1. mem # "none"
    BY <1>8
  <2>2. mem # "reserved" => event'[r].status # "reserved" \/ r \in due
    BY <1>8, <1>17
  <2>3. Alone(c)' => event[r].status = "none"
    <3> SUFFICES ASSUME Alone(c)', event[r].status # "none"
                 PROVE  FALSE
      OBVIOUS
    <3>1. PICK d \in Calls : call[d].pc # "idle" /\ call[d].rid = r
      BY <1>6 DEF PlaneInv, Owned
    <3> QED BY <1>1, <1>11, <1>13, <3>1 DEF Alone
  <2>4. Alone(c)' => mem = "reserved" /\ (F \/ event'[r].status = "reserved")
    BY <1>8, <1>10, <1>17, <2>3
  <2> QED BY <1>1, <1>11, <1>13, <1>17, <2>1, <2>2, <2>4 DEF MemoryOK, Active, Status
<1>20. RowsOK(c)'
  BY <1>1, <1>4, <1>11, <1>12, <1>13 DEF RowsOK
<1>21. Charged(c)' /\ Billed(c)' /\ Recorded(c)'
  BY <1>11, <1>13 DEF Charged, Billed, Recorded
<1>22. Closed(c)'
  <2>1. kind = "sealed" => event'[r].status # "none"
    BY <1>10, <1>17
  <2> QED BY <1>11, <1>13, <2>1 DEF Closed, Status
<1>23. CallOK(c)'
  BY <1>6, <1>11, <1>13, <1>18, <1>19, <1>20, <1>21, <1>22 DEF CallOK
<1>24. kind = "sealed" =>
          \A d \in Calls \ {c} :
             call[d].kind = "sealed" /\ call[d].pc # "idle" => call[d].rid # r
  <2> SUFFICES ASSUME kind = "sealed", NEW d \in Calls \ {c},
                      call[d].kind = "sealed", call[d].pc # "idle", call[d].rid = r
               PROVE  FALSE
    OBVIOUS
  <2>1. event[r].status = "none"
    BY <1>6
  <2>2. r \in Ids \union {d} /\ (event[r].status # "none" \/ r = d)
    BY DEF PlaneInv, CallOK, Closed, Status
  <2> QED BY <1>6, <2>1, <2>2, PlaneAssumption
<1> QED BY <1>11, <1>13, <1>15, <1>16, <1>23, <1>24, MoveKeeps

-----------------------------------------------------------------------------
(* Steps that are nobody's call, and the server's death.                   *)
LEMMA CrashKeeps ==
    ASSUME PlaneInv, NEW c \in Calls, Crash(c)
    PROVE  PlaneInv'
<1> DEFINE x == Over(c, "crashed")
<1>1. Active(c) /\ call' = [call EXCEPT ![c] = x] /\ UNCHANGED <<event, due, stats, log, stale>>
  BY DEF Crash, End, Active
<1>2. x \in CallStates /\ x.pc = "crashed" /\ ~ x.fresh /\ x.swept = {}
      /\ x.rid = call[c].rid /\ x.kind = call[c].kind /\ x.answer = call[c].answer
  BY OverIs DEF PlaneInv
<1> HIDE DEF x
<1>3. call'[c] = x /\ \A d \in Calls \ {c} : call'[d] = call[d]
  BY <1>1 DEF PlaneInv, TypeOK
<1>4. TypeOK'
  <2>1. call' \in [Calls -> CallStates]
    BY <1>1, <1>2 DEF PlaneInv, TypeOK
  <2> QED BY <1>1, <2>1 DEF PlaneInv, TypeOK
<1>5. CallOK(c) /\ call[c].pc # "idle"
  BY <1>1 DEF PlaneInv, Active
<1>6. Moves(c)
  <2>1. \A r \in Rids : EventStep(c, r)
    BY <1>1 DEF EventStep
  <2> QED BY <1>1, <1>2, <1>3, <1>5, <2>1 DEF Moves, CallOK
<1>7. FreshOK(c)' /\ MemoryOK(c)' /\ RowsOK(c)' /\ Recorded(c)' /\ Charged(c)' /\ Billed(c)'
  BY <1>2, <1>3 DEF FreshOK, MemoryOK, RowsOK, Recorded, Charged, Billed, Active
<1>8. Closed(c)'
  BY <1>1, <1>2, <1>3, <1>5 DEF CallOK, Closed, Status
<1>9. CallOK(c)'
  BY <1>2, <1>3, <1>5, <1>7, <1>8 DEF CallOK
<1> QED BY <1>4, <1>5, <1>6, <1>9, MoveKeeps

LEMMA AsideKeeps ==
    ASSUME PlaneInv,
           \/ UNCHANGED vars
           \/ \E r \in Rids : Lapse(r)
           \/ \E M \in SUBSET Miners : ListInstances(M)
           \/ \E m \in Miners : InstanceAttestation(m)
    PROVE  PlaneInv'
<1>1. /\ UNCHANGED <<event, call, stats, log>>
      /\ due \subseteq due' /\ due' \subseteq Rids
      /\ stale \subseteq stale' /\ stale' \subseteq Miners
  BY PlaneAssumption
  DEF PlaneInv, TypeOK, vars, Lapse, ListInstances, InstanceAttestation, Rids
<1>2. ASSUME NEW c \in Calls
      PROVE  CallOK(c)'
  <2>1. CallOK(c)
    BY DEF PlaneInv
  <2>2. FreshOK(c)'
    BY <1>1, <2>1 DEF CallOK, FreshOK, Status
  <2>3. MemoryOK(c)'
    BY <1>1, <2>1 DEF CallOK, MemoryOK, Active, Status, Alone
  <2>4. RowsOK(c)'
    BY <1>1, <2>1 DEF CallOK, RowsOK, Idle
  <2>5. Charged(c)' /\ Billed(c)'
    BY <1>1, <2>1 DEF CallOK, Charged, Billed, Status, Alone
  <2>6. Recorded(c)'
    BY <1>1, <2>1 DEF CallOK, Recorded
  <2>7. Closed(c)'
    BY <1>1, <2>1 DEF CallOK, Closed, Status
  <2> QED BY <1>1, <2>1, <2>2, <2>3, <2>4, <2>5, <2>6, <2>7 DEF CallOK
<1>3. TypeOK' /\ Owned' /\ Apart' /\ ChargedWasServed'
  BY <1>1 DEF PlaneInv, TypeOK, Owned, Apart, ChargedWasServed
<1> QED BY <1>2, <1>3 DEF PlaneInv

(* Sealed calls share no event, so a call that shares none with the calls  *)
(* of the other planes is alone.                                           *)
LEMMA UnsharedIsAlone ==
    ASSUME PlaneInv, NEW c \in Calls, call[c].pc = "done", Unshared(c)
    PROVE  Alone(c)
  BY DEF PlaneInv, Apart, Unshared, Alone

LEMMA InitInv == Init => PlaneInv
<1> SUFFICES ASSUME Init
             PROVE  PlaneInv
  OBVIOUS
<1>1. /\ \A c \in Calls : call[c] = Idle(c) /\ log[c].rows = 0
                         /\ stats[c] = [failed |-> {}, server |-> Nobody, tokens |-> 0]
      /\ \A r \in Rids : event[r].status = "none"
      /\ due = {}
  BY DEF Init
<1>2. \A c \in Calls : Idle(c) \in CallStates
  BY PlaneAssumption DEF Idle, CallStates, Rids, Statuses
<1>3. TypeOK
  BY <1>2 DEF Init, TypeOK, Statuses
<1>4. ASSUME NEW c \in Calls
      PROVE  CallOK(c)
  <2>1. /\ call[c].pc = "idle" /\ call[c].rid = c /\ call[c].kind = "plain"
        /\ ~ call[c].fresh /\ call[c].swept = {} /\ call[c].answer = "none"
        /\ call[c].chunks = 0 /\ call[c].usage = 0
    <3>1. call[c] = Idle(c)
      BY <1>1
    <3> QED BY <3>1 DEF Idle
  <2> QED BY <1>1, <2>1 DEF CallOK, FreshOK, MemoryOK, RowsOK, Recorded, Closed, Charged, Billed,
          Active
<1>5. Owned /\ ChargedWasServed
  BY <1>1 DEF Owned, ChargedWasServed
<1>6. Apart
  <2>1. ASSUME NEW c \in Calls
        PROVE  call[c].pc = "idle"
    <3>1. call[c] = Idle(c)
      BY <1>1
    <3> QED BY <3>1 DEF Idle
  <2> QED BY <2>1 DEF Apart
<1> QED BY <1>3, <1>4, <1>5, <1>6 DEF PlaneInv

LEMMA NextInv == PlaneInv /\ [Next]_vars => PlaneInv'
<1> SUFFICES ASSUME PlaneInv, [Next]_vars
             PROVE  PlaneInv'
  OBVIOUS
<1>1. ASSUME NEW c \in Calls, Begin(c)
      PROVE  PlaneInv'
  <2>1. CASE Refuse(c) \/ ListModels(c)
    BY <2>1, RefuseKeeps
  <2>2. CASE \E id \in Ids \union {c} : EchoFallback(c, id)
    BY <2>2, EchoKeeps
  <2>3. ASSUME NEW id \in Ids \union {c}, NEW M \in SUBSET Miners,
               PlainReserve(c, id, M) \/ StreamReserve(c, id, M)
        PROVE  PlaneInv'
    BY <2>3, ReserveKeeps DEF PlainReserve, StreamReserve
  <2>4. ASSUME NEW id \in Ids \union {c}, NEW m \in Miners, SealedReserve(c, id, m)
        PROVE  PlaneInv'
    <3>1. {m} \in SUBSET Miners /\ Reserve(c, "sealed", id, {m})
      BY <2>4 DEF SealedReserve
    <3> QED BY <3>1, ReserveKeeps
  <2> QED BY <1>1, <2>1, <2>2, <2>3, <2>4 DEF Begin
<1>2. ASSUME NEW c \in Calls, NEW m \in Miners, Forward(c, m)
      PROVE  PlaneInv'
  <2>1. ASSUME NEW mismatch \in BOOLEAN,
               ForwardFails(c, m, mismatch) \/ ForwardStreamFails(c, m, mismatch)
        PROVE  PlaneInv'
    BY <2>1, AttemptFailsKeeps
  <2>2. ASSUME NEW mismatch \in BOOLEAN, SealedFails(c, m, mismatch)
        PROVE  PlaneInv'
    BY <2>2, SealedFailsKeeps
  <2>3. CASE AttemptBreaks(c, m)
    BY <2>3, BreaksKeeps
  <2>4. ASSUME NEW u \in Usages, PlainAnswer(c, m, u)
        PROVE  PlaneInv'
    BY <2>4, PlainAnswerKeeps
  <2>5. CASE OpenStream(c, m)
    BY <2>5, OpenStreamKeeps
  <2>6. ASSUME NEW serverError \in BOOLEAN, SealedRefusal(c, m, serverError)
        PROVE  PlaneInv'
    BY <2>6, SealedRefusalKeeps
  <2>7. ASSUME NEW u \in Usages, NEW reported \in BOOLEAN, SealedAnswer(c, m, u, reported)
        PROVE  PlaneInv'
    BY <2>7, SealedAnswerKeeps
  <2>8. ASSUME NEW u \in Usages, NEW reported \in BOOLEAN, NEW serverError \in BOOLEAN,
               SealedError(c, m, u, reported, serverError)
        PROVE  PlaneInv'
    BY <2>8, SealedErrorKeeps
  <2> QED BY <1>2, <2>1, <2>2, <2>3, <2>4, <2>5, <2>6, <2>7, <2>8 DEF Forward
<1>3. ASSUME NEW c \in Calls, Proceed(c)
      PROVE  PlaneInv'
  <2>1. CASE AllFailed(c)
    BY <2>1, BreaksKeeps
  <2>2. ASSUME NEW unpaid \in BOOLEAN, CloseStream(c, unpaid)
        PROVE  PlaneInv'
    BY <2>2, CloseStreamKeeps
  <2> QED BY <1>2, <1>3, <2>1, <2>2 DEF Proceed
<1>4. ASSUME NEW c \in Calls, Relay(c) \/ Crash(c)
      PROVE  PlaneInv'
  BY <1>4, RelayKeeps, CrashKeeps DEF Relay
<1>5. CASE \/ UNCHANGED vars
           \/ \E r \in Rids : Lapse(r)
           \/ \E M \in SUBSET Miners : ListInstances(M)
           \/ \E m \in Miners : InstanceAttestation(m)
  BY <1>5, AsideKeeps
<1>6. Finished => UNCHANGED vars
  BY DEF Finished
<1> QED BY <1>1, <1>3, <1>4, <1>5, <1>6 DEF Next

-----------------------------------------------------------------------------
(* On every plane, however the calls interleave, a client that got text is *)
(* charged, and nobody is charged who was not served or metered: with any  *)
(* number of calls and miners, and any number of failovers.                *)
THEOREM ChargedForService == Spec => []ServedIffCharged
<1>1. PlaneInv => ServedIffCharged
  <2> SUFFICES ASSUME PlaneInv
               PROVE  ServedIffCharged
    OBVIOUS
  <2>1. ServedIsCharged
    <3> SUFFICES ASSUME NEW c \in Calls, call[c].pc = "done", call[c].answer = "served",
                        Unshared(c), call[c].rid \notin due, ~ call[c].unpaid
                 PROVE  event[call[c].rid].status = "settled"
      BY DEF ServedIsCharged
    <3>1. Alone(c)
      BY UnsharedIsAlone
    <3> QED BY <3>1 DEF PlaneInv, CallOK, Charged, Status
  <2> QED BY <2>1 DEF PlaneInv, ServedIffCharged
<1> QED BY InitInv, NextInv, <1>1, PTL DEF Spec

(* The charge, the usage log and the statistics of a call agree, and every *)
(* failed attempt and every mismatching miner is on record.                *)
THEOREM OneRecord == Spec => []RecordsAgree
<1>1. PlaneInv => RecordsAgree
  <2> SUFFICES ASSUME PlaneInv, NEW c \in Calls
               PROVE  /\ /\ call[c].pc = "done" /\ call[c].answer # "none" /\ Unshared(c)
                         /\ event[call[c].rid].status = "settled"
                         => /\ log[c] = [rows |-> 1, tokens |-> event[call[c].rid].charged]
                            /\ stats[c].server # Nobody /\ (call[c].chunks > 0 => call[c].usage > 0)
                                  => stats[c].tokens = event[call[c].rid].charged
                      /\ Recorded(c)
    BY DEF RecordsAgree, BillingAgrees, AttemptsRecorded, Recorded
  <2>1. Billed(c) /\ Recorded(c)
    BY DEF PlaneInv, CallOK
  <2>2. call[c].pc = "done" /\ Unshared(c) => Alone(c)
    BY UnsharedIsAlone
  <2> QED BY <2>1, <2>2 DEF Billed, Status
<1> QED BY InitInv, NextInv, <1>1, PTL DEF Spec

(* A call that ended has closed its reservation.                           *)
THEOREM NothingDangles == Spec => []NoneDangling
<1>1. PlaneInv => NoneDangling
  BY DEF PlaneInv, CallOK, Closed, Status, NoneDangling
<1> QED BY InitInv, NextInv, <1>1, PTL DEF Spec

=============================================================================
