----------------------------- MODULE PaymentForm -----------------------------
(***************************************************************************)
(* frontend/src/components/PaymentForm.jsx over the endpoints of Simulator:*)
(* four buttons, each with a handler that sends one request and waits.  A  *)
(* button is disabled by its own request only, so requests of different    *)
(* buttons overlap; and the browser gives up after 15 seconds (api.js), so *)
(* the server may still handle a request that nobody waits for any more.   *)
(* Behind the page time goes by, claims are evicted, and the server may be *)
(* restarted.                                                              *)
(***************************************************************************)
EXTENDS Simulator

CONSTANTS
    StartDevice,    \* the phone the form names, 'phone-alice'
    MaxSends,       \* bound: clicks of "Inject into Mesh"
    MaxUnderWay     \* bound: requests of the form under way together

VARIABLES
    loading,        \* loading[b] : the handler of b waits, b is disabled
    request,        \* request[b] : how far the request b waits for has come
    late,           \* buttons whose request is under way and given up
    flushCalls,     \* the calls of ingest() that the flush being answered made
    shown,          \* shown[b] : the result under b: "nothing", "success", "error"
    shownFlush,     \* the calls the flush result on the page reports
    sends,          \* history: clicks of "Inject into Mesh"
    alone           \* history: no request but a reset's since its click

formVars == <<loading, request, late, flushCalls, shown, shownFlush, sends, alone>>

uiVars == <<formVars, simVars>>

ASSUME FormAssumption ==
    StartDevice \in Mesh!Devices /\ MaxSends \in Nat /\ MaxUnderWay \in Nat

Buttons == {"send", "gossip", "flush", "reset"}

FormTypeOK ==
    /\ loading \in [Buttons -> BOOLEAN]
    /\ request \in [Buttons -> {"none", "sent", "served", "refused"}]
    /\ \A b \in Buttons : loading[b] <=> request[b] # "none"
    /\ late \subseteq Buttons
    /\ flushCalls \subseteq Calls /\ shownFlush \subseteq Calls
    /\ shown \in [Buttons -> {"nothing", "success", "error"}]
    /\ sends \in 0 .. MaxSends
    /\ alone \in BOOLEAN

FormInit ==
    /\ SimInit
    /\ loading = [b \in Buttons |-> FALSE]
    /\ request = [b \in Buttons |-> "none"]
    /\ late = {} /\ flushCalls = {} /\ shownFlush = {}
    /\ shown = [b \in Buttons |-> "nothing"]
    /\ sends = 0 /\ alone = FALSE

-----------------------------------------------------------------------------
\* The results a handler clears before it sends its request.
Clears(b) == IF b = "reset" THEN {"send", "gossip", "flush"} ELSE {b}

UnderWay == Cardinality({b \in Buttons : loading[b]}) + Cardinality(late)

Click(b) ==
    /\ ~loading[b] /\ UnderWay < MaxUnderWay
    /\ b = "send" => sends < MaxSends
    /\ loading' = [loading EXCEPT ![b] = TRUE]
    /\ request' = [request EXCEPT ![b] = "sent"]
    /\ shown' = [x \in Buttons |-> IF x \in Clears(b) THEN "nothing" ELSE shown[x]]
    /\ shownFlush' = IF "flush" \in Clears(b) THEN {} ELSE shownFlush
    /\ sends' = IF b = "send" THEN sends + 1 ELSE sends
    /\ alone' = (b = "reset" /\ late = {} /\ \A x \in Buttons : ~loading[x])
    /\ UNCHANGED <<late, flushCalls, simVars>>

\* What the endpoint behind b does; a flush of an empty mesh does nothing.
Endpoint(b) ==
    \/ b = "send" /\ \E p \in Payments, ttl \in InitialTtls : demoSend(p, StartDevice, ttl)
    \/ b = "gossip" /\ meshGossip
    \/ b = "flush" /\ meshFlush
    \/ b = "flush" /\ Mesh!collectBridgeUploads = {} /\ UNCHANGED simVars
    \/ b = "reset" /\ meshReset

Handle(b) ==
    /\ request[b] = "sent"
    /\ Endpoint(b)
    /\ request' = [request EXCEPT ![b] = "served"]
    /\ flushCalls' = IF b = "flush" THEN {c \in Calls : gate[c] = "none" /\ gate'[c] # "none"}
                     ELSE flushCalls
    /\ UNCHANGED <<loading, late, shown, shownFlush, sends, alone>>

\* A request without an amount or a pin is answered with status 400.
Refuse ==
    /\ request["send"] = "sent"
    /\ request' = [request EXCEPT !["send"] = "refused"]
    /\ UNCHANGED <<loading, late, flushCalls, shown, shownFlush, sends, alone, simVars>>

\* A request nobody waits for is handled all the same, or was never received.
HandleLate(b) ==
    /\ b \in late
    /\ late' = late \ {b}
    /\ Endpoint(b) \/ UNCHANGED simVars
    /\ UNCHANGED <<loading, request, flushCalls, shown, shownFlush, sends, alone>>

\* mutant: the button comes back while its answer is still awaited
ReturnEarly(b) ==
    /\ loading' = [loading EXCEPT ![b] = FALSE]
    /\ UNCHANGED request

\* The finally clause of every handler.
Return(b) ==
    /\ loading' = [loading EXCEPT ![b] = FALSE]
    /\ request' = [request EXCEPT ![b] = "none"]

\* mutant: the flush does not wait for the settlements
ReadyAtOnce(b) == request[b] = "served"
\* meshFlush answers when all its calls of ingest() have: never, if the server
\* died before.
Ready(b) ==
    /\ request[b] = "served"
    /\ b = "flush" => \A c \in flushCalls : pc[c] \notin Active \cup {"lost"}

\* The handler goes on after its await; the reset has no result of its own.
Resume(b) ==
    /\ Ready(b)
    /\ Return(b)
    /\ shown' = [shown EXCEPT ![b] = IF b = "reset" THEN "nothing" ELSE "success"]
    /\ shownFlush' = IF b = "flush" THEN flushCalls ELSE shownFlush
    /\ UNCHANGED <<late, flushCalls, sends, alone, simVars>>

\* Of the four, only a send that failed shows it; the others are in the log.
ShowError(b) == shown' = IF b = "send" THEN [shown EXCEPT ![b] = "error"] ELSE shown

ResumeRefused ==
    /\ request["send"] = "refused"
    /\ Return("send")
    /\ ShowError("send")
    /\ UNCHANGED <<late, flushCalls, shownFlush, sends, alone, simVars>>

\* mutant: the browser sends the request again
GiveUpAndResend(b) ==
    /\ loading[b] /\ request[b] = "sent"
    /\ late' = late \cup {b}
    /\ UNCHANGED <<loading, request, shown, flushCalls, shownFlush, sends, alone, simVars>>

\* The time-out of 15 seconds, or the connection fails: with the request still
\* under way, lost, or already handled.
GiveUp(b) ==
    /\ loading[b]
    /\ Return(b)
    /\ ShowError(b)
    /\ \/ UNCHANGED late
       \/ request[b] = "sent" /\ late' = late \cup {b}
    /\ UNCHANGED <<flushCalls, shownFlush, sends, alone, simVars>>

\* What goes on behind the page; a request under way may meet the next server.
Server ==
    \/ (\E c \in Calls : Settling(c)) /\ UNCHANGED phoneVars
    \/ evictExpired /\ UNCHANGED phoneVars
    \/ Tick /\ UNCHANGED phoneVars
    \/ RestartSimulator

FormNext ==
    \/ \E b \in Buttons : Click(b) \/ Handle(b) \/ HandleLate(b) \/ Resume(b) \/ GiveUp(b)
    \/ Refuse \/ ResumeRefused
    \/ Server /\ UNCHANGED formVars

FormSpec == FormInit /\ [][FormNext]_uiVars

-----------------------------------------------------------------------------
Packets == {p \in Payments : key[p] # 0}

UnhandledSends ==
    (IF request["send"] = "sent" THEN 1 ELSE 0) + (IF "send" \in late THEN 1 ELSE 0)

(* A click pays once at most, however its request ends: a send that failed *)
(* on the page may have made its packet, but only a second click makes a   *)
(* second one.                                                             *)
OnePacketPerClick == Cardinality(Packets) + UnhandledSends <= sends

(* What the flush result says of a packet is final: it settled and is on   *)
(* record, it was refused as too old and still is too old, or another call *)
(* had it ("Even if 3 bridges hold the same packet, it settles exactly     *)
(* once", line 230), whatever happened before the answer was shown.        *)
ShownFlushIsTrue ==
    \A c \in shownFlush :
        \/ gate[c] = "passed" /\ transactions[upload[c]] # "none"
        \/ gate[c] = "passed" /\ pc[c] \in {"failed", "conflict"}
        \/ gate[c] = "stale" /\ IsStale(upload[c])
        \/ gate[c] = "duplicate"
              /\ \E d \in Calls \ {c} :
                    upload[d] = upload[c] /\ gate[d] \in {"passed", "stale"}

(* A reset that no other request overlaps leaves nothing: no packet on a   *)
(* phone, no claim in the cache, no result on the page.                    *)
UndisturbedResetClears ==
    [][alone /\ request["reset"] = "served" /\ ~loading'["reset"] =>
          /\ Mesh!collectBridgeUploads = {} /\ \A d \in Mesh!Devices, p \in Payments : ~Mesh!holds(d, p)
          /\ \A p \in Payments : ~IsClaimed(p)
          /\ \A b \in Buttons : shown'[b] = "nothing"]_uiVars

=============================================================================
