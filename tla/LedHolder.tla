----------------------------- MODULE LedHolder -----------------------------
(***************************************************************************)
(* ugreenctl-ledd on the DXP2800 GT: the foreground process that takes the *)
(* LED controller over, serves one client connection at a time on a Unix   *)
(* socket (src/led/led_service.c) and writes the CS2011 registers          *)
(* (src/led/led_cs201x.c), with clients that time out, disconnect, stall   *)
(* or are killed, failing port I/O, other owners of the controller, a stop *)
(* signal at any point.                                                    *)
(*                                                                         *)
(* A light's seven registers are two fields: `body` (red, green, blue,     *)
(* brightness, period, duty, written in that order) and `mode`, written    *)
(* last.                                                                   *)
(***************************************************************************)
EXTENDS Naturals, Sequences

CONSTANTS
    Clients,    \* LED command line processes
    Compat,     \* those run under a name the owner check looks for (ugreen_leds_cli)
    Lights,     \* LED ids
    First,      \* lights and FLOW as the firmware may leave them: [lights, flow]
    Takeover,   \* the holder was started with --takeover-flow
    Faulty      \* may hold TRUE: a port access or a system call may fail

NoClient == "none"
Body == {"orig", "user", "blue"}
Mode == {"off", "on", "blink"}
Raw == [body : Body, mode : Mode]
Effect == [body |-> "blue", mode |-> "blink"]   \* what BEGIN writes
Patched == [body |-> "user", mode |-> "on"]     \* what APPLY asks for

ASSUME ClientsAssumption == NoClient \notin Clients /\ Compat \subseteq Clients
ASSUME LightsAssumption == Lights # {}
ASSUME FirstAssumption == First \subseteq [lights : [Lights -> Raw], flow : {0, 1}]
ASSUME OptionsAssumption == Takeover \in BOOLEAN /\ Faulty \subseteq BOOLEAN

VARIABLES
    lights, flow,   \* the controller's registers
    h,              \* where the holder is
    stop,           \* the signal handler's flag
    sock,           \* /run/ugreenctl-ledd.sock: "none", "bound" or "stale"
    base,           \* original and original_flow of the holder's context
    confirmed,      \* the context's confirmed flag
    ident,          \* identify_saved, identify_id and identify_original
    session,        \* struct connection_state
    served,         \* the accepted connection
    pid,            \* client_pid, left out of the owner check
    job,            \* the commit in progress
    rest,           \* lights whose baseline is still to be restored
    result,         \* how the last holder ended
    queue,          \* connections waiting in the listener's backlog
    cl,             \* where each client is
    req, resp,      \* bytes in the two directions of a client's connection
    closed,         \* the client closed its end
    kept,           \* history: what each light shows when no identify runs, while
                    \* connections are served (any value for an unsure light)
    unsure          \* history: lights a reported failure left in an unknown state

hardware == <<lights, flow>>
memory == <<base, confirmed, ident, session, served, pid, job, rest>>
wire == <<queue, cl, req, resp, closed>>
history == <<kept, unsure>>
vars == <<hardware, h, stop, sock, memory, result, wire, history>>

Requests == {"info", "read", "apply", "begin", "end"}
NoSession == [saved |-> FALSE, failed |-> FALSE]
SomeLight == CHOOSE l \in Lights : TRUE
NoIdent == [on |-> FALSE, light |-> SomeLight, value |-> Effect]
NoJob == [why |-> "none", light |-> SomeLight, wanted |-> Effect, before |-> Effect,
          todo |-> <<>>]
Reasons == {"none", "apply", "apply_undo", "begin", "begin_undo", "begin_end", "end",
            "hangup", "exit_end", "base"}
Write == [field : {"body", "mode"}, value : Body \cup Mode]

TypeOK ==
    /\ lights \in [Lights -> Raw] /\ flow \in {0, 1}
    /\ h \in {"off", "open", "takeover", "bind", "listen", "serve", "work", "hangup",
              "exit", "base", "flow"}
    /\ stop \in BOOLEAN /\ sock \in {"none", "bound", "stale"}
    /\ base \in [lights : [Lights -> Raw], flow : {0, 1}] /\ confirmed \in BOOLEAN
    /\ ident \in [on : BOOLEAN, light : Lights, value : Raw]
    /\ session \in [saved : BOOLEAN, failed : BOOLEAN]
    /\ served \in Clients \cup {NoClient} /\ pid \in Clients \cup {NoClient}
    /\ job.why \in Reasons /\ job.light \in Lights /\ job.wanted \in Raw /\ job.before \in Raw
    /\ job.todo \in Seq(Write) /\ Len(job.todo) <= 3
    /\ rest \subseteq Lights /\ result \in {"none", "ok", "failed"}
    /\ queue \in Seq(Clients)
    /\ cl \in [Clients -> {"off", "start", "wait", "begin", "lit", "leaving", "gone"}]
    /\ req \in [Clients -> Requests \cup {"none"}]
    /\ resp \in [Clients -> {"none", "ok", "unconfirmed", "error"}]
    /\ closed \in [Clients -> BOOLEAN]
    /\ kept \in [Lights -> Raw] /\ unsure \subseteq Lights

Init ==
    /\ \E first \in First :
        /\ lights = first.lights /\ flow = first.flow /\ base = first
        /\ kept = first.lights
    /\ h = "off" /\ stop = FALSE /\ sock \in {"none", "stale"}
    /\ confirmed = FALSE /\ ident = NoIdent /\ session = NoSession
    /\ served = NoClient /\ pid = NoClient /\ job = NoJob /\ rest = {}
    /\ result = "none" /\ queue = <<>>
    /\ cl = [c \in Clients |-> "off"]
    /\ req = [c \in Clients |-> "none"] /\ resp = [c \in Clients |-> "none"]
    /\ closed = [c \in Clients |-> FALSE] /\ unsure = {}

-----------------------------------------------------------------------------
(* The checks made before every access. *)

\* production_owners: an LED program other than the client served is running. (A vendor
\* driver that comes and goes is to this check what such a program is.)
Alive(c) == cl[c] \notin {"off", "gone"}
Blocked == \E c \in Compat \ {pid} : Alive(c)

\* guard: machine, owners, chip and the FLOW value expected.
Guard(expected) == ~Blocked /\ flow \in expected

Fault == TRUE \in Faulty

\* guard_flow clears `confirmed` and sets it again at its end. A failing access may be one
\* of its own or a later one, so that both values are left.
AfterFailure(expected) ==
    IF ~Guard(expected) THEN {FALSE} ELSE IF Fault THEN BOOLEAN ELSE {TRUE}

\* commit: which registers are written, in which order. MODE goes to 0 first when
\* the light blinks with another timing or when everything is written back.
Quiesce(wanted, before, restore) ==
    restore \/ (before.mode = "blink" /\ wanted.body # before.body)
Writes_twice(wanted, before, restore) ==     \* mutant: quiesces twice
    <<[field |-> "mode", value |-> "off"], [field |-> "mode", value |-> "off"]>>
        \o <<[field |-> "body", value |-> wanted.body], [field |-> "mode", value |-> wanted.mode]>>
Writes(wanted, before, restore) ==
    LET quiet == Quiesce(wanted, before, restore)
        field(f, need) == IF need THEN <<[field |-> f, value |-> wanted[f]]>> ELSE <<>>
    IN  (IF quiet THEN <<[field |-> "mode", value |-> "off"]>> ELSE <<>>)
        \o field("body", restore \/ wanted.body # before.body)
        \o field("mode", restore \/ quiet \/ wanted.mode # before.mode)

Commit(why, light, wanted, before, restore) ==
    [why |-> why, light |-> light, wanted |-> wanted, before |-> before,
     todo |-> Writes(wanted, before, restore)]

\* A restoration always writes every register of the saved state.
Restore(why, light, value) == Commit(why, light, value, value, TRUE)

-----------------------------------------------------------------------------
(* Opening: owners and locks, snapshots of every light, takeover of FLOW, socket. *)

\* Bound: a behaviour follows one holder from its start to its end; Init covers what
\* an earlier one that was killed leaves behind.
Ended == h = "off" /\ result # "none"

Start ==
    /\ h = "off" /\ result = "none" /\ ~Blocked
    /\ h' = "open"
    /\ UNCHANGED <<hardware, stop, sock, memory, result, wire, history>>

\* Nothing was written yet: a failure only releases the locks.
OpenRefused ==
    /\ h = "open"
    /\ ~Guard({0, 1}) \/ (flow = 0 /\ ~Takeover) \/ Fault
    /\ h' = "off" /\ result' = "failed" /\ confirmed' = FALSE
    /\ UNCHANGED <<hardware, stop, sock, base, ident, session, served, pid, job, rest,
                   wire, history>>

Snapshots ==
    /\ h = "open" /\ Guard({0, 1}) /\ (flow = 1 \/ Takeover)
    /\ base' = [lights |-> lights, flow |-> flow]
    /\ confirmed' = TRUE /\ h' = IF flow = 0 THEN "takeover" ELSE "bind"
    /\ kept' = lights /\ unsure' = {}
    /\ UNCHANGED <<hardware, stop, sock, ident, session, served, pid, job, rest, result,
                   wire>>

\* change_flow(0, 1) and the second set of snapshots. A failed write may have landed.
TakeFlow ==
    /\ h = "takeover"
    /\ \/ /\ Guard({0}) /\ flow' = 1 /\ h' = "bind" /\ confirmed' = TRUE
          /\ UNCHANGED result
       \/ /\ ~Guard({0}) /\ flow' = flow /\ confirmed' = FALSE
          /\ h' = "exit" /\ result' = "failed"
       \/ /\ Guard({0}) /\ Fault /\ flow' \in {0, 1} /\ h' = "exit" /\ result' = "failed"
          /\ confirmed' \in BOOLEAN
    /\ UNCHANGED <<lights, stop, sock, base, ident, session, served, pid, job, rest,
                   wire, history>>

\* A socket nobody answers is removed; the controller locks make that safe.
Bind ==
    /\ h = "bind"
    /\ \/ h' = "listen" /\ sock' = "bound" /\ UNCHANGED result
       \/ Fault /\ h' = "exit" /\ sock' = sock /\ result' = "failed"
    /\ UNCHANGED <<hardware, stop, memory, wire, history>>

-----------------------------------------------------------------------------
(* Serving. *)

Accept ==
    /\ h = "listen" /\ ~stop /\ queue # <<>>
    /\ served' = Head(queue) /\ pid' = Head(queue) /\ queue' = Tail(queue)
    /\ session' = NoSession /\ h' = "serve"
    /\ UNCHANGED <<hardware, stop, sock, base, confirmed, ident, job, rest, result, cl,
                   req, resp, closed, history>>

StopSeen ==
    /\ h = "listen" /\ stop /\ h' = "exit" /\ result' = "ok"
    /\ UNCHANGED <<hardware, stop, sock, memory, wire, history>>

\* poll or accept fails for another reason than a signal.
ListenFails ==
    /\ h = "listen" /\ Fault /\ h' = "exit" /\ result' = "failed"
    /\ UNCHANGED <<hardware, stop, sock, memory, wire, history>>

\* The answer is sent unless the client is gone or the holder was told to stop; a
\* failed restoration ends the connection after the answer.
Respond(answer, failed) ==
    IF closed[served] \/ stop
    THEN h' = "hangup" /\ resp' = resp
    ELSE /\ resp' = [resp EXCEPT ![served] = answer]
         /\ h' = IF failed THEN "hangup" ELSE "serve"

Work(j) == h' = "work" /\ job' = j /\ resp' = resp

Refuse == Respond("error", FALSE) /\ UNCHANGED <<confirmed, ident, session, job>>

\* INFO, READ, APPLY, BEGIN and END. Every one is refused while the hardware is not
\* confirmed; READ, APPLY and BEGIN guard and snapshot the target first.
Unconfirmed ==
    /\ ~confirmed /\ Respond("unconfirmed", FALSE)
    /\ UNCHANGED <<confirmed, ident, session, job>>
Info ==
    /\ req[served] = "info" /\ confirmed /\ Respond("ok", FALSE)
    /\ UNCHANGED <<confirmed, ident, session, job>>
GuardFails ==
    /\ req[served] \in {"read", "apply", "begin"} /\ confirmed
    /\ req[served] # "read" => ~session.saved
    /\ ~Guard({1}) \/ Fault
    /\ confirmed' \in AfterFailure({1})
    /\ Respond("error", FALSE) /\ UNCHANGED <<ident, session, job>>
Read ==
    /\ req[served] = "read" /\ confirmed /\ Guard({1}) /\ Respond("ok", FALSE)
    /\ UNCHANGED <<confirmed, ident, session, job>>
Apply ==
    /\ req[served] = "apply" /\ confirmed
    /\ \/ session.saved /\ Refuse
       \/ \E l \in Lights :
            /\ ~session.saved /\ Guard({1})
            /\ Work(Commit("apply", l, Patched, lights[l], FALSE))
            /\ UNCHANGED <<confirmed, ident, session>>
Begin ==
    /\ req[served] = "begin" /\ confirmed
    /\ \/ session.saved /\ Refuse
       \/ \E l \in Lights :
            /\ ~session.saved /\ Guard({1})
            /\ ident' = [on |-> TRUE, light |-> l, value |-> lights[l]]
            /\ Work(Commit("begin", l, Effect, lights[l], FALSE))
            /\ UNCHANGED <<confirmed, session>>
End ==
    /\ req[served] = "end" /\ confirmed
    /\ \/ ~session.saved /\ Refuse
       \/ /\ session.saved /\ Work(Restore("end", ident.light, ident.value))
          /\ UNCHANGED <<confirmed, ident, session>>

Receive ==
    /\ h = "serve" /\ ~stop /\ req[served] # "none"
    /\ Unconfirmed \/ Info \/ GuardFails \/ Read \/ Apply \/ Begin \/ End
    /\ req' = [req EXCEPT ![served] = "none"]
    /\ UNCHANGED <<hardware, stop, sock, base, served, pid, rest, result, queue, cl,
                   closed, history>>

Disconnected_waits ==    \* mutant: a silent client is waited for
    /\ h = "serve" /\ (stop \/ (req[served] = "none" /\ closed[served]))
    /\ h' = "hangup"
    /\ UNCHANGED <<hardware, stop, sock, memory, result, wire, history>>
Disconnected_deaf ==     \* mutant: the wait for a request does not see the signal
    /\ h = "serve" /\ req[served] = "none" /\ ~stop
    /\ h' = "hangup"
    /\ UNCHANGED <<hardware, stop, sock, memory, result, wire, history>>
\* The client closed its end, was silent for 75 seconds, or the holder was told to stop.
Disconnected ==
    /\ h = "serve" /\ (stop \/ req[served] = "none")
    /\ h' = "hangup"
    /\ UNCHANGED <<hardware, stop, sock, memory, result, wire, history>>

-----------------------------------------------------------------------------
(* Commits. *)

\* write_byte: guard, write, read back. A failed access may have written.
WriteByte ==
    /\ h = "work" /\ job.todo # <<>> /\ Guard({1})
    /\ LET w == Head(job.todo)
       IN  lights' = [lights EXCEPT ![job.light][w.field] = w.value]
    /\ job' = [job EXCEPT !.todo = Tail(@)] /\ confirmed' = TRUE
    /\ UNCHANGED <<flow, h, stop, sock, base, ident, session, served, pid, rest, result,
                   wire, history>>

\* What follows a commit, one alternative for each call of commit.
Finish(ok) ==
    LET l == job.light IN
    \/ /\ job.why = "apply" /\ ok
       /\ kept' = [kept EXCEPT ![l] = job.wanted] /\ unsure' = unsure \ {l}
       /\ Respond("ok", FALSE) /\ job' = NoJob
       /\ UNCHANGED <<ident, session, rest, result>>
    \/ /\ job.why \in {"apply", "begin"} /\ ~ok
       /\ Work(Restore(IF job.why = "apply" THEN "apply_undo" ELSE "begin_undo", l, job.before))
       /\ UNCHANGED <<ident, session, rest, result, history>>
    \/ /\ job.why = "apply_undo"
       /\ unsure' = IF ok THEN unsure ELSE unsure \cup {l}
       /\ kept' = IF ok THEN kept ELSE [kept EXCEPT ![l] = Effect]
       /\ Respond("error", FALSE) /\ job' = NoJob
       /\ UNCHANGED <<ident, session, rest, result>>
    \/ /\ job.why = "begin" /\ ok
       /\ session' = [session EXCEPT !.saved = TRUE]
       /\ Respond("ok", FALSE) /\ job' = NoJob
       /\ UNCHANGED <<ident, rest, result, history>>
    \/ /\ job.why = "begin_undo"
       /\ Work(Restore("begin_end", l, ident.value))
       /\ UNCHANGED <<ident, session, rest, result, history>>
    \/ /\ job.why = "begin_end"
       /\ ident' = IF ok THEN NoIdent ELSE ident
       /\ session' = [saved |-> ~ok, failed |-> ~ok]
       /\ Respond("error", ~ok) /\ job' = NoJob
       /\ UNCHANGED <<rest, result, history>>
    \/ /\ job.why = "end"
       /\ ident' = IF ok THEN NoIdent ELSE ident
       /\ session' = IF ok THEN [session EXCEPT !.saved = FALSE]
                           ELSE [session EXCEPT !.failed = TRUE]
       /\ Respond(IF ok THEN "ok" ELSE "error", ~ok) /\ job' = NoJob
       /\ UNCHANGED <<rest, result, history>>
    \/ /\ job.why = "hangup"
       /\ ident' = IF ok THEN NoIdent ELSE ident
       /\ session' = [saved |-> FALSE, failed |-> session.failed \/ ~ok]
       /\ h' = "hangup" /\ job' = NoJob /\ resp' = resp
       /\ UNCHANGED <<rest, result, history>>
    \/ /\ job.why = "exit_end"
       /\ ident' = IF ok THEN NoIdent ELSE ident
       /\ h' = "base" /\ job' = NoJob /\ resp' = resp
       /\ UNCHANGED <<session, rest, result, history>>
    \/ /\ job.why = "base"
       /\ rest' = IF ok THEN rest \ {l} ELSE {}
       /\ h' = IF ok THEN "base" ELSE "flow"
       /\ result' = IF ok THEN result ELSE "failed"
       /\ job' = NoJob /\ resp' = resp
       /\ UNCHANGED <<ident, session, history>>

\* The final snapshot of the light equals what was asked for.
CommitDone ==
    /\ h = "work" /\ job.todo = <<>> /\ Guard({1})
    /\ lights[job.light] = job.wanted /\ confirmed' = TRUE
    /\ Finish(TRUE)
    /\ UNCHANGED <<hardware, stop, sock, base, served, pid, queue, cl, req, closed>>

CommitFails ==
    /\ h = "work"
    /\ confirmed' \in AfterFailure({1})
    /\ \/ ~Guard({1}) /\ UNCHANGED lights
       \/ /\ Guard({1}) /\ Fault
          /\ \/ UNCHANGED lights
             \/ /\ job.todo # <<>>
                /\ lights' = [lights EXCEPT ![job.light][Head(job.todo).field]
                                                = Head(job.todo).value]
    /\ Finish(FALSE)
    /\ UNCHANGED <<flow, stop, sock, base, served, pid, queue, cl, req, closed>>

-----------------------------------------------------------------------------
(* The end of a connection and of the holder. *)

\* serve_connection after serve_requests: an identify still saved is ended here.
RestoreOnHangup ==
    /\ h = "hangup" /\ session.saved
    /\ h' = "work" /\ job' = Restore("hangup", ident.light, ident.value)
    /\ UNCHANGED <<hardware, stop, sock, base, confirmed, ident, session, served, pid,
                   rest, result, wire, history>>

\* The connection's socket is gone: what was in flight is lost.
Reset(cs) ==
    /\ req' = [c \in Clients |-> IF c \in cs THEN "none" ELSE req[c]]
    /\ closed' = [c \in Clients |-> closed[c] \/ (c \in cs /\ Alive(c))]

HungUp_forgets ==        \* mutant: an identify session dies with its connection
    /\ h = "hangup"
    /\ h' = "listen" /\ served' = NoClient /\ pid' = NoClient
    /\ Reset({served}) /\ session' = NoSession
    /\ UNCHANGED <<hardware, stop, sock, base, confirmed, ident, job, rest, result, queue,
                   cl, resp, history>>

HungUp ==
    /\ h = "hangup" /\ ~session.saved
    /\ IF session.failed \/ stop
       THEN /\ h' = "exit" /\ result' = IF session.failed THEN "failed" ELSE "ok"
            /\ UNCHANGED <<served, pid, req, closed>>
       ELSE /\ h' = "listen" /\ served' = NoClient /\ pid' = NoClient
            /\ Reset({served}) /\ UNCHANGED result
    /\ session' = NoSession
    /\ UNCHANGED <<hardware, stop, sock, base, confirmed, ident, job, rest, queue, cl,
                   resp, history>>

\* The listener and its socket go first; the client that was served stays excluded
\* from the owner check, its socket open, until the baseline is back.
CloseListener ==
    /\ h = "exit"
    /\ sock' = IF sock = "bound" THEN "none" ELSE sock
    /\ queue' = <<>> /\ Reset({queue[i] : i \in 1..Len(queue)})
    /\ rest' = Lights
    /\ IF ident.on
       THEN h' = "work" /\ job' = Restore("exit_end", ident.light, ident.value)
       ELSE h' = "base" /\ job' = NoJob
    /\ UNCHANGED <<hardware, stop, base, confirmed, ident, session, served, pid, result,
                   cl, resp>>
    /\ kept' = base.lights /\ unsure' = {}

\* restore_holder: guard with either FLOW; FLOW that was taken away from the holder
\* is not taken a second time.
RestoreHolder ==
    /\ h = "base" /\ rest # {}
    /\ \/ /\ ~Guard({0, 1}) \/ (flow = 0 /\ (base.flow = 1 \/ lights # base.lights)) \/ Fault
          /\ h' = "flow" /\ rest' = {} /\ result' = "failed"
          /\ confirmed' \in AfterFailure({0, 1}) /\ UNCHANGED job
       \/ /\ Guard({0}) /\ base.flow = 0 /\ lights = base.lights
          /\ h' = "flow" /\ rest' = {} /\ confirmed' = TRUE /\ UNCHANGED <<job, result>>
       \/ /\ Guard({1}) /\ \E l \in rest : job' = Restore("base", l, base.lights[l])
          /\ h' = "work" /\ confirmed' = TRUE /\ UNCHANGED <<rest, result>>
    /\ UNCHANGED <<hardware, stop, sock, base, ident, session, served, pid, wire, history>>

AllRestored_keeps_flow ==    \* mutant: FLOW is not handed back
    /\ h = "base" /\ rest = {} /\ Guard({1}) /\ lights = base.lights
    /\ h' = "flow" /\ confirmed' = TRUE
    /\ UNCHANGED <<hardware, result, stop, sock, base, ident, session, served, pid, job,
                   rest, wire, history>>

\* snapshot_all, then change_flow(1, 0) when FLOW was taken over.
AllRestored ==
    /\ h = "base" /\ rest = {}
    /\ h' = "flow"
    /\ \/ /\ Guard({1}) /\ lights = base.lights
          /\ flow' = base.flow /\ confirmed' = TRUE /\ UNCHANGED result
       \/ /\ ~Guard({1}) \/ lights # base.lights \/ Fault
          /\ flow' \in {flow} \cup (IF Guard({1}) THEN {base.flow} ELSE {})
          /\ result' = "failed" /\ confirmed' \in AfterFailure({1})
    /\ UNCHANGED <<lights, stop, sock, base, ident, session, served, pid, job, rest,
                   wire, history>>

\* Locks and port permissions released, the last connection closed, memory gone.
Release ==
    /\ h = "flow" /\ h' = "off"
    /\ stop' = FALSE /\ confirmed' = FALSE /\ ident' = NoIdent
    /\ session' = NoSession /\ served' = NoClient /\ pid' = NoClient
    /\ Reset({served} \cap Clients)
    /\ UNCHANGED <<hardware, sock, base, job, rest, result, queue, cl, resp, history>>

Stop ==
    /\ h # "off" /\ ~stop /\ stop' = TRUE
    /\ UNCHANGED <<hardware, h, sock, memory, result, wire, history>>

-----------------------------------------------------------------------------
(* Clients. Each one is a process that runs once. *)

Holding(c) == served = c \/ \E i \in 1..Len(queue) : queue[i] = c

Launch(c) ==
    /\ cl[c] = "off"
    /\ cl' = [cl EXCEPT ![c] = "start"]
    /\ UNCHANGED <<hardware, h, stop, sock, memory, result, queue, req, resp,
                   closed, history>>

Send(c, o) ==
    /\ req' = [req EXCEPT ![c] = o]
    /\ resp' = [resp EXCEPT ![c] = "none"]
    /\ cl' = [cl EXCEPT ![c] = IF o = "begin" THEN "begin" ELSE "wait"]

\* Connect and INFO; a stale or missing socket, or one that refuses, ends the call.
Connect(c) ==
    /\ cl[c] = "start"
    /\ IF sock = "bound" /\ h # "off"
       THEN /\ queue' = Append(queue, c) /\ Send(c, "info")
            /\ closed' = [closed EXCEPT ![c] = FALSE]
       ELSE cl' = [cl EXCEPT ![c] = "leaving"] /\ UNCHANGED <<queue, req, resp, closed>>
    /\ UNCHANGED <<hardware, h, stop, sock, memory, result, history>>

Hangup(c) ==
    /\ cl' = [cl EXCEPT ![c] = "leaving"]
    /\ closed' = [closed EXCEPT ![c] = TRUE]
    /\ resp' = [resp EXCEPT ![c] = "none"]

\* After INFO the connection is kept for any number of requests, each target and action
\* of a command being a READ or an APPLY, and closed when the command is over; after BEGIN
\* the light stays lit for a while.
Awaiting(c) == cl[c] \in {"wait", "begin"}
Begun(c) == cl[c] = "begin" /\ resp[c] = "ok"
Answered(c) ==
    /\ Awaiting(c) /\ resp[c] # "none"
    /\ \/ ~Begun(c) /\ Hangup(c) /\ UNCHANGED req
       \/ /\ ~Begun(c) /\ ~closed[c]
          /\ \E o \in {"read", "apply", "begin"} : Send(c, o)
          /\ UNCHANGED closed
       \/ /\ Begun(c) /\ cl' = [cl EXCEPT ![c] = "lit"]
          /\ resp' = [resp EXCEPT ![c] = "none"] /\ UNCHANGED <<req, closed>>
    /\ UNCHANGED <<hardware, h, stop, sock, memory, result, queue, history>>

\* exchange gives up after two seconds, or when the holder closed the connection.
Timeout(c) ==
    /\ Awaiting(c) /\ resp[c] = "none" /\ Hangup(c)
    /\ UNCHANGED <<hardware, h, stop, sock, memory, result, queue, req, history>>

\* The time is up or a signal came: END.
EndIdentify(c) ==
    /\ cl[c] = "lit"
    /\ IF closed[c] THEN Hangup(c) /\ UNCHANGED req
                    ELSE Send(c, "end") /\ UNCHANGED closed
    /\ UNCHANGED <<hardware, h, stop, sock, memory, result, queue, history>>

\* The process ends, by itself after closing its socket or killed with it open.
Leave(c) ==
    /\ Alive(c)
    /\ cl' = [cl EXCEPT ![c] = "gone"]
    /\ closed' = [closed EXCEPT ![c] = Holding(c)]
    /\ resp' = [resp EXCEPT ![c] = "none"]
    /\ UNCHANGED <<hardware, h, stop, sock, memory, result, queue, req, history>>

\* Another owner, while there is one, switches the autonomous effects back on.
Foreign ==
    /\ Blocked /\ flow = 1 /\ h # "off" /\ flow' = 0
    /\ UNCHANGED <<lights, h, stop, sock, memory, result, wire, history>>

-----------------------------------------------------------------------------
HolderStep ==
    \/ OpenRefused \/ Snapshots \/ TakeFlow \/ Bind
    \/ Accept \/ StopSeen \/ ListenFails \/ Receive \/ Disconnected
    \/ WriteByte \/ CommitDone \/ CommitFails
    \/ RestoreOnHangup \/ HungUp \/ CloseListener \/ RestoreHolder \/ AllRestored \/ Release

ClientStep(c) ==
    Launch(c) \/ Connect(c) \/ Answered(c) \/ Timeout(c) \/ EndIdentify(c) \/ Leave(c)

Next ==
    \/ Start \/ HolderStep \/ Stop \/ Foreign
    \/ ~Ended /\ \E c \in Clients : ClientStep(c)

Spec == Init /\ [][Next]_vars

\* The holder keeps running: its waits all have a deadline or end with the signal.
FairSpec == Spec /\ WF_vars(HolderStep)

-----------------------------------------------------------------------------
(* Properties. *)

\* A holder that waits for its next client shows on every light what the last
\* successful APPLY, or the machine before the holder, left there: no identify effect
\* and no half-written light outlives its connection, however it ended (src/led/
\* led_service.c:159-231). Lights of an APPLY that reported a possible change are exempt.
RestoredBetweenClients ==
    h = "listen" => \A l \in Lights \ unsure : lights[l] = kept[l]

\* A holder that ends without an error has put every light and FLOW back to what it
\* found (restore_holder, src/led/led_cs201x.c:369-398), at the moment its last check
\* is done.
ExitRestores ==
    [][h # "flow" /\ h' = "flow" /\ result' = "ok"
         => lights' = base.lights /\ flow' = base.flow]_vars

\* A stalled client cannot hold the holder for ever (src/led/led_service.c:133-135): one
\* that sends nothing any more, whether it keeps its end open, closed it or is stuck, and
\* wherever it stopped, is let go. A client that asks again within each 75 seconds is not.
Sends(c) == req[c] = "none" /\ req'[c] # "none"
StalledClientDropped ==
    \A c \in Clients : <>[][~Sends(c)]_vars => []<>(served # c)

\* A stop signal ends the holder, whatever it was doing (src/led/led_service.c:466-499).
StopEnds == stop ~> h = "off"

\* Only the operation that meets a changed machine or owner is refused: an answer
\* "unconfirmed" is given while a check would fail (src/led/led_service.c:150).
RefusesOnlyThisOperation ==
    [][h = "serve" /\ resp' # resp /\ resp'[served] = "unconfirmed" => ~Guard({1})]_vars
=============================================================================
