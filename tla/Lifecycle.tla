------------------------------ MODULE Lifecycle ------------------------------
(***************************************************************************)
(* The life of the mGate process: main starts its servers one by one in an *)
(* errgroup, and waits; each server is a Listen, which binds its port and  *)
(* runs two goroutines in an errgroup of its own, one that takes clients   *)
(* off the listener and one that closes the listener when the context is   *)
(* done.  The signal handler cancels the context all of them share.        *)
(*                                                                         *)
(* Four kinds of loop take clients: "accept" (MQTT) and "dtls" (CoAP over  *)
(* DTLS) retry an Accept that fails, "serve" (http.Server, for HTTP and    *)
(* MQTT over WebSocket) returns its error, and "udp" (plain CoAP) returns  *)
(* none.  The sessions of a DTLS listener share its UDP socket, which      *)
(* stays bound until the listener and all of them are closed; no Listen    *)
(* waits for sessions.  What else becomes of a client is the matter of the *)
(* session modules.                                                        *)
(***************************************************************************)
EXTENDS Naturals

CONSTANTS
  N,              \* how many servers main starts
  Loop,           \* the kind of loop of each
  MaxClients      \* bound: clients that each server is offered

Server == 1..N

ASSUME LifecycleAssumption ==
  /\ N \in Nat
  /\ Loop \in [Server -> {"accept", "dtls", "serve", "udp"}]
  /\ MaxClients \in Nat

VARIABLES
  main,         \* where main is, or how the process ended
  next,         \* the server main starts next
  handler,      \* where StopSignalHandler is
  signalled,    \* has the handler's channel got a signal?
  cancelled,    \* is the context shared by all servers cancelled?
  listen,       \* where each Listen is
  taker,        \* where the goroutine that takes its clients is
  closer,       \* where the goroutine that closes its listener is
  listener,     \* the listener
  port,         \* is the port of each bound?
  live,         \* sessions that use the socket of a DTLS listener
  failed,       \* has the errgroup of Listen seen an error of the taker?
  served,       \* history: clients handed on to a goroutine or handler
  bindFailed,   \* history: did a server fail to bind?
  readFailed    \* history: plain CoAP servers whose read failed while listening

procVars   == <<main, next, handler, signalled>>
sockVars   == <<listener, port>>
listenVars == <<listen, closer, sockVars, bindFailed>>
takerVars  == <<taker, failed, served, live, readFailed>>
vars == <<procVars, cancelled, listenVars, takerVars>>

TypeOK ==
  /\ main \in {"start", "wait", "done", "panicked", "killed"}
  /\ next \in 1..(N + 1)
  /\ handler \in {"none", "register", "wait", "done"}
  /\ signalled \in BOOLEAN /\ cancelled \in BOOLEAN /\ bindFailed \in BOOLEAN
  /\ listen \in [Server -> {"none", "bind", "wait", "done"}]
  /\ taker \in [Server -> {"none", "top", "take", "hand", "done"}]
  /\ closer \in [Server -> {"none", "wait", "done"}]
  /\ listener \in [Server -> {"none", "open", "closed"}]
  /\ port \in [Server -> BOOLEAN]
  /\ failed \in [Server -> BOOLEAN]
  /\ live \in [Server -> Nat]
  /\ served \in [Server -> Nat]
  /\ readFailed \subseteq Server

Init ==
  /\ main = "start" /\ next = 1 /\ handler = "none"
  /\ signalled = FALSE /\ cancelled = FALSE /\ bindFailed = FALSE
  /\ listen = [s \in Server |-> "none"]
  /\ taker = [s \in Server |-> "none"]
  /\ closer = [s \in Server |-> "none"]
  /\ listener = [s \in Server |-> "none"]
  /\ port = [s \in Server |-> FALSE]
  /\ failed = [s \in Server |-> FALSE]
  /\ live = [s \in Server |-> 0]
  /\ served = [s \in Server |-> 0]
  /\ readFailed = {}

Running == main \in {"start", "wait"}       \* the process has not exited

(* ctx.Done() of the context that Listen derives from the shared one. *)
Done(s) == cancelled \/ failed[s]

-----------------------------------------------------------------------------
(* main and the signal handler.                                            *)

(* Mutated StartServer: an index too far.                                  *)
StartServerTooFar ==
  /\ main = "start" /\ next <= N + 1
  /\ next' = next + 1
  /\ listen' = [listen EXCEPT ![next] = "bind"]
  /\ UNCHANGED <<main, handler, signalled, cancelled, closer, sockVars,
                 bindFailed, takerVars>>

(* Read the configuration, make the proxy, and go Listen.                  *)
StartServer ==
  /\ main = "start" /\ next <= N
  /\ next' = next + 1
  /\ listen' = [listen EXCEPT ![next] = "bind"]
  /\ UNCHANGED <<main, handler, signalled, cancelled, closer, sockVars,
                 bindFailed, takerVars>>

(* A configuration that cannot be read, or a proxy that cannot be made,    *)
(* takes the servers already started with it.                              *)
Panic ==
  /\ main = "start" /\ next <= N
  /\ main' = "panicked"
  /\ UNCHANGED <<next, handler, signalled, cancelled, listenVars, takerVars>>

StartSignalHandler ==
  /\ main = "start" /\ next = N + 1
  /\ main' = "wait" /\ handler' = "register"
  /\ UNCHANGED <<next, signalled, cancelled, listenVars, takerVars>>

RegisterSignals ==
  /\ Running /\ handler = "register"
  /\ handler' = "wait"
  /\ UNCHANGED <<main, next, signalled, cancelled, listenVars, takerVars>>

(* The user's SIGINT: before signal.Notify it kills the process.           *)
Signal ==
  /\ Running /\ ~signalled
  /\ IF handler \in {"wait", "done"}
     THEN signalled' = TRUE /\ main' = main
     ELSE signalled' = signalled /\ main' = "killed"
  /\ UNCHANGED <<next, handler, cancelled, listenVars, takerVars>>

(* Either case of the select; only the signal's calls cancel, the other is *)
(* there because the context is cancelled already.                         *)
StopSignalHandler ==
  /\ Running /\ handler = "wait"
  /\ signalled \/ cancelled
  /\ handler' = "done" /\ cancelled' = TRUE
  /\ UNCHANGED <<main, next, signalled, listenVars, takerVars>>

(* g.Wait. *)
WaitReturns ==
  /\ main = "wait" /\ handler = "done"
  /\ \A s \in Server : listen[s] = "done"
  /\ main' = "done"
  /\ UNCHANGED <<next, handler, signalled, cancelled, listenVars, takerVars>>

-----------------------------------------------------------------------------
(* Listen.                                                                 *)

Bind(s) ==
  /\ Running /\ listen[s] = "bind"
  /\ listen' = [listen EXCEPT ![s] = "wait"]
  /\ listener' = [listener EXCEPT ![s] = "open"]
  /\ port' = [port EXCEPT ![s] = TRUE]
  /\ taker' = [taker EXCEPT ![s] = "top"]
  /\ closer' = [closer EXCEPT ![s] = "wait"]
  /\ UNCHANGED <<procVars, cancelled, bindFailed, failed, served, live, readFailed>>

(* The one error Listen returns: the errgroup of main cancels the context. *)
BindFails(s) ==
  /\ Running /\ listen[s] = "bind"
  /\ listen' = [listen EXCEPT ![s] = "done"]
  /\ cancelled' = TRUE /\ bindFailed' = TRUE
  /\ UNCHANGED <<procVars, closer, sockVars, takerVars>>

(* l.Close of a listener; closing it again changes nothing.                *)
Close(s) ==
  /\ listener' = [listener EXCEPT ![s] = "closed"]
  /\ port' = [port EXCEPT ![s] = Loop[s] = "dtls" /\ live[s] > 0]

(* The deferred Close of coap.go; the other kinds of Listen have none.     *)
DeferredClose(s) ==
  IF Loop[s] \in {"udp", "dtls"} THEN Close(s) ELSE UNCHANGED sockVars

(* Mutated ListenReturns: Listen does not wait for its goroutines.         *)
ListenReturnsEarly(s) ==
  /\ Running /\ listen[s] = "wait"
  /\ closer[s] = "done"
  /\ listen' = [listen EXCEPT ![s] = "done"]
  /\ DeferredClose(s)
  /\ UNCHANGED <<procVars, cancelled, closer, bindFailed, takerVars>>

(* Mutated ListenReturns: the error of g.Wait is returned to main.         *)
ListenReturnsError(s) ==
  /\ Running /\ listen[s] = "wait"
  /\ taker[s] = "done" /\ closer[s] = "done"
  /\ listen' = [listen EXCEPT ![s] = "done"]
  /\ cancelled' = (cancelled \/ failed[s])
  /\ UNCHANGED <<procVars, closer, sockVars, bindFailed, takerVars>>

(* g.Wait returns; its error, if any, is logged and Listen returns nil.    *)
ListenReturns(s) ==
  /\ Running /\ listen[s] = "wait"
  /\ taker[s] = "done" /\ closer[s] = "done"
  /\ listen' = [listen EXCEPT ![s] = "done"]
  /\ DeferredClose(s)
  /\ UNCHANGED <<procVars, cancelled, closer, bindFailed, takerVars>>

(* Mutated CloseListener: the goroutine returns and leaves the listener.   *)
CloseListenerForgotten(s) ==
  /\ Running /\ closer[s] = "wait" /\ Done(s)
  /\ closer' = [closer EXCEPT ![s] = "done"]
  /\ UNCHANGED <<procVars, cancelled, listen, sockVars, bindFailed, takerVars>>

CloseListener(s) ==
  /\ Running /\ closer[s] = "wait" /\ Done(s)
  /\ closer' = [closer EXCEPT ![s] = "done"]
  /\ Close(s)
  /\ UNCHANGED <<procVars, cancelled, listen, bindFailed, takerVars>>

-----------------------------------------------------------------------------
(* The goroutine that takes clients: p.accept, p.proxyDTLS, p.proxyUDP or  *)
(* server.Serve.                                                           *)

TakerGoto(s, from, to) ==
  Running /\ taker[s] = from /\ taker' = [taker EXCEPT ![s] = to]

(* The select at the top of the loop, which http.Server has not.           *)
CheckDone(s) ==
  /\ TakerGoto(s, "top", IF Loop[s] # "serve" /\ Done(s) THEN "done" ELSE "take")
  /\ UNCHANGED <<procVars, cancelled, listenVars, failed, served, live, readFailed>>

TakeClient(s) ==
  /\ TakerGoto(s, "take", "hand")
  /\ listener[s] = "open"
  /\ served[s] < MaxClients
  /\ live' = [live EXCEPT ![s] = IF Loop[s] = "dtls" THEN @ + 1 ELSE @]
  /\ UNCHANGED <<procVars, cancelled, listenVars, failed, served, readFailed>>

(* go p.handle, go p.handleDTLS, the goroutine of an http connection, or   *)
(* the handling of a datagram.                                             *)
HandOn(s) ==
  /\ TakerGoto(s, "hand", "top")
  /\ served' = [served EXCEPT ![s] = @ + 1]
  /\ UNCHANGED <<procVars, cancelled, listenVars, failed, live, readFailed>>

(* handleDTLS closes the device's connection: the last one to close after  *)
(* the listener takes the socket with it.                                  *)
EndSession(s) ==
  /\ Running /\ live[s] > (IF taker[s] = "hand" THEN 1 ELSE 0)
  /\ live' = [live EXCEPT ![s] = @ - 1]
  /\ port' = [port EXCEPT ![s] = listener[s] = "open" \/ live[s] > 1]
  /\ UNCHANGED <<procVars, cancelled, listen, closer, listener, bindFailed, taker,
                 failed, served, readFailed>>

(* Mutated AfterError: a failing Accept ends every loop without an error.  *)
GiveUpAfterError(s) ==
  /\ TakerGoto(s, "take", "done")
  /\ UNCHANGED failed

(* What each loop makes of an error of its listener.                       *)
AfterError(s) ==
  /\ TakerGoto(s, "take", IF Loop[s] \in {"accept", "dtls"} THEN "top" ELSE "done")
  /\ failed' = [failed EXCEPT ![s] = @ \/ Loop[s] = "serve"]

(* The listener was closed. *)
TakeClosed(s) ==
  /\ listener[s] = "closed"
  /\ AfterError(s)
  /\ UNCHANGED <<procVars, cancelled, listenVars, served, live, readFailed>>

(* An error on an open listener, out of descriptors say; http.Server       *)
(* retries those that call themselves temporary.                           *)
TakeFails(s) ==
  /\ listener[s] = "open"
  /\ \/ AfterError(s)
     \/ Loop[s] = "serve" /\ TakerGoto(s, "take", "top") /\ UNCHANGED failed
  /\ readFailed' = readFailed \cup {r \in {s} : Loop[r] = "udp"}
  /\ UNCHANGED <<procVars, cancelled, listenVars, served, live>>

-----------------------------------------------------------------------------
MainStep == StartServer \/ StartSignalHandler \/ WaitReturns
HandlerStep == RegisterSignals \/ StopSignalHandler
TakerStep(s) == CheckDone(s) \/ HandOn(s) \/ TakeClosed(s)
ListenStep(s) == Bind(s) \/ BindFails(s) \/ ListenReturns(s)
Environment(s) == TakeClient(s) \/ TakeFails(s) \/ EndSession(s)

Next ==
  \/ MainStep \/ HandlerStep \/ Panic \/ Signal
  \/ \E s \in Server : ListenStep(s) \/ CloseListener(s) \/ TakerStep(s)
                       \/ Environment(s)

Spec == Init /\ [][Next]_vars

(* Goroutines are scheduled, a bind returns, and a listener that is closed *)
(* makes the Accept waiting on it return; no client need come, and nothing *)
(* need fail.                                                              *)
FairSpec ==
  /\ Spec
  /\ WF_vars(MainStep) /\ WF_vars(HandlerStep)
  /\ \A s \in Server : /\ WF_vars(ListenStep(s)) /\ WF_vars(CloseListener(s))
                       /\ WF_vars(TakerStep(s))

-----------------------------------------------------------------------------
(* What start-up and shutdown promise.                                     *)

(* The servers are independent once they are bound: all of them are told   *)
(* to stop only by a signal or by a server that could not bind, however    *)
(* their listeners fail, because Listen swallows every later error.        *)
StoppedForReason == cancelled => signalled \/ bindFailed

(* A Listen that has returned left no goroutine of its own and no bound    *)
(* port, although only two of its kinds close the listener as they return; *)
(* the port of CoAP over DTLS is the exception, which sessions that nobody *)
(* waits for keep bound, and they alone, until the last of them ends.      *)
PortsReleased ==
  \A s \in Server : listen[s] = "done" =>
     /\ taker[s] \in {"none", "done"} /\ closer[s] # "wait"
     /\ port[s] <=> live[s] > 0

(* A port that is open is served, unless its server is being stopped; the  *)
(* exception is plain CoAP, where one failed read leaves the port bound    *)
(* and unread for good.                                                    *)
OpenPortServed ==
  \A s \in Server :
     listener[s] = "open" /\ ~Done(s) =>
        taker[s] # "done" \/ s \in readFailed

(* No client is handed on once Listen has returned: g.Wait covers the one  *)
(* that was being accepted while the listener was closed.                  *)
ServedWhileListening ==
  [][\A s \in Server : served'[s] # served[s] => listen'[s] = "wait"]_vars

(* Once the context is cancelled the process exits, whatever its sessions  *)
(* do: no loop misses it, not even one that retries a failing Accept.      *)
ShutdownCompletes == cancelled ~> ~Running
=============================================================================
