------------------------------ MODULE HostClient ------------------------------
(***************************************************************************)
(* The connection the client keeps to a host (client/v2/client.go).        *)
(* Concurrent RPCs share a cached transport; the first that finds none     *)
(* dials the host's addresses, the others wait for it.  An RPC that fails  *)
(* with a transport error resets the transport, whichever is cached by     *)
(* then.  Close waits for the RPCs and closes what is cached.              *)
(***************************************************************************)
EXTENDS Naturals, FiniteSets

CONSTANTS
    Callers,      \* RPCs of the host in progress at a time
    Untracked,    \* of these, RPCs that do not add themselves to the threadgroup
    Addresses,    \* addresses of the host
    MaxDials,     \* dials at a time, the semaphore of dial
    MaxConns, MaxCalls   \* bounds: connections, RPCs

Nil    == 0                       \* no connection
Conns  == 1..MaxConns
NoDial == "none"

ASSUME ClientAssumption ==
    /\ Untracked \subseteq Callers /\ IsFiniteSet(Callers) /\ IsFiniteSet(Addresses)
    /\ NoDial \notin Callers
    /\ MaxDials \in Nat \ {0} /\ {MaxConns, MaxCalls} \subseteq Nat

VARIABLES
    conns,      \* connections made so far
    open,       \* of these, the ones not closed
    broken,     \* connections the host or the network has cut
    tc,         \* the cached transport
    dialer,     \* the RPC that dials, dialCh being set
    cancelled,  \* dialCtx is done
    attempt,    \* [Addresses -> state and connection of the dial]
    rpc,        \* [Callers -> step, connection in use]
    calls,      \* RPCs so far
    stopped,    \* the threadgroup is stopped
    closed      \* Close has returned

transportVars == <<conns, open, broken, tc, dialer, cancelled, attempt>>
clientVars    == <<transportVars, rpc, calls, stopped, closed>>

NotTried == [state |-> "not tried", conn |-> Nil]
NoRpc    == [pc |-> "none", conn |-> Nil]

ClientInit ==
    /\ conns = 0 /\ open = {} /\ broken = {} /\ tc = Nil
    /\ dialer = NoDial /\ cancelled = FALSE /\ attempt = [a \in Addresses |-> NotTried]
    /\ rpc = [c \in Callers |-> NoRpc] /\ calls = 0 /\ stopped = FALSE /\ closed = FALSE

Step(c, pc, conn) == rpc' = [rpc EXCEPT ![c] = [pc |-> pc, conn |-> conn]]

(* The RPC adds itself to the threadgroup, unless that is stopped.          *)
StartRpc(c) ==
    /\ rpc[c] = NoRpc /\ calls < MaxCalls
    /\ stopped => c \in Untracked
    /\ Step(c, "transport", Nil) /\ calls' = calls + 1
    /\ UNCHANGED <<transportVars, stopped, closed>>

-----------------------------------------------------------------------------
(***************************************************************************)
(* Dialing                                                                 *)
(***************************************************************************)

(* The cached transport is used; a dial in progress is waited for; else the *)
(* RPC starts one.                                                          *)
UseCached(c) ==
    /\ rpc[c].pc = "transport" /\ tc # Nil
    /\ Step(c, "rpc", tc) /\ UNCHANGED <<transportVars, calls, stopped, closed>>

WaitForDial(c) ==
    /\ rpc[c].pc = "transport" /\ tc = Nil /\ dialer # NoDial
    /\ Step(c, "wait", Nil) /\ UNCHANGED <<transportVars, calls, stopped, closed>>

StartDial(c) ==
    /\ rpc[c].pc = "transport" /\ tc = Nil /\ dialer = NoDial
    /\ Step(c, "dial", Nil)
    /\ dialer' = c /\ cancelled' = FALSE /\ attempt' = [a \in Addresses |-> NotTried]
    /\ UNCHANGED <<conns, open, broken, tc, calls, stopped, closed>>

Tries(state) == {a \in Addresses : attempt[a].state = state}
SetAttempt(a, state, conn) == attempt' = [attempt EXCEPT ![a] = [state |-> state, conn |-> conn]]

TryAddress(a) ==
    /\ dialer # NoDial /\ rpc[dialer].pc = "dial" /\ ~cancelled
    /\ a \in Tries("not tried")
    /\ Cardinality(Tries("dialing") \cup Tries("connected")) < MaxDials
    /\ SetAttempt(a, "dialing", Nil)
    /\ UNCHANGED <<conns, open, broken, tc, dialer, cancelled, rpc, calls, stopped, closed>>

(* The connect timeout, or the context of the RPC that dials.               *)
DialTimeout ==
    /\ dialer # NoDial /\ rpc[dialer].pc = "dial" /\ ~cancelled
    /\ cancelled' = TRUE
    /\ UNCHANGED <<conns, open, broken, tc, dialer, attempt, rpc, calls, stopped, closed>>

(* A connection that comes too late is closed.                              *)
Connect(a) ==
    /\ a \in Tries("dialing") /\ conns < MaxConns
    /\ conns' = conns + 1
    /\ IF cancelled
       THEN SetAttempt(a, "done", Nil) /\ UNCHANGED open
       ELSE SetAttempt(a, "connected", conns') /\ open' = open \cup {conns'}
    /\ UNCHANGED <<broken, tc, dialer, cancelled, rpc, calls, stopped, closed>>

ConnectFails(a) ==
    /\ a \in Tries("dialing")
    /\ SetAttempt(a, "done", Nil)
    /\ UNCHANGED <<conns, open, broken, tc, dialer, cancelled, rpc, calls, stopped, closed>>

(* Two addresses may connect before either has cancelled the other: the     *)
(* second closes its connection.                                            *)
KeepSurplus(a) == tc' = (IF tc = Nil THEN attempt[a].conn ELSE tc) /\ UNCHANGED open
CacheOrClose(a) ==
    IF tc = Nil THEN tc' = attempt[a].conn /\ UNCHANGED open
    ELSE open' = open \ {attempt[a].conn} /\ UNCHANGED tc

CacheTransport(a) ==
    /\ a \in Tries("connected")
    /\ CacheOrClose(a)
    /\ cancelled' = TRUE /\ SetAttempt(a, "done", Nil)
    /\ UNCHANGED <<conns, broken, dialer, rpc, calls, stopped, closed>>

(* All attempts are over: what is cached now is the result.  The channel is *)
(* closed afterwards, in a step of its own.                                 *)
DialResult ==
    /\ dialer # NoDial /\ rpc[dialer].pc = "dial"
    /\ Tries("dialing") \cup Tries("connected") = {} /\ (cancelled \/ Tries("not tried") = {})
    /\ Step(dialer, "dialed", tc)
    /\ UNCHANGED <<transportVars, calls, stopped, closed>>

Woken(c) == IF rpc[c].pc = "wait" THEN "transport" ELSE rpc[c].pc

EndDial ==
    /\ dialer # NoDial /\ rpc[dialer].pc = "dialed"
    /\ rpc' = [c \in Callers |->
           IF c # dialer THEN [pc |-> Woken(c), conn |-> rpc[c].conn]
           ELSE IF rpc[c].conn = Nil THEN NoRpc ELSE [pc |-> "rpc", conn |-> rpc[c].conn]]
    /\ dialer' = NoDial /\ cancelled' = FALSE /\ attempt' = [a \in Addresses |-> NotTried]
    /\ UNCHANGED <<conns, open, broken, tc, calls, stopped, closed>>

-----------------------------------------------------------------------------
(***************************************************************************)
(* RPCs                                                                    *)
(***************************************************************************)

(* The RPC, or the wait for a dial, ends with its context or with an answer *)
(* other than a transport error.                                            *)
EndRpc(c) ==
    /\ rpc[c].pc \in {"wait", "rpc"}
    /\ Step(c, "none", Nil)
    /\ UNCHANGED <<transportVars, calls, stopped, closed>>

Reset == open' = open \ {tc} /\ tc' = Nil

(* The connection is cut or another RPC has reset it.                       *)
TransportError(c) ==
    /\ rpc[c].pc = "rpc" /\ rpc[c].conn \notin open \ broken
    /\ Reset /\ Step(c, "none", Nil)
    /\ UNCHANGED <<conns, broken, dialer, cancelled, attempt, calls, stopped, closed>>

Cut(n) ==
    /\ n \in open \ broken
    /\ broken' = broken \cup {n}
    /\ UNCHANGED <<conns, open, tc, dialer, cancelled, attempt, rpc, calls, stopped, closed>>

StopThreads ==
    /\ ~stopped /\ stopped' = TRUE
    /\ UNCHANGED <<transportVars, rpc, calls, closed>>

Drained == \A c \in Callers \ Untracked : rpc[c] = NoRpc

CloseClient ==
    /\ stopped /\ ~closed /\ Drained
    /\ closed' = TRUE /\ Reset
    /\ UNCHANGED <<conns, broken, dialer, cancelled, attempt, rpc, calls, stopped>>

DialStep == DialTimeout \/ DialResult \/ EndDial \/ \E a \in Addresses : ConnectFails(a) \/ CacheTransport(a)

ClientNext ==
    \/ \E c \in Callers :
          \/ StartRpc(c) \/ UseCached(c) \/ WaitForDial(c) \/ StartDial(c)
          \/ EndRpc(c) \/ TransportError(c)
    \/ \E a \in Addresses : TryAddress(a) \/ Connect(a)
    \/ \E n \in Conns : Cut(n)
    \/ DialStep \/ StopThreads \/ CloseClient

ClientSpec == ClientInit /\ [][ClientNext]_clientVars

-----------------------------------------------------------------------------
(***************************************************************************)
(* Properties                                                              *)
(***************************************************************************)

(* No connection is lost sight of: an open one is cached or still held by   *)
(* the dial that made it, whatever resets, timeouts and second addresses    *)
(* came in between (transport.dial, reset).                                 *)
NoLostConnection ==
    open \subseteq {tc} \cup {attempt[a].conn : a \in Addresses}

(* After Close no connection is open and none is opened: no RPC that is in  *)
(* the threadgroup dials again after it (Close).                            *)
NothingOpenAfterClose == closed => open = {}

(* An RPC that waits for a dial has one to wait for: the one that dials     *)
(* wakes all others, also when it failed or its transport was reset right   *)
(* away, and nobody begins to wait for a dial that is over.                 *)
WaitersHaveDial == \A c \in Callers : rpc[c].pc = "wait" => dialer # NoDial

(* The three together: whatever RPCs, dials, resets and Close do to each    *)
(* other, no connection leaks and no waiter is forgotten.                   *)
ClientSound == NoLostConnection /\ NothingOpenAfterClose /\ WaitersHaveDial
=============================================================================
