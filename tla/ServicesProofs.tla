---------------------------- MODULE ServicesProofs ----------------------------
(***************************************************************************)
(* Proofs about the services around the slabs: connections to hosts        *)
(* (HostClient), their scans (Hosts), the funding of accounts (Funding),   *)
(* application keys (AppKeys), object events (ObjectEvents) and statistics *)
(* (StatsDeltas), each with its inductive invariant.                       *)
(***************************************************************************)
EXTENDS HostClient, Hosts, Funding, AppKeys, ObjectEvents, StatsDeltas, FiniteSetTheorems,
        SequenceTheorems, WellFoundedInduction, TLAPS

(***************************************************************************)
(* The connections to a host (HostClient)                                  *)
(***************************************************************************)

(* The types the argument needs; connections are numbered from 1.           *)
ClientTypes ==
    /\ conns \in Nat /\ open \subseteq 1..conns /\ tc \in Nat
    /\ dialer \in Callers \cup {NoDial}
    /\ attempt \in [Addresses -> [state : {"not tried", "dialing", "connected", "done"}, conn : Nat]]
    /\ rpc \in [Callers -> [pc : {"none", "transport", "wait", "dial", "dialed", "rpc"}, conn : Nat]]
    /\ stopped \in BOOLEAN /\ closed \in BOOLEAN

(* One RPC dials: the one dialCh belongs to.                                *)
OneDialer ==
    /\ \A c \in Callers : rpc[c].pc \in {"dial", "dialed"} => dialer = c
    /\ dialer # NoDial => rpc[dialer].pc \in {"dial", "dialed"}

(* Only an address that has just connected holds a connection, and only     *)
(* while the dial goes on.                                                  *)
DialHolds ==
    /\ \A a \in Addresses : attempt[a].state # "connected" => attempt[a].conn = Nil
    /\ \A a \in Addresses : attempt[a].state \in {"dialing", "connected"} =>
          dialer # NoDial /\ rpc[dialer].pc = "dial"

(* When every RPC is in the threadgroup, none is left after Close.          *)
ClosedIsDrained == closed /\ Untracked = {} => stopped /\ \A c \in Callers : rpc[c] = NoRpc

(* NothingOpenAfterClose, if every RPC is in the threadgroup.               *)
ClosedIsEmpty == closed /\ Untracked = {} => open = {}

ClientInv ==
    /\ ClientTypes /\ OneDialer /\ DialHolds /\ NoLostConnection /\ WaitersHaveDial
    /\ ClosedIsDrained /\ ClosedIsEmpty

(* To begin with there is no connection and no RPC.                         *)
LEMMA ClientInitHolds == ClientInit => ClientInv
<1> SUFFICES ASSUME ClientInit PROVE ClientInv
  OBVIOUS
<1>1. ClientTypes
  BY DEF ClientInit, ClientTypes, NotTried, NoRpc, Nil
<1>2. /\ dialer = NoDial /\ open = {} /\ closed = FALSE
      /\ \A a \in Addresses : attempt[a] = NotTried
      /\ \A c \in Callers : rpc[c] = NoRpc
  BY DEF ClientInit
<1>3. NotTried.state = "not tried" /\ NotTried.conn = Nil /\ NoRpc.pc = "none"
  BY DEF NotTried, NoRpc
<1>4. OneDialer /\ DialHolds /\ WaitersHaveDial
  BY <1>2, <1>3 DEF OneDialer, DialHolds, WaitersHaveDial
<1>5. NoLostConnection /\ ClosedIsDrained /\ ClosedIsEmpty
  BY <1>2 DEF NoLostConnection, ClosedIsDrained, ClosedIsEmpty
<1> QED BY <1>1, <1>4, <1>5 DEF ClientInv

(* An RPC that takes a step of its own and leaves the transport alone.      *)
LEMMA RpcStep ==
    ASSUME ClientInv, NEW c \in Callers,
           \/ StartRpc(c) \/ UseCached(c) \/ WaitForDial(c) \/ EndRpc(c)
    PROVE  ClientInv'
<1>1. UNCHANGED <<conns, open, broken, tc, dialer, cancelled, attempt, closed, stopped>>
  BY DEF StartRpc, UseCached, WaitForDial, EndRpc, transportVars
<1>2. PICK pc \in {"none", "transport", "wait", "rpc"}, n \in Nat :
         /\ rpc' = [rpc EXCEPT ![c] = [pc |-> pc, conn |-> n]]
         /\ pc = "wait" => dialer # NoDial
         /\ pc = "none" => n = Nil
  BY DEF StartRpc, UseCached, WaitForDial, EndRpc, Step, ClientInv, ClientTypes, Nil
<1>3. rpc[c].pc \notin {"dial", "dialed"}
  BY DEF StartRpc, UseCached, WaitForDial, EndRpc, NoRpc
<1>4. ClientTypes'
  BY <1>1, <1>2 DEF ClientInv, ClientTypes
<1>5. \A d \in Callers : d # c => rpc'[d] = rpc[d]
  BY <1>2 DEF ClientInv, ClientTypes
<1>6. rpc'[c] = [pc |-> pc, conn |-> n] /\ rpc'[c].pc = pc
  BY <1>2 DEF ClientInv, ClientTypes
<1>7. dialer # c /\ (dialer # NoDial => rpc'[dialer] = rpc[dialer])
  <2>1. c # NoDial
    BY ClientAssumption
  <2>2. dialer # c
    BY <1>3, <2>1 DEF ClientInv, OneDialer
  <2> QED BY <1>5, <2>2 DEF ClientInv, ClientTypes
<1>8. OneDialer' /\ DialHolds'
  BY <1>1, <1>5, <1>6, <1>7 DEF ClientInv, OneDialer, DialHolds
<1>9. NoLostConnection' /\ WaitersHaveDial' /\ ClosedIsEmpty'
  BY <1>1, <1>2, <1>5, <1>6 DEF ClientInv, NoLostConnection, WaitersHaveDial, ClosedIsEmpty
<1>10. ClosedIsDrained'
  <2> SUFFICES ASSUME closed, Untracked = {} PROVE stopped /\ \A d \in Callers : rpc'[d] = NoRpc
    BY <1>1 DEF ClosedIsDrained
  <2>1. stopped /\ \A d \in Callers : rpc[d] = NoRpc
    BY DEF ClientInv, ClosedIsDrained
  <2>2. NoRpc.pc = "none"
    BY DEF NoRpc
  <2>3. FALSE
    BY <2>1, <2>2 DEF StartRpc, UseCached, WaitForDial, EndRpc
  <2> QED BY <2>3
<1> QED BY <1>4, <1>8, <1>9, <1>10 DEF ClientInv

(* Connections are numbered from 1.                                         *)
LEMMA Numbered ==
    ASSUME ClientInv
    PROVE  \A m \in open : m \in 1..conns /\ m \in Nat /\ m # Nil
<1>1. conns \in Nat /\ open \subseteq 1..conns
  BY DEF ClientInv, ClientTypes
<1> QED BY <1>1 DEF Nil

(* When no address holds a connection, all that can be open is what is      *)
(* cached, and stays in sight.                                              *)
LEMMA NoneHeld ==
    ASSUME ClientInv, \A a \in Addresses : attempt[a].conn = Nil,
           open' = open, tc' = tc
    PROVE  NoLostConnection'
<1>1. open \subseteq {tc}
  BY Numbered DEF ClientInv, NoLostConnection
<1> QED BY <1>1 DEF NoLostConnection

(* dial starts with no address tried.                                       *)
LEMMA StartDialStep ==
    ASSUME ClientInv, NEW c \in Callers, StartDial(c)
    PROVE  ClientInv'
<1>1. /\ rpc[c].pc = "transport" /\ dialer = NoDial /\ dialer' = c
      /\ rpc' = [rpc EXCEPT ![c] = [pc |-> "dial", conn |-> Nil]]
      /\ attempt' = [a \in Addresses |-> NotTried]
      /\ UNCHANGED <<conns, open, tc, stopped, closed>>
  BY DEF StartDial, Step
<1>2. ClientTypes'
  BY <1>1 DEF ClientInv, ClientTypes, NotTried, Nil
<1>3. rpc'[c].pc = "dial" /\ \A d \in Callers : d # c => rpc'[d] = rpc[d]
  BY <1>1 DEF ClientInv, ClientTypes
<1>4. OneDialer'
  <2>1. \A d \in Callers : d # c => rpc'[d].pc \notin {"dial", "dialed"}
    BY <1>1, <1>3, ClientAssumption DEF ClientInv, OneDialer
  <2> QED BY <1>1, <1>3, <2>1 DEF OneDialer
<1>5. \A a \in Addresses : /\ attempt[a].conn = Nil
                          /\ attempt'[a].state = "not tried" /\ attempt'[a].conn = Nil
  BY <1>1 DEF ClientInv, DialHolds, NotTried
<1>6. DialHolds' /\ NoLostConnection'
  BY <1>1, <1>5, NoneHeld DEF ClientInv, DialHolds
<1>7. WaitersHaveDial'
  BY <1>1, ClientAssumption DEF WaitersHaveDial
<1>8. ~(closed /\ Untracked = {})
  BY <1>1 DEF ClientInv, ClosedIsDrained, NoRpc
<1> QED BY <1>1, <1>2, <1>4, <1>6, <1>7, <1>8 DEF ClientInv, ClosedIsDrained, ClosedIsEmpty

(* An address moves on to state s, holding connection n.                    *)
LEMMA AttemptStep ==
    ASSUME ClientInv, NEW a \in Addresses,
           NEW s \in {"dialing", "connected", "done"}, NEW n \in Nat,
           UNCHANGED <<dialer, rpc, stopped, closed>>,
           dialer # NoDial, rpc[dialer].pc = "dial",
           attempt' = [attempt EXCEPT ![a] = [state |-> s, conn |-> n]],
           s # "connected" => n = Nil,
           conns' \in Nat, tc' \in Nat, open' \subseteq 1..conns',
           \A m \in open' : \/ m \in open /\ (m = attempt[a].conn => m = tc')
                            \/ m = n,
           tc \in {Nil, tc'}
    PROVE  ClientInv'
<1>1. /\ attempt'[a] = [state |-> s, conn |-> n]
      /\ \A b \in Addresses : b # a => attempt'[b] = attempt[b]
  BY DEF ClientInv, ClientTypes
<1>2. ClientTypes'
  BY DEF ClientInv, ClientTypes
<1>3. OneDialer' /\ WaitersHaveDial'
  BY DEF ClientInv, OneDialer, WaitersHaveDial
<1>4. DialHolds'
  BY <1>1 DEF ClientInv, DialHolds
<1>5. NoLostConnection'
  <2> SUFFICES ASSUME NEW m \in open'
               PROVE  m = tc' \/ \E b \in Addresses : m = attempt'[b].conn
    BY DEF NoLostConnection
  <2>1. CASE m = n
    BY <1>1, <2>1
  <2>2. CASE m # n
    <3>1. m \in open /\ (m = attempt[a].conn => m = tc') /\ m # Nil
      BY <2>2, Numbered
    <3>2. m = tc \/ \E b \in Addresses : m = attempt[b].conn
      BY <3>1 DEF ClientInv, NoLostConnection
    <3> QED BY <1>1, <3>1, <3>2
  <2> QED BY <2>1, <2>2
<1>6. dialer \in Callers
  BY DEF ClientInv, ClientTypes
<1>7. ~(closed /\ Untracked = {})
  BY <1>6 DEF ClientInv, ClosedIsDrained, NoRpc
<1> QED BY <1>2, <1>3, <1>4, <1>5, <1>7 DEF ClientInv, ClosedIsDrained, ClosedIsEmpty

(* The steps of a dial on one address.                                      *)
LEMMA AddressStep ==
    ASSUME ClientInv, NEW a \in Addresses,
           TryAddress(a) \/ Connect(a) \/ ConnectFails(a) \/ CacheTransport(a)
    PROVE  ClientInv'
<1>1. UNCHANGED <<dialer, rpc, stopped, closed>>
  BY DEF TryAddress, Connect, ConnectFails, CacheTransport
<1>2. dialer # NoDial /\ rpc[dialer].pc = "dial"
  BY DEF TryAddress, Connect, ConnectFails, CacheTransport, Tries, ClientInv, DialHolds
<1>3. /\ conns \in Nat /\ tc \in Nat /\ attempt[a].conn \in Nat
      /\ \A m \in open : m \in 1..conns /\ m \in 1..(conns + 1) /\ m # Nil
  <2>1. conns \in Nat /\ tc \in Nat /\ attempt[a].conn \in Nat
    BY DEF ClientInv, ClientTypes
  <2> QED BY <2>1, Numbered
<1>4. CASE TryAddress(a) \/ ConnectFails(a)
  <2>1. PICK s \in {"dialing", "done"} :
           attempt' = [attempt EXCEPT ![a] = [state |-> s, conn |-> Nil]]
    BY <1>4 DEF TryAddress, ConnectFails, SetAttempt
  <2>2. attempt[a].conn = Nil
    BY <1>4 DEF TryAddress, ConnectFails, Tries, ClientInv, DialHolds
  <2>3. UNCHANGED <<conns, open, tc>>
    BY <1>4 DEF TryAddress, ConnectFails
  <2>4. \A m \in open : m # attempt[a].conn
    BY <1>3, <2>2
  <2> QED BY <1>1, <1>2, <1>3, <2>1, <2>3, <2>4, AttemptStep DEF Nil
<1>5. CASE Connect(a)
  <2>1. conns' = conns + 1 /\ tc' = tc /\ conns + 1 \in Nat
    BY <1>3, <1>5 DEF Connect
  <2>2. attempt[a].conn = Nil
    BY <1>5 DEF Connect, Tries, ClientInv, DialHolds
  <2>3. \A m \in open : m # attempt[a].conn
    BY <1>3, <2>2
  <2>4. CASE attempt' = [attempt EXCEPT ![a] = [state |-> "done", conn |-> Nil]] /\ open' = open
    BY <1>1, <1>2, <1>3, <2>1, <2>3, <2>4, AttemptStep DEF Nil
  <2>5. CASE /\ attempt' = [attempt EXCEPT ![a] = [state |-> "connected", conn |-> conns + 1]]
             /\ open' = open \cup {conns + 1}
    <3>1. open' \subseteq 1..conns'
      BY <1>3, <2>1, <2>5
    <3> QED BY <1>1, <1>2, <1>3, <2>1, <2>3, <2>5, <3>1, AttemptStep
  <2> QED BY <1>5, <2>1, <2>4, <2>5 DEF Connect, SetAttempt
<1>6. CASE CacheTransport(a)
  <2>1. attempt' = [attempt EXCEPT ![a] = [state |-> "done", conn |-> Nil]] /\ conns' = conns
    BY <1>6 DEF CacheTransport, SetAttempt
  <2>2. CASE tc = Nil /\ tc' = attempt[a].conn /\ open' = open
    BY <1>1, <1>2, <1>3, <2>1, <2>2, AttemptStep DEF Nil
  <2>3. CASE open' = open \ {attempt[a].conn} /\ tc' = tc
    BY <1>1, <1>2, <1>3, <2>1, <2>3, AttemptStep DEF Nil
  <2> QED BY <1>6, <2>2, <2>3 DEF CacheTransport, CacheOrClose
<1> QED BY <1>4, <1>5, <1>6

(* The end of a dial: no address holds a connection any more.               *)
LEMMA DialEnds ==
    ASSUME ClientInv, DialResult \/ EndDial
    PROVE  ClientInv'
<1>1. CASE DialResult
  <2>1. /\ dialer # NoDial /\ dialer \in Callers /\ rpc[dialer].pc = "dial"
        /\ Tries("dialing") \cup Tries("connected") = {}
        /\ rpc' = [rpc EXCEPT ![dialer] = [pc |-> "dialed", conn |-> tc]]
        /\ UNCHANGED <<conns, open, tc, dialer, attempt, stopped, closed>>
    BY <1>1 DEF DialResult, Step, transportVars, ClientInv, ClientTypes
  <2>2. \A a \in Addresses : attempt[a].state \notin {"dialing", "connected"}
    BY <2>1 DEF Tries
  <2>3. ClientTypes'
    BY <2>1 DEF ClientInv, ClientTypes
  <2>4. rpc'[dialer].pc = "dialed" /\ \A c \in Callers : c # dialer => rpc'[c] = rpc[c]
    BY <2>1 DEF ClientInv, ClientTypes
  <2>5. OneDialer' /\ DialHolds'
    BY <2>1, <2>2, <2>4 DEF ClientInv, OneDialer, DialHolds
  <2>6. NoLostConnection' /\ WaitersHaveDial'
    BY <2>1 DEF ClientInv, NoLostConnection, WaitersHaveDial
  <2>7. ~(closed /\ Untracked = {})
    BY <2>1 DEF ClientInv, ClosedIsDrained, NoRpc
  <2> QED BY <2>1, <2>3, <2>5, <2>6, <2>7 DEF ClientInv, ClosedIsDrained, ClosedIsEmpty
<1>2. CASE EndDial
  <2>1. /\ dialer # NoDial /\ dialer \in Callers /\ rpc[dialer].pc = "dialed" /\ dialer' = NoDial
        /\ rpc' = [c \in Callers |->
              IF c # dialer THEN [pc |-> Woken(c), conn |-> rpc[c].conn]
              ELSE IF rpc[c].conn = Nil THEN NoRpc ELSE [pc |-> "rpc", conn |-> rpc[c].conn]]
        /\ attempt' = [a \in Addresses |-> NotTried]
        /\ UNCHANGED <<conns, open, tc, stopped, closed>>
    BY <1>2 DEF EndDial, ClientInv, ClientTypes
  <2>2. \A a \in Addresses : attempt[a].conn = Nil /\ attempt'[a] = NotTried
    BY <2>1 DEF ClientInv, DialHolds
  <2>3. ASSUME NEW c \in Callers
        PROVE  /\ rpc'[c] \in [pc : {"none", "transport", "wait", "dial", "dialed", "rpc"}, conn : Nat]
               /\ rpc'[c].pc \notin {"dial", "dialed", "wait"}
    <3>1. /\ rpc[c] \in [pc : {"none", "transport", "wait", "dial", "dialed", "rpc"}, conn : Nat]
          /\ c # dialer => rpc[c].pc \notin {"dial", "dialed"}
      BY DEF ClientInv, ClientTypes, OneDialer
    <3>2. CASE c # dialer
      BY <2>1, <3>1, <3>2 DEF Woken
    <3>3. CASE c = dialer
      BY <2>1, <3>1, <3>3 DEF NoRpc, Nil
    <3> QED BY <3>2, <3>3
  <2>4. ClientTypes'
    <3>1. rpc' \in [Callers -> [pc : {"none", "transport", "wait", "dial", "dialed", "rpc"}, conn : Nat]]
      BY <2>1, <2>3
    <3> QED BY <2>1, <3>1 DEF ClientInv, ClientTypes, NotTried, Nil
  <2>5. OneDialer' /\ WaitersHaveDial'
    BY <2>1, <2>3 DEF OneDialer, WaitersHaveDial
  <2>6. DialHolds'
    <3>1. \A a \in Addresses : attempt'[a].state = "not tried" /\ attempt'[a].conn = Nil
      <4>1. NotTried.state = "not tried" /\ NotTried.conn = Nil
        BY DEF NotTried
      <4> QED BY <2>2, <4>1
    <3> QED BY <3>1 DEF DialHolds
  <2>7. NoLostConnection'
    BY <2>1, <2>2, NoneHeld
  <2>8. ~(closed /\ Untracked = {})
    BY <2>1 DEF ClientInv, ClosedIsDrained, NoRpc
  <2> QED BY <2>1, <2>4, <2>5, <2>6, <2>7, <2>8 DEF ClientInv, ClosedIsDrained, ClosedIsEmpty
<1> QED BY <1>1, <1>2

(* reset, by an RPC that failed or by Close.                                *)
LEMMA ResetStep ==
    ASSUME ClientInv, (\E c \in Callers : TransportError(c)) \/ CloseClient
    PROVE  ClientInv'
<1>1. /\ open' = open \ {tc} /\ tc' = Nil
      /\ UNCHANGED <<conns, dialer, attempt, stopped>>
  BY DEF TransportError, CloseClient, Reset
<1>2. NoLostConnection'
  BY <1>1 DEF ClientInv, NoLostConnection
<1>3. ASSUME NEW c \in Callers, TransportError(c) PROVE ClientInv'
  <2>1. /\ rpc[c].pc = "rpc" /\ rpc' = [rpc EXCEPT ![c] = [pc |-> "none", conn |-> Nil]]
        /\ closed' = closed
    BY <1>3 DEF TransportError, Step
  <2>2. ClientTypes'
    BY <1>1, <2>1 DEF ClientInv, ClientTypes, Nil
  <2>3. rpc'[c].pc = "none" /\ \A d \in Callers : d # c => rpc'[d] = rpc[d]
    BY <2>1 DEF ClientInv, ClientTypes
  <2>4. dialer # c
    BY <2>1, ClientAssumption DEF ClientInv, OneDialer
  <2>5. OneDialer' /\ DialHolds' /\ WaitersHaveDial'
    BY <1>1, <2>3, <2>4 DEF ClientInv, ClientTypes, OneDialer, DialHolds, WaitersHaveDial
  <2>6. ~(closed /\ Untracked = {})
    BY <2>1 DEF ClientInv, ClosedIsDrained, NoRpc
  <2> QED BY <1>2, <2>1, <2>2, <2>5, <2>6 DEF ClientInv, ClosedIsDrained, ClosedIsEmpty
<1>4. CASE CloseClient
  <2>1. stopped /\ Drained /\ closed' = TRUE /\ rpc' = rpc
    BY <1>4 DEF CloseClient
  <2>2. ClientTypes'
    BY <1>1, <2>1 DEF ClientInv, ClientTypes, Nil
  <2>3. OneDialer' /\ DialHolds' /\ WaitersHaveDial'
    BY <1>1, <2>1 DEF ClientInv, OneDialer, DialHolds, WaitersHaveDial
  <2>4. ClosedIsDrained'
    BY <1>1, <2>1 DEF ClosedIsDrained, Drained
  <2>5. ClosedIsEmpty'
    <3> SUFFICES ASSUME Untracked = {} PROVE open' = {}
      BY DEF ClosedIsEmpty
    <3>1. \A c \in Callers : rpc[c].pc = "none"
      BY <2>1 DEF Drained, NoRpc
    <3>2. dialer = NoDial
      BY <3>1 DEF ClientInv, OneDialer, ClientTypes
    <3>3. \A a \in Addresses : attempt[a].conn = Nil
      BY <3>2 DEF ClientInv, DialHolds
    <3>4. Nil \notin open
      BY Numbered
    <3> QED BY <1>1, <3>3, <3>4 DEF ClientInv, NoLostConnection
  <2> QED BY <1>2, <2>2, <2>3, <2>4, <2>5 DEF ClientInv
<1> QED BY <1>3, <1>4

(* Every step keeps the invariant.                                          *)
LEMMA ClientNextHolds == ClientInv /\ [ClientNext]_clientVars => ClientInv'
<1> SUFFICES ASSUME ClientInv, [ClientNext]_clientVars PROVE ClientInv'
  OBVIOUS
<1>1. CASE DialTimeout \/ StopThreads \/ (\E n \in Conns : Cut(n)) \/ UNCHANGED clientVars
  <2>1. UNCHANGED <<conns, open, tc, dialer, attempt, rpc, closed>> /\ stopped' \in {stopped, TRUE}
    BY <1>1 DEF DialTimeout, StopThreads, Cut, clientVars, transportVars
  <2>2. ClientTypes'
    BY <2>1 DEF ClientInv, ClientTypes
  <2>3. OneDialer' /\ DialHolds' /\ NoLostConnection' /\ WaitersHaveDial' /\ ClosedIsEmpty'
    BY <2>1 DEF ClientInv, OneDialer, DialHolds, NoLostConnection, WaitersHaveDial, ClosedIsEmpty
  <2>4. ClosedIsDrained'
    BY <2>1 DEF ClientInv, ClosedIsDrained
  <2> QED BY <2>2, <2>3, <2>4 DEF ClientInv
<1> QED BY <1>1, RpcStep, StartDialStep, AddressStep, DialEnds, ResetStep DEF ClientNext, DialStep

(* The invariant behind the two theorems.                                   *)
THEOREM ClientInvariance == ClientSpec => []ClientInv
BY ClientInitHolds, ClientNextHolds, PTL DEF ClientSpec

(* Whatever RPCs, timeouts, second addresses and resets do to each other,   *)
(* dial and reset leak no connection, and an RPC that waits has a dial to   *)
(* wait for; for any number of RPCs and addresses.                          *)
THEOREM NothingLeaks == ClientSpec => [](NoLostConnection /\ WaitersHaveDial)
<1>1. ClientInv => NoLostConnection /\ WaitersHaveDial
  BY DEF ClientInv
<1> QED BY <1>1, ClientInvariance, PTL

(* If every RPC is in the threadgroup, nothing is open after Close either.  *)
THEOREM ClientIsSound ==
    ASSUME Untracked = {}
    PROVE  ClientSpec => []ClientSound
<1>1. ClientInv => ClientSound
  BY DEF ClientInv, ClientSound, ClosedIsEmpty, NothingOpenAfterClose
<1> QED BY <1>1, ClientInvariance, PTL

-----------------------------------------------------------------------------
(***************************************************************************)
(* Hosts: scanning and pruning                                             *)
(***************************************************************************)

(* The stored count of failing scans is the number of scans that have       *)
(* failed since the last success or import, whatever counts the scans in    *)
(* progress read when they started.                                         *)
ScansInv ==
    /\ known \subseteq HostKeys
    /\ missed \in [HostKeys -> Nat]
    /\ failedScans = missed

(* What a scan that ends does to the count, the loop's and a worker's.      *)
LEMMA ScanCounted ==
    ASSUME NEW h \in HostKeys, NEW read, NEW success \in BOOLEAN, ScansInv,
           UpdateHostScan(h, read, success)
    PROVE  missed' \in [HostKeys -> Nat] /\ failedScans' = missed'
<1>1. CASE h \notin known
  BY <1>1 DEF UpdateHostScan, ScansInv
<1>2. CASE h \in known /\ success
  <2>1. missed' = [missed EXCEPT ![h] = 0] /\ failedScans' = [failedScans EXCEPT ![h] = 0]
    BY <1>2 DEF UpdateHostScan
  <2> QED BY <2>1 DEF ScansInv
<1>3. CASE h \in known /\ ~success
  <2>1. /\ missed' = [missed EXCEPT ![h] = missed[h] + 1]
        /\ failedScans' = [failedScans EXCEPT ![h] = failedScans[h] + 1]
    BY <1>3 DEF UpdateHostScan, FailuresAfter
  <2>2. missed[h] + 1 \in Nat
    BY DEF ScansInv
  <2> QED BY <2>1, <2>2 DEF ScansInv
<1> QED BY <1>1, <1>2, <1>3

(* Counts only change with a scan that ends, an announcement of a host that *)
(* is not known and an import.                                              *)
LEMMA ScansInductive ==
    ASSUME ScansInv, [HostsNext]_hostsVars PROVE ScansInv'
<1>0. UNCHANGED <<known, missed, failedScans>> => ScansInv'
  BY DEF ScansInv
<1>1. CASE UNCHANGED hostsVars
  BY <1>0, <1>1 DEF hostsVars, hostRows
<1>2. ASSUME NEW h \in HostKeys, NewRow(h) PROVE ScansInv'
  BY <1>2 DEF NewRow, ScansInv
<1>3. ASSUME NEW h \in HostKeys,
             \/ AddHostAnnouncement(h) \/ ImportHost(h) \/ LongDowntime(h)
             \/ BlockBadHost(h) \/ BlockManually(h) \/ UnblockHost(h)
             \/ AddFormedContract(h) \/ FormationFails(h) \/ ContractEnds(h)
      PROVE  ScansInv'
  <2>1. CASE AddHostAnnouncement(h)
    BY <1>0, <1>2, <2>1 DEF AddHostAnnouncement
  <2>2. CASE ImportHost(h)
    BY <1>2, <2>2 DEF ImportHost
  <2>3. CASE LongDowntime(h)
    BY <1>0, <2>3 DEF LongDowntime
  <2>4. CASE BlockBadHost(h) \/ BlockManually(h) \/ UnblockHost(h)
    BY <1>0, <2>4 DEF BlockBadHost, BlockManually, UnblockHost, hostRows
  <2>5. CASE AddFormedContract(h) \/ FormationFails(h) \/ ContractEnds(h)
    BY <1>0, <2>5 DEF AddFormedContract, FormationFails, ContractEnds, hostRows
  <2> QED BY <1>3, <2>1, <2>2, <2>3, <2>4, <2>5
<1>4. CASE PruneHosts
  BY <1>4 DEF PruneHosts, ScansInv
<1>5. CASE Tick \/ SetStuckHosts
  BY <1>0, <1>5 DEF Tick, SetStuckHosts
<1>6. CASE HostsForScanning \/ ListUsableBlocked \/ RemoveBlocklistReasons
  BY <1>0, <1>6 DEF HostsForScanning, ListUsableBlocked, RemoveBlocklistReasons, hostRows
<1>7. CASE ListBadHosts \/ ListGoodHosts
  BY <1>0, <1>7 DEF ListBadHosts, ListGoodHosts, hostRows
<1>8. CASE ScanStep
  <2>1. PICK h \in HostKeys :
            \/ StartScan(h) \/ AbortScan(h) \/ AbortWorkerScan(h) \/ ScanHost(h)
            \/ \E success \in BOOLEAN : FinishScan(h, success) \/ FinishWorkerScan(h, success)
    BY <1>8 DEF ScanStep
  <2>2. CASE StartScan(h) \/ AbortScan(h) \/ AbortWorkerScan(h) \/ ScanHost(h)
    BY <1>0, <2>2 DEF StartScan, AbortScan, AbortWorkerScan, ScanHost, hostRows
  <2>3. ASSUME NEW success \in BOOLEAN, FinishScan(h, success) PROVE ScansInv'
    <3>1. UpdateHostScan(h, loopScan[h], success) /\ known' = known
      BY <2>3 DEF FinishScan
    <3>2. missed' \in [HostKeys -> Nat] /\ failedScans' = missed'
      BY <3>1, ScanCounted
    <3> QED BY <3>1, <3>2 DEF ScansInv
  <2>4. ASSUME NEW success \in BOOLEAN, FinishWorkerScan(h, success) PROVE ScansInv'
    <3>1. UpdateHostScan(h, workerScan[h], success) /\ known' = known
      BY <2>4 DEF FinishWorkerScan
    <3>2. missed' \in [HostKeys -> Nat] /\ failedScans' = missed'
      BY <3>1, ScanCounted
    <3> QED BY <3>1, <3>2 DEF ScansInv
  <2> QED BY <2>1, <2>2, <2>3, <2>4
<1>9. ASSUME NEW b \in Blockers, BlockWrite(b) PROVE ScansInv'
  BY <1>0, <1>9 DEF BlockWrite, hostRows
<1> QED BY <1>1, <1>3, <1>4, <1>5, <1>6, <1>7, <1>8, <1>9 DEF HostsNext

(* Nothing but PruneHosts forgets a host.                                   *)
LEMMA OnlyPruneForgets ==
    ASSUME ScansInv, [HostsNext]_hostsVars, NEW h \in known, h \notin known'
    PROVE  PruneHosts
<1>1. known \subseteq known' \/ PruneHosts
  BY DEF HostsNext, hostsVars, hostRows, AddHostAnnouncement, ImportHost, NewRow, LongDowntime,
         BlockBadHost, BlockManually, UnblockHost, AddFormedContract, FormationFails, ContractEnds,
         Tick, HostsForScanning, ScanStep, StartScan, AbortScan, AbortWorkerScan, ScanHost,
         FinishScan, FinishWorkerScan, ListUsableBlocked, RemoveBlocklistReasons,
         ListBadHosts, ListGoodHosts, SetStuckHosts, BlockWrite
<1> QED BY <1>1

(* The count of failing scans is exact in every state, for any number of    *)
(* hosts, scan threads and concurrent scans (UpdateHostScan).               *)
THEOREM ScansAreCounted == HostsSpec => []ScansInv
<1>1. HostsInit => ScansInv
  BY DEF HostsInit, ScansInv
<1>2. ScansInv /\ [HostsNext]_hostsVars => ScansInv'
  BY ScansInductive
<1> QED BY <1>1, <1>2, PTL DEF HostsSpec

(* A host is only forgotten after PruneFailures failed scans in a row since *)
(* its last success or import, and without a contract, however the scans of *)
(* the loop and of the workers overlap (PruneHosts, UpdateHostScan).        *)
THEOREM HostsPrunedAfterFailures == HostsSpec => PrunedAfterFailures
<1>1. ASSUME ScansInv, [HostsNext]_hostsVars, NEW h \in HostKeys, h \in known, h \notin known'
      PROVE  missed[h] >= PruneFailures /\ contract[h] = "none"
  <2>1. PruneHosts
    BY <1>1, OnlyPruneForgets
  <2>2. Prunable(h)
    BY <1>1, <2>1 DEF PruneHosts
  <2> QED BY <1>1, <2>2 DEF Prunable, ScansInv
<1>2. ScansInv /\ [HostsNext]_hostsVars =>
        [\A h \in HostKeys : h \in known /\ h \notin known' =>
            missed[h] >= PruneFailures /\ contract[h] = "none"]_hostsVars
  BY <1>1
<1> QED BY <1>2, ScansAreCounted, PTL DEF HostsSpec, PrunedAfterFailures

-----------------------------------------------------------------------------
(***************************************************************************)
(* Funding: the inductive invariant                                        *)
(***************************************************************************)

FundTypes ==
    /\ failedFunds \in [Pools -> Nat] /\ full \subseteq Pools
    /\ funds \in [FundContracts -> Nat]
    /\ ids \in Seq(FundContracts)
    /\ later \in Seq(Pools)
    /\ tried \in Nat /\ funded \in Nat /\ drained \in Nat

(* A group is funded with a target that is not zero, and the counts stay    *)
(* within the contracts and the pools they count.                           *)
GroupInv ==
    /\ batch \in Seq(IF group = "service" THEN {"service"} ELSE Pools)
    /\ funded <= Len(batch) /\ drained <= tried /\ tried <= Len(ids)
    /\ fundPc \in {"fetch", "split"} => quota \in FundQuotas
    /\ fundPc = "fund" => Target \in Nat \ {0}
    /\ fundPc = "fund" /\ group # "service" => quota \in FundQuotas
    /\ fundPc # "fund" => group = "none" /\ funded = 0

(* What a request credited exists on the host; a row without failures is of *)
(* a pool that was credited once.                                           *)
CreatedInv ==
    /\ credited \subseteq created
    /\ \A p \in Pools : Attachable(p) => p \in created

FundInv == FundTypes /\ GroupInv /\ CreatedInv /\ FundingSound

-----------------------------------------------------------------------------
(***************************************************************************)
(* Arithmetic and sequences                                                *)
(***************************************************************************)

(* A nonempty set of numbers has a least one.                               *)
LEMMA LeastNat ==
    ASSUME NEW T, T \subseteq Nat, T # {} PROVE \E n \in T : \A k \in T : n <= k
<1>1. PICK n \in T : \A k \in T : ~(<<k, n>> \in OpToRel(<, Nat))
  BY NatLessThanWellFounded, WFMin, Zenon
<1>2. \A k \in T : ~(k < n)
  BY <1>1 DEF OpToRel
<1> QED BY <1>2

LEMMA MinOfTwo ==
    ASSUME NEW a \in Int, NEW b \in Int PROVE Min({a, b}) = IF a <= b THEN a ELSE b
BY DEF Min

LEMMA MaxOfTwo ==
    ASSUME NEW a \in Int, NEW b \in Int PROVE Max({a, b}) = IF a >= b THEN a ELSE b
BY DEF Max

(* As many targets as fit into what is left cost no more than that.         *)
LEMMA PartsFit ==
    ASSUME NEW left \in Nat, NEW target \in Nat \ {0}, NEW n \in Nat, n <= left \div target
    PROVE  n * target <= left
<1>1. left \div target \in Nat /\ (left \div target) * target <= left
  OBVIOUS
<1>2. n * target <= (left \div target) * target
  BY <1>1
<1> QED BY <1>1, <1>2

LEMMA PermutationsAreSequences ==
    ASSUME NEW S, IsFiniteSet(S), NEW t \in SetToSeqs(S) PROVE t \in Seq(S)
<1>1. Cardinality(S) \in Nat
  BY FS_CardinalityType
<1>2. t \in [1..Cardinality(S) -> S]
  BY DEF SetToSeqs
<1> QED BY <1>1, <1>2

(* The elements of a sequence up to some index.                             *)
LEMMA FirstOnes ==
    ASSUME NEW S, NEW s \in Seq(S), NEW m \in Nat, NEW n \in Nat, m <= n, n <= Len(s)
    PROVE  /\ Len(SubSeq(s, m + 1, n)) = n - m
           /\ SubSeq(s, m + 1, n) \in Seq(S)
           /\ ToSet(SubSeq(s, m + 1, n)) = {s[i] : i \in (m + 1)..n}
<1> DEFINE t == SubSeq(s, m + 1, n)
<1>1. \A i \in (m + 1)..n : s[i] \in S
  OBVIOUS
<1>2. /\ t \in Seq(S) /\ Len(t) = n - m
      /\ \A i \in 1..(n - m) : t[i] = s[m + i]
  BY <1>1, SubSeqProperties
<1> HIDE DEF t
<1>3. DOMAIN t = 1..(n - m)
  BY <1>2
<1>4. \A i \in (m + 1)..n : i - m \in 1..(n - m) /\ t[i - m] = s[i]
  BY <1>2
<1>5. \A j \in 1..(n - m) : m + j \in (m + 1)..n
  OBVIOUS
<1>6. ToSet(t) = {s[i] : i \in (m + 1)..n}
  <2>1. ASSUME NEW i \in (m + 1)..n PROVE s[i] \in ToSet(t)
    BY <1>3, <1>4 DEF ToSet
  <2>2. ASSUME NEW j \in 1..(n - m) PROVE t[j] \in {s[i] : i \in (m + 1)..n}
    BY <1>2, <1>5
  <2>3. \A x \in ToSet(t) : \E j \in 1..(n - m) : x = t[j]
    BY <1>3 DEF ToSet
  <2> QED BY <2>1, <2>2, <2>3
<1> QED BY <1>2, <1>6 DEF t

-----------------------------------------------------------------------------
(***************************************************************************)
(* Steps                                                                   *)
(***************************************************************************)

(* The pools counted as funded are those up to the count.                   *)
LEMMA FundedOnes ==
    ASSUME FundInv PROVE Funded = {batch[i] : i \in 1..funded}
<1>1. PICK S : batch \in Seq(S)
  BY DEF FundInv, GroupInv
<1>2. funded \in Nat /\ funded <= Len(batch) /\ 0 + 1 = 1
  BY DEF FundInv, GroupInv, FundTypes
<1>3. ToSet(SubSeq(batch, 0 + 1, funded)) = {batch[i] : i \in (0 + 1)..funded}
  BY <1>1, <1>2, FirstOnes
<1> QED BY <1>2, <1>3 DEF Funded

LEMMA NothingFunded ==
    ASSUME funded' = 0 PROVE Funded' = {}
<1>1. SubSeq(batch', 1, 0) = <<>>
  BY SubSeqEmpty
<1> QED BY <1>1 DEF Funded, ToSet

(* A step that leaves the group alone.                                      *)
LEMMA IdleKeeps ==
    ASSUME FundInv, Idle, fundPc' = "attach", UNCHANGED <<full, funds, created, attaching>>,
           failedFunds' \in [Pools -> Nat], \A p \in Pools : Attachable(p)' => p \in created
    PROVE  FundInv'
<1>1. FundTypes'
  BY DEF FundInv, FundTypes, Idle
<1>2. GroupInv'
  BY DEF GroupInv, Idle
<1>3. CreatedInv'
  BY DEF CreatedInv, Idle
<1>4. FundingSound'
  BY NothingFunded DEF FundInv, FundingSound, FundedWasCredited, AttachedWasCreated, NeverOverdrawn, Idle
<1> QED BY <1>1, <1>2, <1>3, <1>4 DEF FundInv

LEMMA StartStep ==
    ASSUME FundInv, StartFunding PROVE FundInv'
<1> USE FundingAssumption
<1>1. PICK cs \in SetToSeqs({c \in FundContracts : HasFunds(c)}) :
          /\ fundPc' = "fund" /\ ids' = cs /\ quota' = 0 /\ exhausted' = TRUE
          /\ group' = "service" /\ batch' = <<"service">> /\ later' = <<>>
          /\ tried' = 0 /\ funded' = 0 /\ drained' = 0 /\ credited' = {}
  BY DEF StartFunding
<1>2. UNCHANGED <<nextFund, failedFunds, attached, funds, created, full, attaching>>
  BY DEF StartFunding, rowVars, hostSide
<1>3. IsFiniteSet({c \in FundContracts : HasFunds(c)})
  BY FS_Subset
<1>4. cs \in Seq({c \in FundContracts : HasFunds(c)})
  BY <1>3, PermutationsAreSequences
<1>5. cs \in Seq(FundContracts)
  BY <1>4
<1>6. \A p \in Pools : Attachable(p)' => p \in created
  BY <1>2 DEF FundInv, CreatedInv, Attachable
<1>7. FundTypes'
  BY <1>1, <1>2, <1>5 DEF FundInv, FundTypes
<1>8. GroupInv'
  <2>1. <<"service">> \in Seq({"service"}) /\ Len(<<"service">>) = 1
    OBVIOUS
  <2>2. Len(cs) \in Nat /\ ServiceTarget \in Nat \ {0}
    BY <1>5
  <2>3. batch' \in Seq(IF group' = "service" THEN {"service"} ELSE Pools)
    BY <1>1, <2>1
  <2>4. funded' <= Len(batch') /\ drained' <= tried' /\ tried' <= Len(ids')
    BY <1>1, <2>1, <2>2
  <2>5. Target' = ServiceTarget
    BY <1>1 DEF Target
  <2> QED BY <1>1, <2>2, <2>3, <2>4, <2>5 DEF GroupInv
<1>9. CreatedInv'
  BY <1>1, <1>2, <1>6 DEF CreatedInv
<1>10. FundingSound'
  BY <1>1, <1>2, NothingFunded
     DEF FundInv, FundingSound, FundedWasCredited, AttachedWasCreated, NeverOverdrawn
<1> QED BY <1>7, <1>8, <1>9, <1>10 DEF FundInv

LEMMA SkipStep ==
    ASSUME FundInv, SkipFunding PROVE FundInv'
<1>1. /\ fundPc' = "attach" /\ Idle
      /\ UNCHANGED <<nextFund, failedFunds, funds, created, full, attaching>>
  BY DEF SkipFunding, rowVars, hostSide
<1>2. failedFunds' \in [Pools -> Nat] /\ \A p \in Pools : Attachable(p)' => p \in created
  BY <1>1 DEF FundInv, FundTypes, CreatedInv, Attachable
<1> QED BY <1>1, <1>2, IdleKeeps

(* The first group of a batch, the second one, or the next batch.           *)
LEMMA BeginKeeps ==
    ASSUME FundInv, NEW g \in {"upload", "read"}, NEW pools \in Seq(Pools), NEW rest \in Seq(Pools),
           Worth(g, pools, quota), BeginGroup(g, pools, rest), quota \in FundQuotas,
           ids' \in Seq(FundContracts),
           UNCHANGED <<quota, full, funds, created, attaching, credited>>,
           failedFunds' \in [Pools -> Nat], \A p \in Pools : Attachable(p)' => p \in created
    PROVE  FundInv'
<1> USE FundingAssumption
<1>1. /\ fundPc' = "fund" /\ group' = g /\ batch' = pools /\ later' = rest
      /\ tried' = 0 /\ funded' = 0 /\ drained' = 0
  BY DEF BeginGroup
<1>2. FundTypes'
  BY <1>1 DEF FundInv, FundTypes
<1>3. Target' \in Nat \ {0}
  <2>1. Target' = IF g = "read" THEN ReadTarget[quota] ELSE UploadTarget[quota]
    BY <1>1 DEF Target
  <2>2. ReadTarget[quota] \in Nat /\ UploadTarget[quota] \in Nat
    OBVIOUS
  <2> QED BY <2>1, <2>2 DEF Worth
<1>4. GroupInv'
  BY <1>1, <1>3 DEF GroupInv
<1>5. CreatedInv'
  BY DEF FundInv, CreatedInv
<1>6. FundingSound'
  BY <1>1, NothingFunded
     DEF FundInv, FundingSound, FundedWasCredited, AttachedWasCreated, NeverOverdrawn
<1> QED BY <1>2, <1>4, <1>5, <1>6 DEF FundInv

LEMMA RoundKeeps ==
    ASSUME FundInv, NEW more, NextRound(more), more => quota \in FundQuotas,
           ids' \in Seq(FundContracts),
           UNCHANGED <<quota, full, funds, created, attaching, credited>>,
           failedFunds' \in [Pools -> Nat], \A p \in Pools : Attachable(p)' => p \in created
    PROVE  FundInv'
<1>1. /\ fundPc' = (IF more THEN "fetch" ELSE "quota") /\ group' = "none" /\ batch' = <<>>
      /\ later' = <<>> /\ tried' = 0 /\ funded' = 0 /\ drained' = 0
  BY DEF NextRound
<1>2. FundTypes'
  BY <1>1 DEF FundInv, FundTypes
<1>3. GroupInv'
  BY <1>1 DEF GroupInv
<1>4. CreatedInv'
  BY DEF FundInv, CreatedInv
<1>5. FundingSound'
  BY <1>1, NothingFunded
     DEF FundInv, FundingSound, FundedWasCredited, AttachedWasCreated, NeverOverdrawn
<1> QED BY <1>2, <1>3, <1>4, <1>5 DEF FundInv

(* Rows that stay as they are.                                              *)
LEMMA RowsStay ==
    ASSUME FundInv, UNCHANGED <<nextFund, failedFunds>>
    PROVE  failedFunds' \in [Pools -> Nat] /\ \A p \in Pools : Attachable(p)' => p \in created
BY DEF FundInv, FundTypes, CreatedInv, Attachable

(* A fetched batch is a sequence of pools, new ones first.                  *)
LEMMA FetchedPools ==
    ASSUME NEW q, NEW b \in HostPoolsForFunding(q) PROVE b \in Seq(Pools)
<1>1. ASSUME NEW n, NEW S \in SUBSET Pools, NEW t \in Selections(n, S) PROVE t \in Seq(Pools)
  <2>1. PICK T \in SUBSET S : t \in SetToSeqs(T)
    BY DEF Selections, kSubset
  <2>2. IsFiniteSet(T)
    BY FundingAssumption, FS_Subset
  <2>3. t \in Seq(T)
    BY <2>1, <2>2, PermutationsAreSequences
  <2> QED BY <2>3
<1>2. PICK s \in Selections(FundBatch, NewIn(q)) :
          b \in {s \o t : t \in Selections(FundBatch - Len(s), DueIn(q))}
  BY Zenon DEF HostPoolsForFunding
<1>3. PICK t \in Selections(FundBatch - Len(s), DueIn(q)) : b = s \o t
  BY <1>2, Zenon
<1>4. NewIn(q) \in SUBSET Pools /\ DueIn(q) \in SUBSET Pools
  BY DEF NewIn, DueIn
<1>5. s \in Seq(Pools) /\ t \in Seq(Pools)
  BY <1>1, <1>4
<1> QED BY <1>3, <1>5

LEMMA FetchPoolsStep ==
    ASSUME FundInv, FetchPools PROVE FundInv'
<1>1. /\ fundPc = "fetch" /\ batch' \in HostPoolsForFunding(quota) /\ credited' = {} /\ fundPc' = "split"
      /\ UNCHANGED <<nextFund, failedFunds, funds, created, full, ids, quota, group, later, tried,
                     funded, drained, attaching>>
  BY DEF FetchPools, rowVars, hostSide
<1>2. batch' \in Seq(Pools)
  BY <1>1, FetchedPools
<1>3. group = "none" /\ funded = 0
  BY <1>1 DEF FundInv, GroupInv
<1>4. FundTypes'
  BY <1>1 DEF FundInv, FundTypes
<1>5. GroupInv'
  BY <1>1, <1>2, <1>3 DEF FundInv, GroupInv
<1>6. CreatedInv'
  BY <1>1, RowsStay DEF CreatedInv
<1>7. FundingSound'
  BY <1>1, <1>3, NothingFunded
     DEF FundInv, FundingSound, FundedWasCredited, AttachedWasCreated, NeverOverdrawn
<1> QED BY <1>4, <1>5, <1>6, <1>7 DEF FundInv

LEMMA SplitStep ==
    ASSUME FundInv, SplitBatch PROVE FundInv'
<1>1. PICK upload \in InBatchOrder(Pools \ full), read \in InBatchOrder(full) :
          IF Worth("upload", upload, quota) THEN BeginGroup("upload", upload, read)
          ELSE IF Worth("read", read, quota) THEN BeginGroup("read", read, <<>>)
          ELSE NextRound(~exhausted)
  BY DEF SplitBatch
<1>2. /\ fundPc = "split"
      /\ UNCHANGED <<nextFund, failedFunds, funds, created, full, ids, quota, attaching, credited>>
  BY DEF SplitBatch, rowVars, hostSide
<1>3. ASSUME NEW S \in SUBSET Pools, NEW t \in InBatchOrder(S) PROVE t \in Seq(Pools)
  <2>1. t \in SetToSeqs(S \cap ToSet(batch)) /\ IsFiniteSet(S \cap ToSet(batch))
    BY FundingAssumption, FS_Subset DEF InBatchOrder
  <2>2. t \in Seq(S \cap ToSet(batch))
    BY <2>1, PermutationsAreSequences
  <2> QED BY <2>2
<1>4. upload \in Seq(Pools) /\ read \in Seq(Pools) /\ <<>> \in Seq(Pools)
  <2>1. full \in SUBSET Pools /\ Pools \ full \in SUBSET Pools
    BY DEF FundInv, FundTypes
  <2> QED BY <1>3, <2>1, EmptySeq
<1>5. quota \in FundQuotas /\ ids' \in Seq(FundContracts)
  BY <1>2 DEF FundInv, GroupInv, FundTypes
<1>6. failedFunds' \in [Pools -> Nat] /\ \A p \in Pools : Attachable(p)' => p \in created
  BY <1>2, RowsStay
<1>7. CASE Worth("upload", upload, quota)
  BY <1>1, <1>2, <1>4, <1>5, <1>6, <1>7, BeginKeeps
<1>8. CASE ~Worth("upload", upload, quota) /\ Worth("read", read, quota)
  BY <1>1, <1>2, <1>4, <1>5, <1>6, <1>8, BeginKeeps
<1>9. CASE ~Worth("upload", upload, quota) /\ ~Worth("read", read, quota)
  <2>1. NextRound(~exhausted)
    BY <1>1, <1>9
  <2> QED BY <1>2, <1>5, <1>6, <2>1, RoundKeeps
<1> QED BY <1>7, <1>8, <1>9

LEMMA NextQuotaStep ==
    ASSUME FundInv, NextQuota PROVE FundInv'
<1> DEFINE qs == {q \in FundQuotas : q > quota /\ UploadTarget[q] + ReadTarget[q] > 0}
<1>1. fundPc = "quota" /\ UNCHANGED <<nextFund, failedFunds, funds, created, full, attaching>>
  BY DEF NextQuota, rowVars, hostSide
<1>2. CASE qs = {}
  <2>1. fundPc' = "attach" /\ Idle
    BY <1>2 DEF NextQuota
  <2> QED BY <1>1, <2>1, RowsStay, IdleKeeps
<1>3. CASE qs # {}
  <2>1. quota' = Min(qs) /\ fundPc' = "fetch"
        /\ UNCHANGED <<ids, exhausted, group, batch, later, tried, funded, drained, credited>>
    BY <1>3 DEF NextQuota
  <2>2. quota' \in FundQuotas
    <3>1. PICK n \in qs : \A k \in qs : n <= k
      BY <1>3, LeastNat, FundingAssumption
    <3>2. Min(qs) \in qs
      BY <3>1 DEF Min
    <3> QED BY <2>1, <3>2
  <2>3. FundTypes'
    BY <1>1, <2>1 DEF FundInv, FundTypes
  <2>4. GroupInv'
    BY <1>1, <2>1, <2>2 DEF FundInv, GroupInv
  <2>5. CreatedInv'
    BY <1>1, <2>1, RowsStay DEF FundInv, CreatedInv
  <2>6. FundingSound'
    BY <1>1, <2>1, NothingFunded
       DEF FundInv, GroupInv, FundingSound, FundedWasCredited, AttachedWasCreated, NeverOverdrawn
  <2> QED BY <2>3, <2>4, <2>5, <2>6 DEF FundInv
<1> QED BY <1>2, <1>3

(* The pools one request credits: no more than the contract can pay.        *)
LEMMA ChunkFacts ==
    ASSUME FundInv, InFunding
    PROVE  /\ ids[tried + 1] \in FundContracts
           /\ funds[ids[tried + 1]] \in Nat
           /\ funds[ids[tried + 1]] >= Target =>
                 /\ Len(Chunk(ids[tried + 1])) \in Nat
                 /\ funded + Len(Chunk(ids[tried + 1])) <= Len(batch)
                 /\ Len(Chunk(ids[tried + 1])) * Target \in Nat
                 /\ Len(Chunk(ids[tried + 1])) * Target <= funds[ids[tried + 1]]
                 /\ ToSet(Chunk(ids[tried + 1])) =
                       {batch[i] : i \in (funded + 1)..(funded + Len(Chunk(ids[tried + 1])))}
<1> DEFINE c == ids[tried + 1]
           f == funds[c]
           p == Payable(f)
           n == Min({Len(batch), funded + p})
<1>1. /\ fundPc = "fund" /\ tried < Len(ids) /\ funded <= Len(batch)
      /\ tried \in Nat /\ funded \in Nat /\ ids \in Seq(FundContracts)
      /\ Target \in Nat \ {0} /\ funds \in [FundContracts -> Nat]
  BY DEF InFunding, FundInv, FundTypes, GroupInv
<1>2. c \in FundContracts
  BY <1>1
<1>3. f \in Nat
  BY <1>1, <1>2
<1>4. PICK S : batch \in Seq(S)
  BY DEF FundInv, GroupInv
<1>5. SUFFICES ASSUME f >= Target
               PROVE  /\ Len(Chunk(c)) \in Nat /\ funded + Len(Chunk(c)) <= Len(batch)
                      /\ Len(Chunk(c)) * Target \in Nat /\ Len(Chunk(c)) * Target <= f
                      /\ ToSet(Chunk(c)) = {batch[i] : i \in (funded + 1)..(funded + Len(Chunk(c)))}
  BY <1>2, <1>3
<1> HIDE DEF f, c
<1>6. f \div Target \in Nat
  BY <1>1, <1>3, SMTT(30)
<1>7. p = IF 1 >= f \div Target THEN 1 ELSE f \div Target
  BY <1>6, MaxOfTwo DEF Payable
<1>8. f \div Target >= 1
  BY <1>1, <1>3, <1>5, SMTT(30)
<1>9. p = f \div Target /\ p \in Nat /\ p >= 1
  BY <1>6, <1>7, <1>8
<1> HIDE DEF p
<1>10. Len(batch) \in Nat
  BY <1>4
<1>11. n = IF Len(batch) <= funded + p THEN Len(batch) ELSE funded + p
  <2> DEFINE x == Len(batch)
             y == funded + p
  <2>1. x \in Int /\ y \in Int
    BY <1>1, <1>9, <1>10
  <2>2. n = Min({x, y})
    OBVIOUS
  <2> HIDE DEF x, y, n
  <2>3. n = IF x <= y THEN x ELSE y
    BY <2>1, <2>2, MinOfTwo
  <2> QED BY <2>3 DEF x, y
<1>12. n \in Nat /\ funded <= n /\ n <= Len(batch) /\ n <= funded + p
  BY <1>1, <1>9, <1>10, <1>11
<1> HIDE DEF n
<1>13. Chunk(c) = SubSeq(batch, funded + 1, n)
  BY DEF Chunk, n, p, f
<1>14. Len(Chunk(c)) = n - funded /\ ToSet(Chunk(c)) = {batch[i] : i \in (funded + 1)..n}
  <2>1. funded \in Nat
    BY <1>1
  <2>2. /\ Len(SubSeq(batch, funded + 1, n)) = n - funded
        /\ ToSet(SubSeq(batch, funded + 1, n)) = {batch[i] : i \in (funded + 1)..n}
    BY <1>4, <1>12, <2>1, FirstOnes, SMTT(30)
  <2> QED BY <1>13, <2>2
<1>15. Len(Chunk(c)) \in Nat /\ Len(Chunk(c)) <= f \div Target /\ funded + Len(Chunk(c)) = n
  BY <1>1, <1>9, <1>12, <1>14
<1>16. Len(Chunk(c)) * Target \in Nat /\ Len(Chunk(c)) * Target <= f
  <2> DEFINE k == Len(Chunk(c))
  <2>1. k \in Nat /\ k <= f \div Target /\ Target \in Nat \ {0}
    BY <1>1, <1>15
  <2> HIDE DEF k
  <2>2. k * Target <= f
    BY <1>3, <2>1, PartsFit
  <2>3. k * Target \in Nat
    BY <2>1
  <2> QED BY <2>2, <2>3 DEF k
<1> QED BY <1>12, <1>14, <1>15, <1>16

(* A request that is executed credits the pools of the chunk and takes no   *)
(* more than the contract holds.                                            *)
LEMMA DepositFacts ==
    ASSUME FundInv, NEW c \in FundContracts, NEW amount \in Nat, amount <= funds[c], Deposit(c, amount)
    PROVE  /\ funds' \in [FundContracts -> Nat]
           /\ created \subseteq created' /\ credited' \subseteq created'
           /\ credited' = credited \cup (ToSet(Chunk(c)) \ {"service"})
<1>1. funds \in [FundContracts -> Nat] /\ credited \subseteq created
  BY DEF FundInv, FundTypes, CreatedInv
<1>2. funds' = [funds EXCEPT ![c] = funds[c] - amount] /\ funds[c] - amount \in Nat
  BY <1>1 DEF Deposit
<1> QED BY <1>1, <1>2 DEF Deposit

(* One more contract is tried, or no other has to be.                       *)
LEMMA TriedKeeps ==
    ASSUME FundInv, InFunding, tried' \in {tried + 1, Len(ids)}, drained' \in Nat, drained' <= tried + 1,
           funds' \in [FundContracts -> Nat], created \subseteq created', credited' \subseteq created',
           funded' \in Nat, funded' <= Len(batch), Funded' \ {"service"} \subseteq credited',
           UNCHANGED <<nextFund, failedFunds, full, fundPc, ids, quota, group, batch, later, attaching>>
    PROVE  FundInv'
<1>1. Target' = Target /\ fundPc = "fund"
  BY DEF Target, InFunding
<1>2. tried' \in Nat /\ drained' <= tried' /\ tried' <= Len(ids)
  <2>1. Len(ids) \in Nat /\ tried \in Nat /\ tried < Len(ids)
    BY DEF FundInv, FundTypes, InFunding
  <2> QED BY <2>1
<1>3. FundTypes'
  BY <1>2 DEF FundInv, FundTypes
<1>4. GroupInv'
  BY <1>1, <1>2 DEF FundInv, GroupInv
<1>5. CreatedInv'
  BY DEF FundInv, CreatedInv, Attachable
<1>6. FundingSound'
  <2>1. NeverOverdrawn'
    BY DEF NeverOverdrawn
  <2>2. AttachedWasCreated'
    BY DEF FundInv, FundingSound, AttachedWasCreated
  <2> QED BY <2>1, <2>2 DEF FundingSound, FundedWasCredited
<1> QED BY <1>3, <1>4, <1>5, <1>6 DEF FundInv

(* The pools counted as funded when the count moves on by a chunk.          *)
LEMMA MoreFunded ==
    ASSUME FundInv, batch' = batch, NEW n \in Nat, funded' = funded + n, funded + n <= Len(batch)
    PROVE  Funded' = Funded \cup {batch[i] : i \in (funded + 1)..(funded + n)}
<1>1. PICK S : batch \in Seq(S)
  BY DEF FundInv, GroupInv
<1>2. funded \in Nat /\ 0 + 1 = 1
  BY DEF FundInv, FundTypes
<1>3. ToSet(SubSeq(batch, 0 + 1, funded + n)) = {batch[i] : i \in (0 + 1)..(funded + n)}
  <2> DEFINE e == funded + n
  <2>1. e \in Nat /\ 0 <= e /\ e <= Len(batch)
    BY <1>2
  <2> HIDE DEF e
  <2>2. ToSet(SubSeq(batch, 0 + 1, e)) = {batch[i] : i \in (0 + 1)..e}
    BY <1>1, <2>1, FirstOnes
  <2> QED BY <2>2 DEF e
<1>4. Funded' = {batch[i] : i \in 1..(funded + n)}
  BY <1>2, <1>3 DEF Funded
<1>5. 1..(funded + n) = (1..funded) \cup ((funded + 1)..(funded + n))
  BY <1>2
<1> QED BY <1>4, <1>5, FundedOnes

LEMMA ContractDrainedStep ==
    ASSUME FundInv, ContractDrained PROVE FundInv'
<1>1. /\ InFunding /\ tried' = tried + 1 /\ drained' = drained + 1
      /\ UNCHANGED <<nextFund, failedFunds, funds, created, full, fundPc, ids, quota, group, batch, later,
                     funded, attaching, credited>>
  BY DEF ContractDrained, rowVars, hostSide
<1>2. /\ drained' \in Nat /\ drained' <= tried + 1
      /\ funds' \in [FundContracts -> Nat] /\ credited' \subseteq created'
      /\ funded' \in Nat /\ funded' <= Len(batch)
  BY <1>1 DEF FundInv, FundTypes, GroupInv, CreatedInv
<1>3. Funded' \ {"service"} \subseteq credited'
  BY <1>1 DEF FundInv, FundingSound, FundedWasCredited, Funded
<1> QED BY <1>1, <1>2, <1>3, TriedKeeps

LEMMA SkipContractStep ==
    ASSUME FundInv, SkipContract PROVE FundInv'
<1>1. /\ InFunding /\ tried' = tried + 1
      /\ UNCHANGED <<nextFund, failedFunds, funds, created, full, fundPc, ids, quota, group, batch, later,
                     funded, drained, attaching, credited>>
  BY DEF SkipContract, rowVars, hostSide
<1>2. /\ drained' \in Nat /\ drained' <= tried + 1
      /\ funds' \in [FundContracts -> Nat] /\ credited' \subseteq created'
      /\ funded' \in Nat /\ funded' <= Len(batch)
  BY <1>1 DEF FundInv, FundTypes, GroupInv, CreatedInv
<1>3. Funded' \ {"service"} \subseteq credited'
  BY <1>1 DEF FundInv, FundingSound, FundedWasCredited, Funded
<1> QED BY <1>1, <1>2, <1>3, TriedKeeps

LEMMA ReplenishStep ==
    ASSUME FundInv, NEW saved \in BOOLEAN, Replenish(saved) PROVE FundInv'
<1> DEFINE c == ids[tried + 1]
           n == Len(Chunk(c))
<1>1. /\ InFunding /\ tried' \in {tried + 1, Len(ids)} /\ funds[c] >= Target /\ funded' = funded + n
      /\ UNCHANGED <<nextFund, failedFunds, full, fundPc, ids, quota, group, batch, later, attaching>>
  BY DEF Replenish, rowVars
<1>2. PICK amount \in {0, n * Target} :
          /\ Deposit(c, amount)
          /\ drained' = drained + IF saved /\ funds[c] - amount < Target THEN 1 ELSE 0
  BY DEF Replenish
<1>3. /\ c \in FundContracts /\ funds[c] \in Nat /\ n \in Nat /\ funded + n <= Len(batch)
      /\ n * Target \in Nat /\ n * Target <= funds[c]
      /\ ToSet(Chunk(c)) = {batch[i] : i \in (funded + 1)..(funded + n)}
  BY <1>1, ChunkFacts
<1> HIDE DEF c, n
<1>4. amount \in Nat /\ amount <= funds[c]
  BY <1>2, <1>3
<1>5. /\ funds' \in [FundContracts -> Nat]
      /\ created \subseteq created' /\ credited' \subseteq created'
      /\ credited' = credited \cup (ToSet(Chunk(c)) \ {"service"})
  BY <1>2, <1>3, <1>4, DepositFacts
<1>6. funded \in Nat /\ drained \in Nat /\ tried \in Nat /\ drained <= tried
  BY DEF FundInv, FundTypes, GroupInv
<1>7. drained' \in Nat /\ drained' <= tried + 1 /\ funded' \in Nat /\ funded' <= Len(batch)
  BY <1>1, <1>2, <1>3, <1>6
<1>8. Funded' \ {"service"} \subseteq credited'
  BY <1>1, <1>3, <1>5, MoreFunded DEF FundInv, FundingSound, FundedWasCredited
<1> QED BY <1>1, <1>5, <1>7, <1>8, TriedKeeps

LEMMA ReplenishFailsStep ==
    ASSUME FundInv, ReplenishFails PROVE FundInv'
<1> DEFINE c == ids[tried + 1]
           n == Len(Chunk(c))
<1>1. /\ InFunding /\ tried' = tried + 1 /\ funds[c] >= Target /\ funded' = funded
      /\ UNCHANGED <<nextFund, failedFunds, full, fundPc, ids, quota, group, batch, later, attaching,
                     drained>>
  BY DEF ReplenishFails, rowVars, StayAt
<1>2. Deposit(c, n * Target) \/ UNCHANGED <<funds, created, credited>>
  BY DEF ReplenishFails
<1>3. c \in FundContracts /\ n * Target \in Nat /\ n * Target <= funds[c]
  BY <1>1, ChunkFacts
<1> HIDE DEF c, n
<1>4. /\ funds' \in [FundContracts -> Nat] /\ created \subseteq created'
      /\ credited' \subseteq created' /\ credited \subseteq credited'
  <2>1. CASE Deposit(c, n * Target)
    BY <1>3, <2>1, DepositFacts
  <2>2. CASE UNCHANGED <<funds, created, credited>>
    BY <2>2 DEF FundInv, FundTypes, CreatedInv
  <2> QED BY <1>2, <2>1, <2>2
<1>5. /\ drained' \in Nat /\ drained' <= tried + 1
      /\ funded' \in Nat /\ funded' <= Len(batch)
  BY <1>1 DEF FundInv, FundTypes, GroupInv
<1>6. Funded' \ {"service"} \subseteq credited'
  BY <1>1, <1>4 DEF FundInv, FundingSound, FundedWasCredited, Funded
<1> QED BY <1>1, <1>4, <1>5, <1>6, TriedKeeps

(* UpdateFundedPools: only a pool that was credited ends without failures.  *)
LEMMA RowsUpdated ==
    ASSUME FundInv, group # "service", UpdateHostPools
    PROVE  failedFunds' \in [Pools -> Nat] /\ \A p \in Pools : Attachable(p)' => p \in created
<1> USE FundingAssumption
<1>1. failedFunds \in [Pools -> Nat]
  BY DEF FundInv, FundTypes
<1>2. ASSUME NEW p \in Pools
      PROVE  /\ Min({failedFunds[p] + 1, MaxBackoff}) \in Nat \ {0}
             /\ UpdatedFailures(p) \in Nat
             /\ p \in NotFunded \ Funded => UpdatedFailures(p) # 0
  <2>1. failedFunds[p] \in Nat /\ MaxBackoff \in Nat \ {0}
    BY <1>1
  <2>2. Min({failedFunds[p] + 1, MaxBackoff}) \in Nat \ {0}
    BY <2>1, MinOfTwo
  <2> QED BY <2>1, <2>2 DEF UpdatedFailures
<1>3. failedFunds' \in [Pools -> Nat]
  BY <1>2 DEF UpdateHostPools
<1>4. ASSUME NEW p \in Pools, Attachable(p)' PROVE p \in created
  <2>1. nextFund'[p] = UpdatedNextFund(p) /\ failedFunds'[p] = UpdatedFailures(p)
    BY DEF UpdateHostPools
  <2>2. CASE p \in Funded
    BY <2>2 DEF FundInv, FundingSound, FundedWasCredited, CreatedInv
  <2>3. CASE p \notin Funded
    <3>1. p \notin NotFunded
      BY <1>2, <1>4, <2>1, <2>3 DEF Attachable
    <3>2. Attachable(p)
      BY <1>4, <2>1, <2>3, <3>1 DEF Attachable, UpdatedNextFund, UpdatedFailures
    <3> QED BY <3>2 DEF FundInv, CreatedInv
  <2> QED BY <2>2, <2>3
<1> QED BY <1>3, <1>4

LEMMA FinishGroupStep ==
    ASSUME FundInv, FinishGroup PROVE FundInv'
<1> DEFINE left == SubSeq(ids, drained + 1, Len(ids))
<1>1. fundPc = "fund" /\ UNCHANGED <<funds, created, full, attaching>>
  BY DEF FinishGroup, hostSide
<1>2. left \in Seq(FundContracts)
  <2>1. drained \in Nat /\ drained <= Len(ids) /\ ids \in Seq(FundContracts)
    BY DEF FundInv, FundTypes, GroupInv
  <2> QED BY <2>1, FirstOnes
<1>3. CASE group = "service"
  <2>1. NextRound(FALSE) /\ UNCHANGED <<nextFund, failedFunds, ids, quota, exhausted, credited>>
    BY <1>3 DEF FinishGroup
  <2>2. ids' \in Seq(FundContracts)
    BY <2>1 DEF FundInv, FundTypes
  <2> QED BY <1>1, <2>1, <2>2, RowsStay, RoundKeeps
<1>4. CASE group # "service"
  <2>1. UpdateHostPools
    BY <1>4 DEF FinishGroup
  <2>2. failedFunds' \in [Pools -> Nat] /\ \A p \in Pools : Attachable(p)' => p \in created
    BY <1>4, <2>1, RowsUpdated
  <2>3. quota \in FundQuotas /\ later \in Seq(Pools) /\ <<>> \in Seq(Pools)
    BY <1>1, <1>4 DEF FundInv, GroupInv, FundTypes
  <2>4. CASE left = <<>>
    <3>1. fundPc' = "attach" /\ Idle
      BY <1>4, <2>4 DEF FinishGroup
    <3> QED BY <1>1, <2>2, <3>1, IdleKeeps
  <2>5. CASE left # <<>>
    <3>1. /\ ids' = left /\ UNCHANGED <<quota, exhausted, credited>>
          /\ IF group = "upload" /\ Worth("read", later, quota)
             THEN BeginGroup("read", later, <<>>) ELSE NextRound(~exhausted)
      BY <1>4, <2>5 DEF FinishGroup
    <3>2. ids' \in Seq(FundContracts)
      BY <1>2, <3>1
    <3> HIDE DEF left
    <3>3. CASE group = "upload" /\ Worth("read", later, quota)
      BY <1>1, <2>2, <2>3, <3>1, <3>2, <3>3, BeginKeeps
    <3>4. CASE ~(group = "upload" /\ Worth("read", later, quota))
      <4>1. NextRound(~exhausted)
        BY <3>1, <3>4
      <4> QED BY <1>1, <2>2, <2>3, <3>1, <3>2, <4>1, RoundKeeps
    <3> QED BY <3>3, <3>4
  <2> QED BY <2>4, <2>5
<1> QED BY <1>3, <1>4

LEMMA UpdateFailsStep ==
    ASSUME FundInv, UpdateFails PROVE FundInv'
<1>1. fundPc' = "attach" /\ Idle /\ UNCHANGED <<nextFund, failedFunds, funds, created, full, attaching>>
  BY DEF UpdateFails, rowVars, hostSide
<1> QED BY <1>1, RowsStay, IdleKeeps

(* Between two groups only rows that exist and pools the host knows are     *)
(* attached.                                                                *)
LEMMA OutsideKeeps ==
    ASSUME FundInv, fundPc \notin {"fund", "fetch", "split"}, fundPc' \notin {"fund", "fetch", "split"},
           UNCHANGED <<failedFunds, funds, created, passLoop>>, full' \subseteq Pools,
           \A p \in Pools : Attachable(p)' => Attachable(p),
           \A a \in attaching' : (a[2] \in Pools /\ Attachable(a[2])) \/ a \in attaching
    PROVE  FundInv'
<1>1. UNCHANGED <<ids, quota, exhausted, group, batch, later, tried, funded, drained, credited>>
  BY DEF passLoop
<1>2. FundTypes'
  BY <1>1 DEF FundInv, FundTypes
<1>3. GroupInv'
  BY <1>1 DEF FundInv, GroupInv
<1>4. CreatedInv'
  BY <1>1 DEF FundInv, CreatedInv
<1>5. FundingSound'
  <2>1. FundedWasCredited' /\ NeverOverdrawn'
    BY <1>1 DEF FundInv, FundingSound, FundedWasCredited, NeverOverdrawn, Funded
  <2>2. AttachedWasCreated'
    BY DEF FundInv, FundingSound, AttachedWasCreated, CreatedInv
  <2> QED BY <2>1, <2>2 DEF FundingSound
<1> QED BY <1>2, <1>3, <1>4, <1>5 DEF FundInv

LEMMA AttachSteps ==
    ASSUME FundInv,
           \/ AttachPools \/ InsertPoolAttachments \/ AttachSharingPools
           \/ MarkSharingPoolsAttached \/ AttachFails \/ FundingTick \/ StorageChanges
    PROVE  FundInv'
<1>1. full \subseteq Pools
  BY DEF FundInv, FundTypes
<1>2. CASE AttachPools \/ AttachSharingPools
  <2>1. /\ UNCHANGED <<nextFund, failedFunds, funds, created, full, passLoop>>
        /\ fundPc \in {"attach", "share"} /\ fundPc' \in {"share", "insert", "idle", "mark"}
        /\ attaching' \in {PendingPoolAttachments, SharingPoolAttachments}
    BY <1>2 DEF AttachPools, AttachSharingPools, rowVars, hostSide
  <2>2. \A a \in attaching' : a[2] \in Pools /\ Attachable(a[2])
    BY <2>1 DEF PendingPoolAttachments, SharingPoolAttachments
  <2>3. \A p \in Pools : Attachable(p)' => Attachable(p)
    BY <2>1 DEF Attachable
  <2> QED BY <1>1, <2>1, <2>2, <2>3, OutsideKeeps
<1>3. CASE InsertPoolAttachments \/ MarkSharingPoolsAttached \/ AttachFails
  <2>1. /\ UNCHANGED <<nextFund, failedFunds, funds, created, full, passLoop>>
        /\ fundPc \in {"insert", "mark"} /\ fundPc' \in {"attach", "share", "idle"}
        /\ attaching' = {}
    BY <1>3 DEF InsertPoolAttachments, MarkSharingPoolsAttached, AttachFails, rowVars, hostSide
  <2>2. \A p \in Pools : Attachable(p)' => Attachable(p)
    BY <2>1 DEF Attachable
  <2> QED BY <1>1, <2>1, <2>2, OutsideKeeps
<1>4. CASE FundingTick
  <2>1. /\ UNCHANGED <<failedFunds, funds, created, full, passLoop, fundPc, attaching>> /\ fundPc = "idle"
        /\ \A p \in Pools : nextFund'[p] = IF nextFund[p] > 0 THEN nextFund[p] - 1 ELSE nextFund[p]
    BY <1>4 DEF FundingTick, hostSide
  <2>2. \A p \in Pools : Attachable(p)' => Attachable(p)
    BY <2>1 DEF Attachable, NoRow
  <2> QED BY <1>1, <2>1, <2>2, OutsideKeeps
<1>5. CASE StorageChanges
  <2>1. /\ UNCHANGED <<nextFund, failedFunds, funds, created, passLoop, fundPc, attaching>>
        /\ fundPc = "idle" /\ full' \subseteq Pools
    BY <1>5 DEF StorageChanges, rowVars
  <2>2. \A p \in Pools : Attachable(p)' => Attachable(p)
    BY <2>1 DEF Attachable
  <2> QED BY <2>1, <2>2, OutsideKeeps
<1> QED BY <1>2, <1>3, <1>4, <1>5

(* No step of a funding pass breaks the invariant.                          *)
LEMMA FundingInductive ==
    ASSUME FundInv, [FundingNext]_fundVars PROVE FundInv'
<1>1. CASE UNCHANGED fundVars
  <2>1. UNCHANGED <<nextFund, failedFunds, attached, funds, created, full, fundPc, ids, quota,
                    exhausted, group, batch, later, tried, funded, drained, credited, attaching>>
    BY <1>1 DEF fundVars, rowVars, hostSide, passLoop
  <2> QED BY <2>1 DEF FundInv, FundTypes, GroupInv, CreatedInv, FundingSound, FundedWasCredited,
                      AttachedWasCreated, NeverOverdrawn, Funded, Target, Attachable
<1>2. CASE FundingNext
  BY <1>2, StartStep, SkipStep, FetchPoolsStep, SplitStep, NextQuotaStep, ContractDrainedStep,
     SkipContractStep, ReplenishStep, ReplenishFailsStep, FinishGroupStep, UpdateFailsStep, AttachSteps
     DEF FundingNext, FundingSteps
<1> QED BY <1>1, <1>2

(* The invariant of the funding of a host holds in every state, for any     *)
(* number of pools, quotas and contracts and any size of batch.             *)
THEOREM FundingInvariance == FundingSpec => []FundInv
<1>1. FundingInit => FundInv
  <2> SUFFICES ASSUME FundingInit PROVE FundInv
    OBVIOUS
  <2>1. /\ nextFund = [p \in Pools |-> NoRow] /\ failedFunds = [p \in Pools |-> 0]
        /\ full \subseteq Pools /\ created = {} /\ fundPc = "idle" /\ ids = <<>> /\ group = "none"
        /\ batch = <<>> /\ later = <<>> /\ tried = 0 /\ funded = 0 /\ drained = 0
        /\ attaching = {} /\ credited = {}
    BY DEF FundingInit
  <2>2. funds \in [FundContracts -> Nat]
    BY FundingAssumption DEF FundingInit
  <2>3. FundTypes
    BY <2>1, <2>2 DEF FundTypes
  <2>4. GroupInv
    BY <2>1 DEF GroupInv
  <2>5. CreatedInv
    BY <2>1 DEF CreatedInv, Attachable
  <2>6. Funded = {}
    <3>1. SubSeq(batch, 1, 0) = <<>>
      BY SubSeqEmpty
    <3> QED BY <2>1, <3>1 DEF Funded, ToSet
  <2>7. FundingSound
    BY <2>1, <2>2, <2>6 DEF FundingSound, FundedWasCredited, AttachedWasCreated, NeverOverdrawn
  <2> QED BY <2>3, <2>4, <2>5, <2>7 DEF FundInv
<1>2. FundInv /\ [FundingNext]_fundVars => FundInv'
  BY FundingInductive
<1> QED BY <1>1, <1>2, PTL DEF FundingSpec

(* What the database records of a host's pools is what the host has done    *)
(* for them, and contracts pay for no more than they hold, whatever         *)
(* requests fail half-way (FundPools, UpdateFundedPools, AttachPools).      *)
THEOREM FundingIsSound == FundingSpec => []FundingSound
<1>1. FundInv => FundingSound
  BY DEF FundInv
<1> QED BY <1>1, FundingInvariance, PTL

-----------------------------------------------------------------------------
(***************************************************************************)
(* The registration of applications (AppKeys)                              *)
(***************************************************************************)

Pending  == [state : {"open", "approved"}, key : ConnectKeys \cup {NoKey}]
Register == [pc : {"count", "lock", "add"}, req : AuthRequests, key : ConnectKeys \cup {NoKey},
             left : Int]

(* Requests, calls and tables keep their types.                             *)
KeyTypes ==
    /\ totalUses \in [Quotas -> Int] /\ quotaOf \in [ConnectKeys -> Quotas \cup {NoKey}]
    /\ preKey \in [key : ConnectKeys, left : Int]
    /\ request \in [AuthRequests -> {NoReq} \cup Pending]
    /\ call \in [Clients -> {NoCall} \cup Register]
    /\ secret \in [AuthRequests -> ConnectKeys \cup {NoKey}]
    /\ grants \in [AuthRequests -> {0, 1}]

(* A request that was answered with a secret keeps the key of the secret.   *)
SecretsFixed ==
    \A r \in AuthRequests : secret[r] # NoKey /\ request[r] # NoReq =>
        request[r].state = "approved" /\ request[r].key = secret[r]

(* A call has consumed its request, which does not come back, and has       *)
(* registered nothing so far.                                               *)
CallsConsume ==
    \A c \in Clients : call[c] # NoCall =>
        /\ request[call[c].req] = NoReq /\ grants[call[c].req] = 0
        /\ secret[call[c].req] \in {NoKey, call[c].key}

(* So has a request that has led to an account.                             *)
GrantsConsume ==
    \A r \in AuthRequests : grants[r] # 0 => request[r] = NoReq

(* No two calls have the same request.                                      *)
OneCallPerRequest ==
    \A c, d \in Clients :
        call[c] # NoCall /\ call[d] # NoCall /\ call[c].req = call[d].req => c = d

KeysInv == KeyTypes /\ SecretsFixed /\ CallsConsume /\ GrantsConsume /\ OneCallPerRequest

(* The records that stand for nothing differ from the others.               *)
LEMMA Nothing ==
    /\ \A p \in Pending : p # NoReq
    /\ \A p \in Register : p # NoCall
    /\ NoCall.pc = "none"
<1>1. \A p \in Pending : DOMAIN p = {"state", "key"}
  BY DEF Pending
<1>2. DOMAIN NoReq = {"state"}
  BY DEF NoReq
<1>3. NoCall.pc = "none" /\ \A p \in Register : p.pc # "none"
  BY DEF NoCall, Register
<1> QED BY <1>1, <1>2, <1>3

(* To begin with there is no request.                                       *)
LEMMA KeysInitHolds == KeysInit => KeysInv
<1> SUFFICES ASSUME KeysInit PROVE KeysInv
  OBVIOUS
<1>1. KeyTypes
  <2>1. \A n \in UseLimits : n \in Int
    BY AppKeysAssumption
  <2>2. totalUses \in [Quotas -> Int] /\ quotaOf \in [ConnectKeys -> Quotas \cup {NoKey}]
    BY <2>1 DEF KeysInit
  <2>3. preKey \in [key : ConnectKeys, left : Int]
    BY AppKeysAssumption DEF KeysInit
  <2> QED BY <2>2, <2>3 DEF KeysInit, KeyTypes
<1>2. SecretsFixed /\ CallsConsume /\ GrantsConsume /\ OneCallPerRequest
  BY DEF KeysInit, SecretsFixed, CallsConsume, GrantsConsume, OneCallPerRequest
<1> QED BY <1>1, <1>2 DEF KeysInv

(* Request r becomes q and its secret s: a request that was consumed or     *)
(* dropped does not come back, and a secret that was given stays.           *)
RequestMoves(r, q, s) ==
    /\ request' = [request EXCEPT ![r] = q] /\ secret' = [secret EXCEPT ![r] = s]
    /\ preKey' \in [key : ConnectKeys, left : Int]
    /\ \/ q = NoReq \/ request[r] # NoReq
       \/ grants[r] = 0 /\ \A c \in Clients : call[c] # NoCall => call[c].req # r
    /\ s # NoKey /\ q # NoReq => q.state = "approved" /\ q.key = s
    /\ request[r] = NoReq => s = secret[r]
    /\ secret[r] # NoKey => s # NoKey

(* Steps of one request r before it is consumed: what other requests and    *)
(* the calls have is not touched.                                           *)
LEMMA RequestSteps ==
    ASSUME KeysInv, NEW r \in AuthRequests,
           \/ \E pre \in BOOLEAN : AuthRequest(r, pre)
           \/ \E k \in ConnectKeys : ApproveConnect(r, k)
           \/ DropRequest(r) \/ AuthConnectStatus(r)
    PROVE  KeysInv'
<1>1. UNCHANGED <<totalUses, quotaOf, call, grants>>
  BY DEF AuthRequest, ApproveConnect, DropRequest, AuthConnectStatus, keyTables
<1>2. /\ request \in [AuthRequests -> {NoReq} \cup Pending] /\ preKey \in [key : ConnectKeys, left : Int]
      /\ secret \in [AuthRequests -> ConnectKeys \cup {NoKey}]
  BY DEF KeysInv, KeyTypes
<1>3. PICK q \in {NoReq} \cup Pending, s \in ConnectKeys \cup {NoKey} : RequestMoves(r, q, s)
  <2>0. secret' = secret => secret' = [secret EXCEPT ![r] = secret[r]]
    BY <1>2
  <2>1. ASSUME NEW pre \in BOOLEAN, AuthRequest(r, pre)
        PROVE  \E q \in {NoReq} \cup Pending, s \in ConnectKeys \cup {NoKey} : RequestMoves(r, q, s)
    <3>1. PICK q : q = [state |-> IF pre THEN "approved" ELSE "open",
                        key |-> IF pre THEN preKey.key ELSE NoKey]
      OBVIOUS
    <3>2. q \in Pending
      BY <1>2, <3>1 DEF Pending
    <3>3. /\ secret[r] = NoKey /\ grants[r] = 0 /\ request' = [request EXCEPT ![r] = q]
          /\ \A c \in Clients : call[c] # NoCall => call[c].req # r
          /\ secret' = [secret EXCEPT ![r] = secret[r]]
      BY <2>0, <2>1, <3>1 DEF AuthRequest
    <3>4. preKey' \in [key : ConnectKeys, left : Int]
      BY <1>2, <2>1 DEF AuthRequest
    <3> QED BY <1>2, <3>2, <3>3, <3>4 DEF RequestMoves
  <2>2. ASSUME NEW k \in ConnectKeys, ApproveConnect(r, k)
        PROVE  \E q \in {NoReq} \cup Pending, s \in ConnectKeys \cup {NoKey} : RequestMoves(r, q, s)
    <3>1. PICK q : q = [state |-> "approved", key |-> k]
      OBVIOUS
    <3>2. q \in Pending
      BY <3>1 DEF Pending
    <3>3. /\ request[r] # NoReq /\ request[r].state = "open" /\ request' = [request EXCEPT ![r] = q]
          /\ secret' = [secret EXCEPT ![r] = secret[r]] /\ preKey' = preKey
      BY <2>0, <2>2, <3>1 DEF ApproveConnect, Approvable, keyTables
    <3>4. secret[r] = NoKey
      BY <3>3 DEF KeysInv, SecretsFixed
    <3> QED BY <1>2, <3>2, <3>3, <3>4 DEF RequestMoves
  <2>3. ASSUME DropRequest(r)
        PROVE  \E q \in {NoReq} \cup Pending, s \in ConnectKeys \cup {NoKey} : RequestMoves(r, q, s)
    BY <1>2, <2>0, <2>3 DEF DropRequest, keyTables, RequestMoves
  <2>4. ASSUME AuthConnectStatus(r)
        PROVE  \E q \in {NoReq} \cup Pending, s \in ConnectKeys \cup {NoKey} : RequestMoves(r, q, s)
    <3>1. /\ request[r] # NoReq /\ request[r].state = "approved" /\ request' = request
          /\ secret' = [secret EXCEPT ![r] = request[r].key] /\ preKey' = preKey
      BY <2>4 DEF AuthConnectStatus, keyTables
    <3>2. request[r] \in Pending /\ request' = [request EXCEPT ![r] = request[r]]
      BY <1>2, <3>1
    <3>3. request[r].key \in ConnectKeys \cup {NoKey}
      BY <3>2 DEF Pending
    <3>4. secret[r] # NoKey => request[r].key = secret[r]
      BY <3>1 DEF KeysInv, SecretsFixed
    <3> QED BY <1>2, <3>1, <3>2, <3>3, <3>4 DEF RequestMoves
  <2> QED BY <2>1, <2>2, <2>3, <2>4
<1>4. /\ request'[r] = q /\ secret'[r] = s
      /\ \A t \in AuthRequests : t # r => request'[t] = request[t] /\ secret'[t] = secret[t]
  BY <1>2, <1>3 DEF RequestMoves
<1>5. KeyTypes'
  BY <1>1, <1>3 DEF RequestMoves, KeysInv, KeyTypes
<1>6. SecretsFixed'
  BY <1>3, <1>4 DEF RequestMoves, KeysInv, SecretsFixed
<1>7. \A c \in Clients : call[c] # NoCall => call[c].req \in AuthRequests
  BY DEF KeysInv, KeyTypes, Register
<1>8. CallsConsume'
  BY <1>1, <1>3, <1>4, <1>7 DEF RequestMoves, KeysInv, CallsConsume
<1>9. GrantsConsume' /\ OneCallPerRequest'
  BY <1>1, <1>3, <1>4 DEF RequestMoves, KeysInv, GrantsConsume, OneCallPerRequest
<1> QED BY <1>5, <1>6, <1>8, <1>9 DEF KeysInv

(* The register handler consumes the request: the call that carries it on   *)
(* is the only one, and the request has led to no account yet.              *)
LEMMA RegisterStep ==
    ASSUME KeysInv, NEW c \in Clients, NEW r \in AuthRequests, AuthRegister(c, r)
    PROVE  KeysInv'
<1>1. /\ UNCHANGED <<totalUses, quotaOf, preKey, secret, grants>>
      /\ call[c] = NoCall /\ request[r] # NoReq
      /\ request' = [request EXCEPT ![r] = NoReq]
      /\ call' = [call EXCEPT ![c] = [pc |-> "count", req |-> r, key |-> request[r].key, left |-> 0]]
  BY DEF AuthRegister, ConsumedRequest, keyTables
<1>2. /\ request \in [AuthRequests -> {NoReq} \cup Pending]
      /\ call \in [Clients -> {NoCall} \cup Register]
      /\ secret \in [AuthRequests -> ConnectKeys \cup {NoKey}]
  BY DEF KeysInv, KeyTypes
<1>3. PICK e : e = [pc |-> "count", req |-> r, key |-> request[r].key, left |-> 0]
  OBVIOUS
<1>4. secret[r] \in {NoKey, request[r].key} /\ request[r].key \in ConnectKeys \cup {NoKey}
  BY <1>1, <1>2 DEF KeysInv, SecretsFixed, Pending
<1>5. e \in Register /\ e.req = r /\ secret[r] \in {NoKey, e.key}
  BY <1>3, <1>4 DEF Register
<1>6. call' = [call EXCEPT ![c] = e]
  BY <1>1, <1>3
<1>7. /\ request'[r] = NoReq /\ \A t \in AuthRequests : t # r => request'[t] = request[t]
      /\ call'[c] = e /\ \A d \in Clients : d # c => call'[d] = call[d]
  BY <1>1, <1>2, <1>6
<1>8. grants[r] = 0
  BY <1>1 DEF KeysInv, GrantsConsume
<1>9. \A d \in Clients : call[d] # NoCall => call[d].req # r /\ call[d].req \in AuthRequests
  <2>1. \A d \in Clients : call[d] # NoCall => request[call[d].req] = NoReq
    BY DEF KeysInv, CallsConsume
  <2>2. \A d \in Clients : call[d] # NoCall => call[d].req \in AuthRequests
    BY <1>2 DEF Register
  <2> QED BY <1>1, <2>1, <2>2
<1>10. KeyTypes'
  <2>1. request' \in [AuthRequests -> {NoReq} \cup Pending]
    BY <1>1, <1>2
  <2>2. call' \in [Clients -> {NoCall} \cup Register]
    BY <1>2, <1>5, <1>6
  <2> QED BY <1>1, <2>1, <2>2 DEF KeysInv, KeyTypes
<1>11. SecretsFixed'
  BY <1>1, <1>7 DEF KeysInv, SecretsFixed
<1>12. CallsConsume'
  BY <1>1, <1>5, <1>7, <1>8, <1>9 DEF KeysInv, CallsConsume
<1>13. GrantsConsume'
  BY <1>1, <1>7 DEF KeysInv, GrantsConsume
<1>14. OneCallPerRequest'
  BY <1>5, <1>7, <1>9 DEF KeysInv, OneCallPerRequest
<1> QED BY <1>10, <1>11, <1>12, <1>13, <1>14 DEF KeysInv

(* A call that goes on keeps its request and its key, or it returns; with   *)
(* its return its request may have led to an account.                       *)
LEMMA CallSteps ==
    ASSUME KeysInv, NEW c \in Clients, CountUses(c) \/ LockKey(c) \/ AddAccount(c)
    PROVE  KeysInv'
<1>1. UNCHANGED <<totalUses, quotaOf, preKey, request, secret>>
  BY DEF CountUses, LockKey, AddAccount, keyTables
<1>2. call \in [Clients -> {NoCall} \cup Register] /\ grants \in [AuthRequests -> {0, 1}]
  BY DEF KeysInv, KeyTypes
<1>3. call[c] # NoCall
  <2>1. call[c].pc # "none"
    BY DEF CountUses, LockKey, AddAccount
  <2> QED BY <2>1, Nothing
<1>4. call[c] \in Register /\ call[c].req \in AuthRequests
  BY <1>2, <1>3 DEF Register
<1>5. PICK e \in {NoCall} \cup Register, r \in AuthRequests, n \in {0, 1} :
         /\ r = call[c].req /\ call' = [call EXCEPT ![c] = e]
         /\ grants' = [grants EXCEPT ![r] = n] /\ (n # 0 => e = NoCall)
         /\ (e # NoCall => e.req = call[c].req /\ e.key = call[c].key)
  <2>1. grants[call[c].req] = 0
    BY <1>3 DEF KeysInv, CallsConsume
  <2>2. grants' = grants => grants' = [grants EXCEPT ![call[c].req] = 0]
    BY <1>2, <1>4, <2>1
  <2>3. ASSUME Return(c), UNCHANGED grants
        PROVE  /\ call' = [call EXCEPT ![c] = NoCall]
               /\ grants' = [grants EXCEPT ![call[c].req] = 0]
    BY <2>2, <2>3 DEF Return
  <2>4. CASE CountUses(c)
    <3>1. UNCHANGED grants
      BY <2>4 DEF CountUses
    <3>2. CASE ~Exists(call[c].key)
      BY <1>4, <2>3, <2>4, <3>1, <3>2 DEF CountUses
    <3>3. CASE Exists(call[c].key)
      <4>1. PICK k : k = call[c].key
        OBVIOUS
      <4>2. PICK m : m = totalUses[quotaOf[k]] - Cardinality(LiveAccounts(k))
        OBVIOUS
      <4>3. call' = [call EXCEPT ![c].pc = "lock", ![c].left = m]
        BY <2>4, <3>3, <4>1, <4>2 DEF CountUses
      <4>4. m \in Int
        <5>1. IsFiniteSet(LiveAccounts(k))
          BY FS_Subset, AppKeysAssumption DEF LiveAccounts
        <5>2. Cardinality(LiveAccounts(k)) \in Nat
          BY <5>1, FS_CardinalityType
        <5>3. k # NoKey /\ k \in ConnectKeys \cup {NoKey} /\ quotaOf[k] # NoKey
          BY <1>4, <3>3, <4>1 DEF Exists, Register
        <5>4. totalUses[quotaOf[k]] \in Int
          BY <5>3 DEF KeysInv, KeyTypes
        <5> QED BY <4>2, <5>2, <5>4
      <4>5. PICK e : e = [call[c] EXCEPT !.pc = "lock", !.left = m]
        OBVIOUS
      <4>6. e \in Register /\ e.req = call[c].req /\ e.key = call[c].key
        BY <1>4, <4>4, <4>5 DEF Register
      <4>7. call' = [call EXCEPT ![c] = e]
        BY <1>2, <4>3, <4>5
      <4> QED BY <1>4, <2>2, <3>1, <4>6, <4>7
    <3> QED BY <3>2, <3>3
  <2>5. CASE LockKey(c)
    <3>1. UNCHANGED grants
      BY <2>5 DEF LockKey
    <3>2. Return(c) \/ call' = [call EXCEPT ![c].pc = "add"]
      BY <2>5 DEF LockKey
    <3>3. CASE Return(c)
      BY <1>4, <2>3, <3>1, <3>3
    <3>4. CASE call' = [call EXCEPT ![c].pc = "add"]
      <4>1. PICK e : e = [call[c] EXCEPT !.pc = "add"]
        OBVIOUS
      <4>2. e \in Register /\ e.req = call[c].req /\ e.key = call[c].key
        BY <1>4, <4>1 DEF Register
      <4>3. call' = [call EXCEPT ![c] = e]
        BY <1>2, <3>4, <4>1
      <4> QED BY <1>4, <2>2, <3>1, <4>2, <4>3
    <3> QED BY <3>2, <3>3, <3>4
  <2>6. CASE AddAccount(c)
    <3>1. Return(c)
      BY <2>6 DEF AddAccount
    <3>2. UNCHANGED grants \/ grants' = [grants EXCEPT ![call[c].req] = @ + 1]
      BY <2>6 DEF AddAccount
    <3>3. CASE UNCHANGED grants
      BY <1>4, <2>3, <3>1, <3>3
    <3>4. CASE grants' = [grants EXCEPT ![call[c].req] = @ + 1]
      <4>1. grants' = [grants EXCEPT ![call[c].req] = 1]
        BY <1>2, <1>4, <2>1, <3>4
      <4>2. call' = [call EXCEPT ![c] = NoCall]
        BY <3>1 DEF Return
      <4> QED BY <1>4, <4>1, <4>2
    <3> QED BY <3>2, <3>3, <3>4
  <2> QED BY <2>4, <2>5, <2>6
<1>6. /\ call'[c] = e /\ \A d \in Clients : d # c => call'[d] = call[d]
      /\ grants'[r] = n /\ \A t \in AuthRequests : t # r => grants'[t] = grants[t]
  BY <1>2, <1>5
<1>7. KeyTypes'
  <2>1. call' \in [Clients -> {NoCall} \cup Register]
    BY <1>2, <1>5
  <2>2. grants' \in [AuthRequests -> {0, 1}]
    BY <1>2, <1>5
  <2> QED BY <1>1, <2>1, <2>2 DEF KeysInv, KeyTypes
<1>8. request[r] = NoReq /\ grants[r] = 0 /\ secret[r] \in {NoKey, call[c].key}
  BY <1>3, <1>5 DEF KeysInv, CallsConsume
<1>9. \A d \in Clients \ {c} : call[d] # NoCall => call[d].req # r /\ call[d].req \in AuthRequests
  <2>1. \A d \in Clients \ {c} : call[d] # NoCall => call[d].req # call[c].req
    BY <1>3 DEF KeysInv, OneCallPerRequest
  <2>2. \A d \in Clients : call[d] # NoCall => call[d].req \in AuthRequests
    BY <1>2 DEF Register
  <2> QED BY <1>5, <2>1, <2>2
<1>10. SecretsFixed'
  BY <1>1 DEF KeysInv, SecretsFixed
<1>11. CallsConsume'
  <2>1. e # NoCall => n = 0 /\ e.req = r /\ secret[r] \in {NoKey, e.key}
    BY <1>5, <1>8
  <2> QED BY <1>1, <1>6, <1>8, <1>9, <2>1 DEF KeysInv, CallsConsume
<1>12. GrantsConsume'
  BY <1>1, <1>6, <1>8 DEF KeysInv, GrantsConsume
<1>13. OneCallPerRequest'
  BY <1>5, <1>6, <1>9 DEF KeysInv, OneCallPerRequest
<1> QED BY <1>7, <1>10, <1>11, <1>12, <1>13 DEF KeysInv

(* The operator's changes touch neither requests nor calls.                 *)
LEMMA OperatorSteps ==
    ASSUME KeysInv,
           \/ \E q \in Quotas : DeleteQuota(q) \/ \E n \in UseLimits : PutQuota(q, n)
           \/ \E k \in ConnectKeys : DeleteConnectKey(k) \/ \E q \in Quotas : PutConnectKey(k, q)
           \/ DropPreAuthorizedKey
           \/ \E a \in AppKeySet : DeleteAccount(a) \/ PruneAccounts(a)
           \/ UNCHANGED keyVars
    PROVE  KeysInv'
<1>1. UNCHANGED <<request, call, secret, grants>>
  BY DEF DeleteQuota, PutQuota, DeleteConnectKey, PutConnectKey, DropPreAuthorizedKey,
         DeleteAccount, PruneAccounts, keyVars
<1>2. /\ totalUses \in [Quotas -> Int] /\ quotaOf \in [ConnectKeys -> Quotas \cup {NoKey}]
      /\ preKey \in [key : ConnectKeys, left : Int]
  BY DEF KeysInv, KeyTypes
<1>3. \A n \in UseLimits : n \in Int
  BY AppKeysAssumption
<1>4. totalUses' \in [Quotas -> Int]
  BY <1>2, <1>3 DEF DeleteQuota, PutQuota, DeleteConnectKey, PutConnectKey, DropPreAuthorizedKey,
         DeleteAccount, PruneAccounts, keyVars, keyTables
<1>5. quotaOf' \in [ConnectKeys -> Quotas \cup {NoKey}]
  BY <1>2 DEF DeleteQuota, PutQuota, DeleteConnectKey, PutConnectKey, DropPreAuthorizedKey,
         DeleteAccount, PruneAccounts, keyVars, keyTables
<1>6. preKey' \in [key : ConnectKeys, left : Int]
  BY <1>2 DEF DeleteQuota, PutQuota, DeleteConnectKey, PutConnectKey, DropPreAuthorizedKey,
         DeleteAccount, PruneAccounts, keyVars, keyTables
<1>7. KeyTypes'
  BY <1>1, <1>4, <1>5, <1>6 DEF KeysInv, KeyTypes
<1> QED BY <1>1, <1>7 DEF KeysInv, SecretsFixed, CallsConsume, GrantsConsume, OneCallPerRequest

(* KeysInv is inductive.                                                    *)
THEOREM KeysInvariance == KeysSpec => []KeysInv
<1>1. KeysInit => KeysInv
  BY KeysInitHolds
<1>2. KeysInv /\ [KeysNext]_keyVars => KeysInv'
  <2> SUFFICES ASSUME KeysInv, [KeysNext]_keyVars PROVE KeysInv'
    OBVIOUS
  <2> QED BY RequestSteps, RegisterStep, CallSteps, OperatorSteps DEF KeysNext
<1> QED BY <1>1, <1>2, PTL DEF KeysSpec

(* However often and however concurrently applications register and users   *)
(* approve, one approval leads to one account at most, under the connect    *)
(* key whose secret the application was given, if it was given one          *)
(* (handleAuthRegister, handlePOSTAuthConnect), for any number of clients,  *)
(* keys and quotas.                                                         *)
THEOREM RegistrationsAreApproved == KeysSpec => []RegistrationsApproved
<1>1. KeysInv => RegistrationsApproved
  <2> SUFFICES ASSUME KeysInv PROVE RegistrationsApproved
    OBVIOUS
  <2>1. \A r \in AuthRequests : grants[r] <= 1
    <3>1. \A r \in AuthRequests : grants[r] \in {0, 1}
      BY DEF KeysInv, KeyTypes
    <3> QED BY <3>1
  <2>2. OneAccountPerApproval
    BY <2>1 DEF KeysInv, OneCallPerRequest, OneAccountPerApproval
  <2>3. SecretMatchesKey
    BY DEF KeysInv, CallsConsume, SecretMatchesKey
  <2> QED BY <2>2, <2>3 DEF RegistrationsApproved
<1> QED BY <1>1, KeysInvariance, PTL

-----------------------------------------------------------------------------
(***************************************************************************)
(* The listing of object events (ObjectEvents)                             *)
(***************************************************************************)

EventRows == [at : Int, deleted : BOOLEAN]
ObjectTx  == [op : {"pin", "delete", "unblock", "migrate"}, key : ObjKeys, now : Nat,
              version : Nat \ {0}]

(* Clock and tables keep their types.                                       *)
EventTypes ==
    /\ clock \in Nat /\ begun \in Nat
    /\ object \in [ObjKeys -> Nat] /\ placed \in [ObjKeys -> Nat]
    /\ event \in [ObjKeys -> EventRows]
    /\ tx \in [Writers -> {NoTx} \cup ObjectTx]
    /\ cursor \in [at : Int, key : Nat]

(* Nothing is stamped with a second to come, and the cursor is in a second  *)
(* that is over.                                                            *)
InThePast ==
    /\ \A w \in Writers : tx[w] # NoTx => tx[w].now <= clock
    /\ \A k \in ObjKeys : event[k].at <= clock
    /\ cursor.at < clock

(* Events tell whether the object exists; without one there never was an    *)
(* object.                                                                  *)
EventsTell ==
    \A k \in ObjKeys :
        /\ event[k].deleted <=> object[k] = NoObject
        /\ event[k] = NoEvent => copy[k] = NoCopy

(* The event of k comes after the last one of the page.                     *)
AfterPage(k) == Before(listing.events[listing.last].at, listing.last, event[k].at, k)

(* What the page was built from: it ends in a second that is over.          *)
PageWellFormed ==
    /\ listing.step \in {"objects", "slabs"}
    /\ DOMAIN listing.events \subseteq ObjKeys /\ listing.last \in DOMAIN listing.events
    /\ \A k \in DOMAIN listing.events :
          /\ listing.events[k] \in EventRows
          /\ listing.events[k].at <= listing.events[listing.last].at
    /\ listing.events[listing.last].at < clock

(* An event of the page is still the object's event, and what was loaded    *)
(* for it is still the object, or the object has an event after the page,   *)
(* unless that one was late.                                                *)
PageCurrent ==
    \A k \in DOMAIN listing.events :
        /\ event[k] # NoEvent
        /\ \/ k \in late
           \/ AfterPage(k)
           \/ /\ event[k] = listing.events[k]
              /\ (listing.step = "slabs" /\ ~event[k].deleted => listing.meta[k] = object[k])

(* Objects that OnlyLatePassed leaves out.                                  *)
Excused == blockedKeys \cup moved \cup late

(* An object the page passes over is known to the client.                   *)
PagePassesNothing ==
    \A k \in ObjKeys \ (Excused \cup DOMAIN listing.events) : InSync(k) \/ AfterPage(k)

PageOK == listing # NoPage => PageWellFormed /\ PageCurrent /\ PagePassesNothing

EventsInv == EventTypes /\ InThePast /\ EventsTell /\ OnlyLatePassed /\ PageOK

(* The records that stand for nothing.                                      *)
LEMMA NoEvents ==
    /\ NoEvent \in EventRows /\ NoEvent.at = -1 /\ NoEvent.deleted = TRUE
    /\ NoPage.step = "none" /\ NoTx.op = "none"
    /\ \A k \in ObjKeys : k \in Nat
BY EventsAssumption DEF NoEvent, EventRows, NoPage, NoTx

(* To begin with there is nothing to list.                                  *)
LEMMA EventsInitHolds == EventsInit => EventsInv
<1> SUFFICES ASSUME EventsInit PROVE EventsInv
  OBVIOUS
<1>1. EventTypes
  BY NoEvents DEF EventsInit, EventTypes, NoObject
<1>2. InThePast
  BY NoEvents DEF EventsInit, InThePast
<1>3. EventsTell /\ OnlyLatePassed
  BY NoEvents DEF EventsInit, EventsTell, OnlyLatePassed, InSync, Slabs, NoCopy, NoObject
<1>4. PageOK
  BY DEF EventsInit, PageOK
<1> QED BY <1>1, <1>2, <1>3, <1>4 DEF EventsInv

(* The cursor and the page, if there is one, come before an event of k      *)
(* stamped at.                                                              *)
Ahead(at, k) ==
    /\ Before(cursor.at, cursor.key, at, k)
    /\ listing # NoPage => Before(listing.events[listing.last].at, listing.last, at, k)

(* An event is late, or ahead of the cursor and the page: all that was      *)
(* listed lies in seconds that are over.                                    *)
LEMMA LateOrAhead ==
    ASSUME EventsInv, NEW at \in Int, at <= clock, NEW k \in ObjKeys,
           ~(at < clock /\ Overtaken(at, k))
    PROVE  Ahead(at, k)
<1>1. clock \in Nat /\ cursor \in [at : Int, key : Nat] /\ cursor.at < clock
  BY DEF EventsInv, EventTypes, InThePast
<1>2. listing # NoPage => /\ listing.events[listing.last].at \in Int
                          /\ listing.events[listing.last].at < clock
  BY DEF EventsInv, PageOK, PageWellFormed, EventRows
<1>3. CASE at = clock
  BY <1>1, <1>2, <1>3 DEF Ahead, Before
<1>4. CASE at < clock
  BY <1>4 DEF Ahead, Overtaken
<1> QED BY <1>1, <1>3, <1>4

(* A step that concerns object k.  Its event is written, and the event is   *)
(* late or ahead of all that was listed; or object and event stay as they   *)
(* are, and a move of sectors is remembered.                                *)
LEMMA ChangeSteps ==
    ASSUME EventsInv, NEW k \in ObjKeys, NEW o \in Nat, NEW e \in EventRows,
           UNCHANGED <<clock, cursor, copy, listing>>,
           begun' \in Nat, tx' \in [Writers -> {NoTx} \cup ObjectTx],
           \A w \in Writers : tx'[w] # NoTx => tx'[w].now <= clock,
           object' = [object EXCEPT ![k] = o], event' = [event EXCEPT ![k] = e],
           placed' \in [ObjKeys -> Nat],
           \A l \in ObjKeys : l # k => placed'[l] = placed[l],
           Excused \ {k} \subseteq Excused', late \ {k} \subseteq late',
           \/ /\ e.at \in Nat /\ e.at <= clock /\ (e.deleted <=> o = NoObject)
              /\ k \in late' \/ Ahead(e.at, k)
           \/ /\ o = object[k] /\ e = event[k] /\ late \subseteq late'
              /\ k \in Excused' \/ Slabs(k)' = Slabs(k)
              /\ k \in Excused /\ k \notin Excused' => e = NoEvent
    PROVE  EventsInv'
<1>1. /\ clock \in Nat /\ object \in [ObjKeys -> Nat] /\ event \in [ObjKeys -> EventRows]
      /\ cursor \in [at : Int, key : Nat] /\ \A l \in ObjKeys : l \in Nat
  BY NoEvents DEF EventsInv, EventTypes
<1>2. /\ object'[k] = o /\ event'[k] = e
      /\ \A l \in ObjKeys : l # k => /\ object'[l] = object[l] /\ event'[l] = event[l]
                                     /\ Slabs(l)' = Slabs(l)
  BY <1>1 DEF Slabs
<1> DEFINE Written == /\ e.at \in Nat /\ e.at <= clock /\ (e.deleted <=> o = NoObject)
                      /\ k \in late' \/ Ahead(e.at, k)
           Kept    == /\ o = object[k] /\ e = event[k] /\ late \subseteq late'
                      /\ k \in Excused' \/ Slabs(k)' = Slabs(k)
                      /\ k \in Excused /\ k \notin Excused' => e = NoEvent
<1>3. Written \/ Kept
  OBVIOUS
<1>4. Written => e # NoEvent
  BY NoEvents
<1>5. e.at \in Int /\ e.at <= clock
  BY <1>1, <1>3 DEF EventsInv, InThePast, EventRows
<1> HIDE DEF Written, Kept
<1>6. EventTypes'
  BY DEF EventsInv, EventTypes
<1>7. InThePast'
  BY <1>2, <1>5 DEF EventsInv, InThePast
<1>8. EventsTell'
  BY <1>2, <1>3, <1>4 DEF Written, Kept, EventsInv, EventsTell
<1>9. late' \subseteq Excused'
  BY DEF Excused
<1>10. \A l \in ObjKeys : /\ event'[l] = NoEvent /\ Kept => InSync(l)'
  <2>1. \A l \in ObjKeys : event'[l] = NoEvent => object'[l] = NoObject /\ copy'[l] = NoCopy
    BY <1>8, NoEvents DEF EventsTell
  <2> QED BY <2>1 DEF InSync, Slabs, NoCopy, NoObject
<1>11. ASSUME NEW l \in ObjKeys, l \notin Excused', l # k \/ Kept
       PROVE  \/ event'[l] = NoEvent /\ InSync(l)'
              \/ /\ event'[l] = event[l] /\ object'[l] = object[l] /\ l \notin Excused
                 /\ InSync(l)' <=> InSync(l)
  <2>1. object'[l] = object[l] /\ event'[l] = event[l] /\ Slabs(l)' = Slabs(l)
    BY <1>2, <1>11 DEF Kept
  <2>2. InSync(l)' <=> InSync(l)
    BY <2>1 DEF InSync
  <2>3. CASE l # k
    BY <1>11, <2>1, <2>2, <2>3
  <2>4. CASE l = k /\ Kept
    BY <1>2, <1>10, <1>11, <2>1, <2>2, <2>4 DEF Kept
  <2> QED BY <1>11, <2>3, <2>4
<1>12. OnlyLatePassed'
  <2> SUFFICES ASSUME NEW l \in ObjKeys, l \notin Excused', ~InSync(l)' PROVE AfterCursor(l)'
    BY DEF OnlyLatePassed, Excused
  <2>1. CASE l # k \/ Kept
    <3>1. event'[l] = event[l] /\ l \notin Excused /\ ~InSync(l)
      BY <1>11, <2>1
    <3>2. AfterCursor(l)
      BY <3>1 DEF EventsInv, OnlyLatePassed, Excused
    <3> QED BY <3>1, <3>2 DEF AfterCursor
  <2>2. CASE l = k /\ Written
    BY <1>2, <1>9, <2>2 DEF Written, Ahead, AfterCursor
  <2> QED BY <1>3, <2>1, <2>2
<1>13. ASSUME listing # NoPage PROVE PageWellFormed' /\ PageCurrent' /\ PagePassesNothing'
  <2>1. PageWellFormed /\ PageCurrent /\ PagePassesNothing
    BY <1>13 DEF EventsInv, PageOK
  <2>2. PageWellFormed'
    BY <2>1 DEF PageWellFormed
  <2>3. Written => k \in late' \/ AfterPage(k)'
    BY <1>2, <1>13 DEF Written, Ahead, AfterPage
  <2>4. \A l \in ObjKeys : event'[l] = event[l] => (AfterPage(l) => AfterPage(l)')
    BY DEF AfterPage
  <2>5. PageCurrent'
    <3> SUFFICES ASSUME NEW l \in DOMAIN listing.events
                 PROVE  /\ event'[l] # NoEvent
                        /\ \/ l \in late'
                           \/ AfterPage(l)'
                           \/ /\ event'[l] = listing.events[l]
                              /\ (listing.step = "slabs" /\ ~event'[l].deleted =>
                                     listing.meta[l] = object'[l])
      BY DEF PageCurrent
    <3>1. l \in ObjKeys
      BY <2>1 DEF PageWellFormed
    <3>2. CASE l # k \/ Kept
      <4>1. object'[l] = object[l] /\ event'[l] = event[l] /\ (l \in late => l \in late')
        BY <1>2, <3>1, <3>2 DEF Kept
      <4> QED BY <2>1, <2>4, <3>1, <4>1 DEF PageCurrent
    <3>3. CASE l = k /\ Written
      BY <1>2, <1>4, <2>3, <3>3
    <3> QED BY <1>3, <3>2, <3>3
  <2>6. PagePassesNothing'
    <3> SUFFICES ASSUME NEW l \in ObjKeys, l \notin Excused', l \notin DOMAIN listing.events
                 PROVE  InSync(l)' \/ AfterPage(l)'
      BY DEF PagePassesNothing
    <3>1. CASE l # k \/ Kept
      <4>1. \/ InSync(l)'
            \/ event'[l] = event[l] /\ l \notin Excused /\ (InSync(l)' <=> InSync(l))
        BY <1>11, <3>1
      <4> QED BY <2>1, <2>4, <4>1 DEF PagePassesNothing
    <3>2. CASE l = k /\ Written
      BY <1>9, <2>3, <3>2
    <3> QED BY <1>3, <3>1, <3>2
  <2> QED BY <2>2, <2>5, <2>6
<1>14. PageOK'
  BY <1>13 DEF PageOK
<1> QED BY <1>6, <1>7, <1>8, <1>12, <1>14 DEF EventsInv

(* A transaction that writes the event of k.                                *)
LEMMA WriteSteps ==
    ASSUME EventsInv, NEW w \in Writers, tx[w] # NoTx, NEW k \in ObjKeys, NEW o \in Nat,
           NEW e \in EventRows, e.at = tx[w].now, e.deleted <=> o = NoObject,
           object' = [object EXCEPT ![k] = o], event' = [event EXCEPT ![k] = e],
           Told(w, k), End(w), blockedKeys \ {k} \subseteq blockedKeys',
           UNCHANGED <<clock, begun, placed, cursor, copy, listing>>
    PROVE  EventsInv'
<1>1. /\ begun' \in Nat /\ placed' \in [ObjKeys -> Nat]
      /\ tx \in [Writers -> {NoTx} \cup ObjectTx] /\ clock \in Nat
  BY DEF EventsInv, EventTypes
<1>2. /\ tx' \in [Writers -> {NoTx} \cup ObjectTx]
      /\ \A v \in Writers : tx'[v] # NoTx => tx'[v].now <= clock
  BY <1>1 DEF End, EventsInv, InThePast
<1>3. tx[w].now \in Nat /\ tx[w].now <= clock
  BY <1>1 DEF ObjectTx, EventsInv, InThePast
<1>4. /\ Excused \ {k} \subseteq Excused' /\ late \ {k} \subseteq late'
  BY DEF Told, Excused
<1>5. k \in late' \/ Ahead(e.at, k)
  <2>1. CASE Stamp(w) < clock /\ Overtaken(Stamp(w), k)
    BY <2>1 DEF Told
  <2>2. CASE ~(Stamp(w) < clock /\ Overtaken(Stamp(w), k))
    BY <1>3, <2>2, LateOrAhead DEF Stamp
  <2> QED BY <2>1, <2>2
<1> QED BY <1>1, <1>2, <1>3, <1>4, <1>5, ChangeSteps

(* A transaction that leaves objects and events alone.                      *)
LEMMA QuietSteps ==
    ASSUME EventsInv, NEW k \in ObjKeys,
           UNCHANGED <<clock, object, event, cursor, copy, listing, late>>,
           begun' \in Nat, tx' \in [Writers -> {NoTx} \cup ObjectTx],
           \A w \in Writers : tx'[w] # NoTx => tx'[w].now <= clock,
           placed' \in [ObjKeys -> Nat], \A l \in ObjKeys : l # k => placed'[l] = placed[l],
           moved \subseteq moved', placed'[k] = placed[k] \/ object[k] = NoObject \/ k \in moved',
           blockedKeys \ {k} \subseteq blockedKeys',
           k \in blockedKeys /\ k \notin blockedKeys' => event[k] = NoEvent
    PROVE  EventsInv'
<1>1. PICK o \in Nat : o = object[k]
  BY DEF EventsInv, EventTypes
<1>2. PICK e \in EventRows : e = event[k]
  BY DEF EventsInv, EventTypes
<1>3. object' = [object EXCEPT ![k] = o] /\ event' = [event EXCEPT ![k] = e]
  BY <1>1, <1>2 DEF EventsInv, EventTypes
<1>4. /\ Excused \ {k} \subseteq Excused' /\ moved' \subseteq Excused'
      /\ k \in Excused /\ k \notin Excused' => event[k] = NoEvent
  BY DEF Excused
<1>5. k \in Excused' \/ Slabs(k)' = Slabs(k)
  BY <1>4 DEF Slabs
<1>6. late \ {k} \subseteq late' /\ late \subseteq late'
  OBVIOUS
<1>7. /\ o = object[k] /\ e = event[k] /\ late \subseteq late'
      /\ k \in Excused' \/ Slabs(k)' = Slabs(k)
      /\ k \in Excused /\ k \notin Excused' => e = NoEvent
  BY <1>1, <1>2, <1>4, <1>5, <1>6
<1>8. UNCHANGED <<clock, cursor, copy, listing>>
  OBVIOUS
<1> QED BY ONLY EventsInv, <1>3, <1>4, <1>6, <1>7, <1>8, ChangeSteps,
           begun' \in Nat, tx' \in [Writers -> {NoTx} \cup ObjectTx],
           \A w \in Writers : tx'[w] # NoTx => tx'[w].now <= clock,
           placed' \in [ObjKeys -> Nat], \A l \in ObjKeys : l # k => placed'[l] = placed[l]

(* A writer's step.                                                         *)
LEMMA WriterSteps ==
    ASSUME EventsInv, NEW w \in Writers,
           \/ \E op \in {"pin", "delete", "unblock", "migrate"}, k \in ObjKeys : Begin(w, op, k)
           \/ Writes(w) \/ AbortTx(w)
    PROVE  EventsInv'
<1>1. /\ clock \in Nat /\ begun \in Nat /\ object \in [ObjKeys -> Nat]
      /\ placed \in [ObjKeys -> Nat]
      /\ event \in [ObjKeys -> EventRows] /\ tx \in [Writers -> {NoTx} \cup ObjectTx]
  BY DEF EventsInv, EventTypes
<1>2. \A v \in Writers : tx[v] # NoTx => tx[v].now <= clock
  BY DEF EventsInv, InThePast
<1>3. ASSUME tx[w] # NoTx
      PROVE  tx[w].key \in ObjKeys /\ tx[w].now \in Nat /\ tx[w].version \in Nat \ {0}
  BY <1>1, <1>3 DEF ObjectTx
<1>4. ASSUME End(w)
      PROVE  /\ tx' \in [Writers -> {NoTx} \cup ObjectTx]
             /\ \A v \in Writers : tx'[v] # NoTx => tx'[v].now <= clock
  BY <1>1, <1>2, <1>4 DEF End
<1>5. ASSUME NEW op \in {"pin", "delete", "unblock", "migrate"}, NEW k \in ObjKeys, Begin(w, op, k)
      PROVE  EventsInv'
  <2>1. PICK t : t = [op |-> op, key |-> k, now |-> clock, version |-> begun + 1]
    OBVIOUS
  <2>2. t \in ObjectTx /\ t.now <= clock
    BY <1>1, <2>1 DEF ObjectTx
  <2>3. tx' = [tx EXCEPT ![w] = t]
    BY <1>5, <2>1 DEF Begin
  <2>4. /\ begun' \in Nat /\ tx' \in [Writers -> {NoTx} \cup ObjectTx]
        /\ \A v \in Writers : tx'[v] # NoTx => tx'[v].now <= clock
    BY <1>1, <1>2, <1>5, <2>2, <2>3 DEF Begin
  <2>5. UNCHANGED <<clock, object, event, blockedKeys, cursor, copy, listing, late>>
    BY <1>5 DEF Begin
  <2>6. /\ placed' \in [ObjKeys -> Nat] /\ \A l \in ObjKeys : l # k => placed'[l] = placed[l]
        /\ moved \subseteq moved'
        /\ placed'[k] = placed[k] \/ object[k] = NoObject \/ k \in moved'
    BY <1>1, <1>5 DEF Begin
  <2> QED BY <2>4, <2>5, <2>6, QuietSteps
<1>6. ASSUME NEW k \in ObjKeys, End(w), UNCHANGED <<clock, object, begun, placed, event, cursor, copy,
                                                   listing, history>>,
             blockedKeys \ {k} \subseteq blockedKeys',
             k \in blockedKeys /\ k \notin blockedKeys' => event[k] = NoEvent
      PROVE  EventsInv'
  BY <1>1, <1>4, <1>6, QuietSteps DEF history
<1>7. ASSUME NEW k \in ObjKeys, tx[w] # NoTx, event[k] # NoEvent, event' = BumpedEvent(w, k),
             Told(w, k), End(w), UNCHANGED <<clock, object, begun, placed, cursor, copy, listing>>,
             blockedKeys \ {k} \subseteq blockedKeys'
      PROVE  EventsInv'
  <2>1. PICK e : e = [event[k] EXCEPT !.at = tx[w].now]
    OBVIOUS
  <2>2. e \in EventRows /\ e.at = tx[w].now /\ e.deleted = event[k].deleted
    BY <1>1, <1>3, <1>7, <2>1 DEF EventRows
  <2>3. event' = [event EXCEPT ![k] = e]
    BY <1>1, <1>7, <2>1 DEF BumpedEvent, Stamp
  <2>4. PICK o \in Nat : o = object[k]
    BY <1>1
  <2>5. object' = [object EXCEPT ![k] = o] /\ (e.deleted <=> o = NoObject)
    BY <1>1, <1>7, <2>2, <2>4 DEF EventsInv, EventsTell
  <2> QED BY <1>7, <2>2, <2>3, <2>5, WriteSteps
<1>8. CASE PinObject(w)
  <2>1. tx[w] # NoTx
    BY <1>8, NoEvents DEF PinObject
  <2>2. PICK k \in ObjKeys : k = tx[w].key
    BY <1>3, <2>1
  <2>3. PICK e \in EventRows : e = [at |-> tx[w].now, deleted |-> FALSE]
    <3>1. [at |-> tx[w].now, deleted |-> FALSE] \in EventRows
      BY <1>3, <2>1 DEF EventRows
    <3> QED BY <3>1
  <2>4. PICK o \in Nat : o = tx[w].version /\ o # NoObject
    BY <1>3, <2>1 DEF NoObject
  <2>5. object' = [object EXCEPT ![k] = o] /\ event' = [event EXCEPT ![k] = e] /\ Told(w, k)
    BY <1>8, <2>2, <2>3, <2>4 DEF PinObject, Stamp
  <2>6. End(w) /\ UNCHANGED <<clock, begun, placed, blockedKeys, cursor, copy, listing>>
    BY <1>8 DEF PinObject
  <2>7. e.at = tx[w].now /\ (e.deleted <=> o = NoObject)
    BY <2>3, <2>4
  <2> QED BY <2>1, <2>5, <2>6, <2>7, WriteSteps
<1>9. CASE DeleteObject(w)
  <2>1. tx[w] # NoTx
    BY <1>9, NoEvents DEF DeleteObject
  <2>2. PICK k \in ObjKeys : k = tx[w].key
    BY <1>3, <2>1
  <2>3. PICK e \in EventRows : e = [at |-> tx[w].now, deleted |-> TRUE]
    <3>1. [at |-> tx[w].now, deleted |-> TRUE] \in EventRows
      BY <1>3, <2>1 DEF EventRows
    <3> QED BY <3>1
  <2>4. PICK o \in Nat : o = NoObject
    BY DEF NoObject
  <2>5. object' = [object EXCEPT ![k] = o] /\ event' = [event EXCEPT ![k] = e] /\ Told(w, k)
    BY <1>9, <2>2, <2>3, <2>4 DEF DeleteObject, Stamp
  <2>6. End(w) /\ UNCHANGED <<clock, begun, placed, blockedKeys, cursor, copy, listing>>
    BY <1>9 DEF DeleteObject
  <2>7. e.at = tx[w].now /\ (e.deleted <=> o = NoObject)
    BY <2>3, <2>4
  <2> QED BY <2>1, <2>5, <2>6, <2>7, WriteSteps
<1>10. CASE UnblockObject(w)
  <2>1. tx[w] # NoTx
    BY <1>10, NoEvents DEF UnblockObject
  <2>2. PICK k \in ObjKeys : k = tx[w].key
    BY <1>3, <2>1
  <2>3. /\ End(w) /\ UNCHANGED <<clock, object, begun, placed, cursor, copy, listing>>
        /\ blockedKeys' = blockedKeys \ {k}
        /\ IF k \in blockedKeys THEN Bump(w, k) ELSE UNCHANGED <<event, history>>
    BY <1>10, <2>2 DEF UnblockObject
  <2>4. CASE k \notin blockedKeys \/ event[k] = NoEvent
    <3>1. UNCHANGED <<event, history>>
      BY <2>3, <2>4 DEF Bump
    <3> QED BY <1>6, <2>3, <2>4, <3>1
  <2>5. CASE k \in blockedKeys /\ event[k] # NoEvent
    <3>1. event' = BumpedEvent(w, k) /\ Told(w, k)
      BY <2>3, <2>5 DEF Bump
    <3> QED BY <1>7, <2>1, <2>3, <2>5, <3>1
  <2> QED BY <2>4, <2>5
<1>11. CASE RecordSlabMigrated(w)
  <2>1. tx[w] # NoTx
    BY <1>11, NoEvents DEF RecordSlabMigrated
  <2>2. PICK k \in ObjKeys : k = tx[w].key
    BY <1>3, <2>1
  <2>3. /\ End(w) /\ UNCHANGED <<clock, object, begun, placed, blockedKeys, cursor, copy, listing>>
        /\ IF object[k] = NoObject THEN UNCHANGED <<event, history>> ELSE Bump(w, k)
    BY <1>11, <2>2 DEF RecordSlabMigrated
  <2>4. CASE UNCHANGED <<event, history>>
    BY <1>6, <2>3, <2>4
  <2>5. CASE event[k] # NoEvent /\ event' = BumpedEvent(w, k) /\ Told(w, k)
    BY <1>7, <2>1, <2>3, <2>5
  <2> QED BY <2>3, <2>4, <2>5 DEF Bump
<1>12. CASE AbortTx(w)
  <2>1. /\ tx[w] # NoTx /\ End(w)
        /\ UNCHANGED <<clock, object, begun, placed, event, blockedKeys, cursor, copy, listing, history>>
    BY <1>12 DEF AbortTx
  <2>2. PICK k \in ObjKeys : k = tx[w].key
    BY <1>3, <2>1
  <2> QED BY <1>6, <2>1, <2>2
<1> QED BY <1>5, <1>8, <1>9, <1>10, <1>11, <1>12 DEF Writes

(* A block hides an object and changes nothing else.                        *)
LEMMA BlockStep ==
    ASSUME EventsInv, NEW k \in ObjKeys, BlockObject(k)
    PROVE  EventsInv'
<1>1. /\ UNCHANGED <<clock, object, begun, placed, event, tx, cursor, copy, listing, moved, late>>
      /\ blockedKeys \subseteq blockedKeys'
  BY DEF BlockObject, history
<1>2. /\ begun' \in Nat /\ tx' \in [Writers -> {NoTx} \cup ObjectTx]
      /\ \A w \in Writers : tx'[w] # NoTx => tx'[w].now <= clock
      /\ placed' \in [ObjKeys -> Nat]
  BY <1>1 DEF EventsInv, EventTypes, InThePast
<1> QED BY <1>1, <1>2, QuietSteps

(* The first statement of a listing: what it leaves out the client has, or  *)
(* comes after the page.                                                    *)
LEMMA ListStep ==
    ASSUME EventsInv, ListObjects
    PROVE  EventsInv'
<1>1. UNCHANGED <<clock, object, begun, placed, event, blockedKeys, tx, cursor, copy, moved, late>>
  BY DEF ListObjects, history
<1>2. PICK page \in SUBSET Unseen : \E last \in page :
         /\ IsPage(page, last)
         /\ listing' = [step |-> "objects", events |-> [k \in page |-> event[k]], last |-> last]
  BY DEF ListObjects
<1>3. PICK last \in page :
         /\ IsPage(page, last)
         /\ listing' = [step |-> "objects", events |-> [k \in page |-> event[k]], last |-> last]
  BY <1>2
<1>4. /\ listing'.step = "objects" /\ listing'.last = last /\ DOMAIN listing'.events = page
      /\ \A k \in page : listing'.events[k] = event[k]
  BY <1>3
<1>5. /\ clock \in Nat /\ event \in [ObjKeys -> EventRows] /\ cursor \in [at : Int, key : Nat]
      /\ \A k \in ObjKeys : k \in Nat /\ event[k].at \in Int
  BY NoEvents DEF EventsInv, EventTypes, EventRows
<1>6. /\ page \subseteq ObjKeys
      /\ \A k \in page : event[k] # NoEvent /\ event[k].at < clock
  BY <1>2 DEF Unseen, SecondOver
<1>7. \A k \in page : event[k].at <= event[last].at
  <2>1. \A k \in page \ {last} : Precedes(k, last)
    BY <1>3 DEF IsPage
  <2> QED BY <1>3, <1>5, <1>6, <2>1 DEF Precedes, Before
<1>8. PageWellFormed'
  BY <1>1, <1>3, <1>4, <1>5, <1>6, <1>7 DEF PageWellFormed
<1>9. PageCurrent'
  BY <1>1, <1>4, <1>6 DEF PageCurrent
<1>10. PagePassesNothing'
  <2> SUFFICES ASSUME NEW k \in ObjKeys \ (Excused \cup page), ~InSync(k)
               PROVE  AfterPage(k)'
    BY <1>1, <1>4 DEF PagePassesNothing, InSync, Slabs, Excused
  <2>1. AfterCursor(k)
    BY DEF EventsInv, OnlyLatePassed, Excused
  <2>2. event[k] # NoEvent
    <3>1. event[k] = NoEvent => object[k] = NoObject /\ copy[k] = NoCopy
      BY NoEvents DEF EventsInv, EventsTell
    <3> QED BY <3>1 DEF InSync, Slabs, NoCopy, NoObject
  <2>3. CASE event[k].at >= clock
    BY <1>1, <1>3, <1>4, <1>5, <1>6, <2>3 DEF AfterPage, Before
  <2>4. CASE event[k].at < clock
    <3>1. k \in Unseen \ page
      BY <2>1, <2>2, <2>4 DEF Unseen, SecondOver, Excused
    <3>2. Precedes(last, k)
      BY <1>3, <3>1 DEF IsPage
    <3> QED BY <1>1, <1>3, <1>4, <3>2 DEF AfterPage, Precedes
  <2> QED BY <1>5, <2>3, <2>4
<1>11. PageOK'
  BY <1>8, <1>9, <1>10 DEF PageOK
<1>12. EventTypes' /\ InThePast' /\ EventsTell' /\ OnlyLatePassed'
  BY <1>1 DEF EventsInv, EventTypes, InThePast, EventsTell, OnlyLatePassed, InSync, Slabs, AfterCursor
<1> QED BY <1>11, <1>12 DEF EventsInv

(* The second statement reads the objects of the page.                      *)
LEMMA LoadStep ==
    ASSUME EventsInv, LoadObjects
    PROVE  EventsInv'
<1>1. UNCHANGED <<clock, object, begun, placed, event, blockedKeys, tx, cursor, copy, moved, late>>
  BY DEF LoadObjects, history
<1>2. listing # NoPage
  BY NoEvents DEF LoadObjects
<1>3. PageWellFormed /\ PageCurrent /\ PagePassesNothing
  BY <1>2 DEF EventsInv, PageOK
<1>4. CASE listing' = NoPage
  BY <1>1, <1>4 DEF EventsInv, EventTypes, InThePast, EventsTell, OnlyLatePassed, InSync, Slabs,
                    AfterCursor, PageOK
<1>5. CASE listing' # NoPage
  <2>1. listing' = [step |-> "slabs", events |-> listing.events, last |-> listing.last,
                    meta |-> [k \in Live |-> object[k]]]
    BY <1>5 DEF LoadObjects
  <2>2. /\ listing'.step = "slabs" /\ listing'.events = listing.events /\ listing'.last = listing.last
        /\ \A k \in Live : listing'.meta[k] = object[k]
    BY <2>1
  <2>3. PageWellFormed' /\ \A k : AfterPage(k)' <=> AfterPage(k)
    BY <1>1, <1>3, <2>2 DEF PageWellFormed, AfterPage
  <2>4. PageCurrent'
    BY <1>1, <1>3, <2>2, <2>3 DEF PageCurrent, Live
  <2>5. PagePassesNothing'
    BY <1>1, <1>3, <2>2, <2>3 DEF PagePassesNothing, InSync, Slabs, Excused
  <2> QED BY <1>1, <2>3, <2>4, <2>5
       DEF EventsInv, EventTypes, InThePast, EventsTell, OnlyLatePassed, InSync, Slabs, AfterCursor, PageOK
<1> QED BY <1>4, <1>5

(* The client gets the page and its cursor moves to the page's end: the     *)
(* objects of the page are as they were read, or have a later event.        *)
LEMMA DeliverStep ==
    ASSUME EventsInv, LoadObjectSlabs
    PROVE  EventsInv'
<1>1. /\ UNCHANGED <<clock, object, begun, placed, event, blockedKeys, tx, moved, late>>
      /\ listing' = NoPage /\ listing.step = "slabs"
  BY DEF LoadObjectSlabs, history
<1>2. PageWellFormed /\ PageCurrent /\ PagePassesNothing
  BY <1>1, NoEvents DEF EventsInv, PageOK
<1>3. /\ clock \in Nat /\ object \in [ObjKeys -> Nat] /\ event \in [ObjKeys -> EventRows]
  BY DEF EventsInv, EventTypes
<1>4. \A k \in ObjKeys : copy'[k] =
          IF k \in Live THEN [meta |-> listing.meta[k], slabs |-> Slabs(k)]
          ELSE IF k \in DOMAIN listing.events THEN NoCopy ELSE copy[k]
  BY DEF LoadObjectSlabs
<1>5. /\ listing.last \in ObjKeys /\ listing.last \in Nat
      /\ listing.events[listing.last].at \in Int /\ listing.events[listing.last].at < clock
  BY <1>2, NoEvents DEF PageWellFormed, EventRows
<1>6. /\ cursor' \in [at : Int, key : Nat]
      /\ cursor'.at = listing.events[listing.last].at /\ cursor'.key = listing.last
  BY <1>5 DEF LoadObjectSlabs
<1>7. \A k \in ObjKeys : AfterPage(k) => AfterCursor(k)'
  BY <1>1, <1>6 DEF AfterPage, AfterCursor
<1>8. EventTypes' /\ InThePast'
  BY <1>1, <1>5, <1>6 DEF EventsInv, EventTypes, InThePast
<1>9. EventsTell'
  <2>1. \A k \in ObjKeys : event[k] = NoEvent => k \notin DOMAIN listing.events
    BY <1>2 DEF PageCurrent
  <2>2. Live \subseteq DOMAIN listing.events
    BY DEF Live
  <2> QED BY <1>1, <1>4, <2>1, <2>2 DEF EventsInv, EventsTell
<1>10. OnlyLatePassed'
  <2> SUFFICES ASSUME NEW k \in ObjKeys \ Excused, ~AfterPage(k) PROVE InSync(k)'
    BY <1>1, <1>7 DEF OnlyLatePassed, Excused
  <2>1. CASE k \notin DOMAIN listing.events
    <3>1. InSync(k) /\ k \notin Live
      BY <1>2, <2>1 DEF PagePassesNothing, Live
    <3> QED BY <1>1, <1>4, <2>1, <3>1 DEF InSync, Slabs
  <2>2. CASE k \in DOMAIN listing.events
    <3>1. /\ event[k] = listing.events[k]
          /\ (~event[k].deleted => listing.meta[k] = object[k])
      BY <1>1, <1>2, <2>2 DEF PageCurrent, Excused
    <3>2. event[k].deleted <=> object[k] = NoObject
      BY DEF EventsInv, EventsTell
    <3>3. CASE k \in Live
      BY <1>1, <1>4, <3>1, <3>3 DEF InSync, Slabs, Live
    <3>4. CASE k \notin Live
      <4>1. object[k] = NoObject
        BY <2>2, <3>1, <3>2, <3>4 DEF Live
      <4> QED BY <1>1, <1>4, <2>2, <3>4, <4>1 DEF InSync, Slabs, NoCopy, NoObject
    <3> QED BY <3>3, <3>4
  <2> QED BY <2>1, <2>2
<1> QED BY <1>1, <1>8, <1>9, <1>10 DEF EventsInv, PageOK

(* A second passes, whatever transactions are in progress.                  *)
LEMMA SecondStep ==
    ASSUME EventsInv, Second
    PROVE  EventsInv'
<1>1. /\ UNCHANGED <<object, begun, placed, event, blockedKeys, tx, cursor, copy, listing, moved, late>>
      /\ clock' = clock + 1
  BY DEF Second, history
<1>2. /\ clock \in Nat /\ event \in [ObjKeys -> EventRows] /\ cursor \in [at : Int, key : Nat]
      /\ tx \in [Writers -> {NoTx} \cup ObjectTx]
  BY DEF EventsInv, EventTypes
<1>3. \A w \in Writers : tx[w] # NoTx => tx[w].now \in Nat
  BY <1>2 DEF ObjectTx
<1>4. EventTypes'
  BY <1>1 DEF EventsInv, EventTypes
<1>5. InThePast'
  BY <1>1, <1>2, <1>3 DEF EventsInv, InThePast, EventRows
<1>6. EventsTell' /\ OnlyLatePassed'
  BY <1>1 DEF EventsInv, EventsTell, OnlyLatePassed, InSync, Slabs, AfterCursor
<1>7. ASSUME listing # NoPage PROVE PageWellFormed' /\ PageCurrent' /\ PagePassesNothing'
  <2>1. PageWellFormed /\ PageCurrent /\ PagePassesNothing
    BY <1>7 DEF EventsInv, PageOK
  <2>2. PageWellFormed'
    BY <1>1, <1>2, <2>1 DEF PageWellFormed, EventRows
  <2>3. PageCurrent' /\ PagePassesNothing'
    BY <1>1, <2>1 DEF PageCurrent, PagePassesNothing, AfterPage, InSync, Slabs, Excused
  <2> QED BY <2>2, <2>3
<1> QED BY <1>1, <1>4, <1>5, <1>6, <1>7 DEF EventsInv, PageOK

(* EventsInv is inductive.                                                  *)
THEOREM EventsInvariance == EventsSpec => []EventsInv
<1>1. EventsInit => EventsInv
  BY EventsInitHolds
<1>2. EventsInv /\ [EventsNext]_eventVars => EventsInv'
  <2> SUFFICES ASSUME EventsInv, [EventsNext]_eventVars PROVE EventsInv'
    OBVIOUS
  <2>1. CASE UNCHANGED eventVars
    BY <2>1 DEF eventVars, history, EventsInv, EventTypes, InThePast, EventsTell, OnlyLatePassed, PageOK,
                PageWellFormed, PageCurrent, PagePassesNothing, AfterPage, InSync, Slabs, AfterCursor,
                Excused
  <2> QED BY <2>1, WriterSteps, BlockStep, ListStep, LoadStep, DeliverStep, SecondStep DEF EventsNext
<1> QED BY <1>1, <1>2, PTL DEF EventsSpec

(* However long transactions take, a client that pages through the events   *)
(* misses no change but one committed after its second, with a page beyond  *)
(* its event read already: for any number of objects, writers, page size,   *)
(* seconds and delay, under pins, deletions, migrations, blocks and         *)
(* unblocks between the statements of a listing.                            *)
THEOREM NoEventIsPassed == EventsSpec => []OnlyLatePassed
<1>1. EventsInv => OnlyLatePassed
  BY DEF EventsInv
<1> QED BY <1>1, EventsInvariance, PTL

-----------------------------------------------------------------------------
(***************************************************************************)
(* StatsDeltas: the inductive invariant                                    *)
(***************************************************************************)

DeltaRows == [id : Nat, item : Items, delta : {-1, 1}]
Updates   == [step : {"changed", "inserted"}, item : Items, delta : {-1, 1}, id : Nat]
Active    == {u \in Updaters : update[u] # NoUpdate}

StatsTypes ==
    /\ counted \subseteq Items
    /\ update \in [Updaters -> Updates \cup {NoUpdate}]
    /\ nextId \in Nat /\ stat \in Int
    /\ deltas \subseteq DeltaRows /\ IsFiniteSet(deltas)

(* A row is changed by one transaction at a time, which reads it as it was  *)
(* committed.                                                               *)
RowsLocked ==
    \A u \in Active :
        /\ update[u].delta = -1 <=> update[u].item \in counted
        /\ \A v \in Active : update[u].item = update[v].item => u = v

(* Ids are taken in order, and the deltas of one row commit in the order of *)
(* their ids.  Those of different rows need not.                            *)
IdsInOrder ==
    /\ \A d \in deltas : d.id < nextId
    /\ \A u \in Active : update[u].step = "inserted" =>
          /\ update[u].id < nextId
          /\ \A d \in deltas : d.item = update[u].item => d.id < update[u].id

(* The deltas with the lowest ids.                                          *)
Oldest(B) == B \subseteq deltas /\ \A x \in B, y \in deltas \ B : x.id < y.id

(* The rows that were counted before the deltas of O led to those counted   *)
(* now: the first delta of a row says what it was.                          *)
FirstTakesAway(i, O) ==
    \E d \in O : d.item = i /\ d.delta = -1 /\ \A e \in O : e.item = i => d.id <= e.id
CountedBefore(O, now) ==
    {i \in Items : IF \E d \in O : d.item = i THEN FirstTakesAway(i, O) ELSE i \in now}

(* Wherever a batch may be cut, the statistic with what the batch adds is   *)
(* the number of rows that were counted before the deltas left over: a cut  *)
(* never separates the deltas of one row the wrong way round.               *)
EveryCutCounts ==
    \A B \in SUBSET deltas :
        Oldest(B) => stat + DeltaSum(B) = Cardinality(CountedBefore(deltas \ B, counted))

StatsInv == StatsTypes /\ RowsLocked /\ IdsInOrder /\ EveryCutCounts

-----------------------------------------------------------------------------
(***************************************************************************)
(* Sums of deltas                                                          *)
(***************************************************************************)

LEMMA EmptySum == DeltaSum({}) = 0
<1>1. {d \in {} : d.delta = 1} = {} /\ {d \in {} : d.delta = -1} = {}
  OBVIOUS
<1> QED BY <1>1, FS_EmptySet DEF DeltaSum

(* The deltas of D that add, or take away, a row.                           *)
WithDelta(D, n) == {d \in D : d.delta = n}

LEMMA SumIsDifference ==
    ASSUME NEW D PROVE DeltaSum(D) = Cardinality(WithDelta(D, 1)) - Cardinality(WithDelta(D, -1))
BY DEF DeltaSum, WithDelta

LEMMA WithDeltaCount ==
    ASSUME NEW D, IsFiniteSet(D), NEW n
    PROVE  IsFiniteSet(WithDelta(D, n)) /\ Cardinality(WithDelta(D, n)) \in Nat
<1>1. IsFiniteSet(WithDelta(D, n))
  BY FS_Subset DEF WithDelta
<1> QED BY <1>1, FS_CardinalityType

LEMMA SumType ==
    ASSUME NEW D, IsFiniteSet(D) PROVE DeltaSum(D) \in Int
BY WithDeltaCount, SumIsDifference

LEMMA WithDeltaOfUnion ==
    ASSUME NEW D, NEW E, IsFiniteSet(D), IsFiniteSet(E), D \cap E = {}, NEW n
    PROVE  Cardinality(WithDelta(D \cup E, n)) =
               Cardinality(WithDelta(D, n)) + Cardinality(WithDelta(E, n))
<1> DEFINE P == WithDelta(D, n)
           Q == WithDelta(E, n)
<1>1. WithDelta(D \cup E, n) = P \cup Q /\ P \cap Q = {}
  BY DEF WithDelta
<1>2. IsFiniteSet(P) /\ IsFiniteSet(Q) /\ Cardinality(P) \in Nat /\ Cardinality(Q) \in Nat
  BY WithDeltaCount
<1> HIDE DEF P, Q
<1>3. Cardinality(P \cup Q) = Cardinality(P) + Cardinality(Q) - Cardinality(P \cap Q)
  BY <1>2, FS_Union
<1>4. Cardinality(P \cap Q) = 0
  BY <1>1, FS_EmptySet
<1>5. Cardinality(P \cup Q) = Cardinality(P) + Cardinality(Q)
  BY <1>2, <1>3, <1>4
<1> QED BY <1>1, <1>5 DEF P, Q

LEMMA SumOfUnion ==
    ASSUME NEW D, NEW E, IsFiniteSet(D), IsFiniteSet(E), D \cap E = {}
    PROVE  DeltaSum(D \cup E) = DeltaSum(D) + DeltaSum(E)
<1>1. \A n : Cardinality(WithDelta(D, n)) \in Nat /\ Cardinality(WithDelta(E, n)) \in Nat
  BY WithDeltaCount
<1>2. /\ Cardinality(WithDelta(D \cup E, 1)) =
             Cardinality(WithDelta(D, 1)) + Cardinality(WithDelta(E, 1))
      /\ Cardinality(WithDelta(D \cup E, -1)) =
             Cardinality(WithDelta(D, -1)) + Cardinality(WithDelta(E, -1))
  BY WithDeltaOfUnion
<1> QED BY <1>1, <1>2, SumIsDifference

LEMMA SumOfOne ==
    ASSUME NEW d, d.delta \in {-1, 1} PROVE DeltaSum({d}) = d.delta
<1>0. Cardinality({}) = 0 /\ Cardinality({d}) = 1
  BY FS_EmptySet, FS_Singleton
<1>1. CASE d.delta = 1
  <2>1. WithDelta({d}, 1) = {d} /\ WithDelta({d}, -1) = {}
    BY <1>1 DEF WithDelta
  <2> QED BY <1>0, <1>1, <2>1, SumIsDifference
<1>2. CASE d.delta = -1
  <2>1. WithDelta({d}, 1) = {} /\ WithDelta({d}, -1) = {d}
    BY <1>2 DEF WithDelta
  <2> QED BY <1>0, <1>2, <2>1, SumIsDifference
<1> QED BY <1>1, <1>2

-----------------------------------------------------------------------------
(***************************************************************************)
(* Steps                                                                   *)
(***************************************************************************)

(* What is counted does not change, and no delta comes or goes.             *)
LEMMA CutsUnchanged ==
    ASSUME EveryCutCounts, UNCHANGED <<counted, deltas, stat>> PROVE EveryCutCounts'
BY DEF EveryCutCounts, Oldest

(* A transaction's row and id, by the action that sets them.                *)
LEMMA ChangeRowKeeps ==
    ASSUME StatsInv, NEW u \in Updaters, NEW i \in Items, ChangeRow(u, i)
    PROVE  StatsInv'
<1> DEFINE x == [step |-> "changed", item |-> i, delta |-> IF i \in counted THEN -1 ELSE 1, id |-> 0]
<1>1. /\ update[u] = NoUpdate /\ i \notin Locked /\ update' = [update EXCEPT ![u] = x]
      /\ UNCHANGED <<counted, nextId, deltas, stat>>
  BY DEF ChangeRow
<1>2. x \in Updates
  BY DEF Updates
<1>3. x # NoUpdate /\ x.step # "inserted" /\ x.item = i
  BY DEF NoUpdate
<1>4. StatsTypes'
  BY <1>1, <1>2 DEF StatsInv, StatsTypes
<1>5. \A v \in Active : v # u /\ update[v].item # i
  BY <1>1 DEF Active, Locked
<1>6. \A v \in Updaters : update'[v] = IF v = u THEN x ELSE update[v]
  BY <1>1 DEF StatsInv, StatsTypes
<1>7. Active' = Active \cup {u}
  BY <1>3, <1>6 DEF Active
<1>8. RowsLocked'
  <2>1. x.delta = -1 <=> i \in counted'
    BY <1>1
  <2> HIDE DEF x
  <2> QED BY <1>1, <1>3, <1>5, <1>6, <1>7, <2>1 DEF StatsInv, RowsLocked, Active
<1>9. IdsInOrder'
  <2> HIDE DEF x
  <2> QED BY <1>1, <1>3, <1>5, <1>6, <1>7 DEF StatsInv, IdsInOrder, Active
<1> QED BY <1>1, <1>4, <1>8, <1>9, CutsUnchanged DEF StatsInv

LEMMA IncrementStatKeeps ==
    ASSUME StatsInv, NEW u \in Updaters, IncrementStat(u) PROVE StatsInv'
<1> DEFINE x == [update[u] EXCEPT !.step = "inserted", !.id = nextId]
<1>1. /\ update[u].step = "changed" /\ update' = [update EXCEPT ![u] = x] /\ nextId' = nextId + 1
      /\ UNCHANGED <<counted, deltas, stat>>
  BY DEF IncrementStat, StatsInv, StatsTypes
<1>2. update[u] \in Updates
  BY <1>1 DEF StatsInv, StatsTypes, NoUpdate
<1>3. /\ x \in Updates /\ x.id = nextId /\ x.item = update[u].item /\ x.delta = update[u].delta
      /\ x # NoUpdate /\ u \in Active
  <2>1. nextId \in Nat
    BY DEF StatsInv, StatsTypes
  <2>2. x \in Updates /\ x.id = nextId /\ x.item = update[u].item /\ x.delta = update[u].delta
    BY <1>2, <2>1 DEF Updates
  <2>3. x.step = "inserted" /\ NoUpdate.step = "none"
    BY <1>2 DEF Updates, NoUpdate
  <2>4. u \in Active
    BY <1>1, <2>3 DEF Active
  <2> QED BY <2>2, <2>3, <2>4
<1> HIDE DEF x
<1>4. StatsTypes'
  BY <1>1, <1>3 DEF StatsInv, StatsTypes
<1>5. \A v \in Updaters : update'[v] = IF v = u THEN x ELSE update[v]
  BY <1>1 DEF StatsInv, StatsTypes
<1>6. Active' = Active
  BY <1>3, <1>5 DEF Active
<1>7. RowsLocked'
  BY <1>1, <1>3, <1>5, <1>6 DEF StatsInv, RowsLocked, Active
<1>8. IdsInOrder'
  <2>1. \A d \in deltas : d.id < nextId /\ d.id \in Nat
    BY DEF StatsInv, IdsInOrder, StatsTypes, DeltaRows
  <2>2. \A v \in Active : update[v].step = "inserted" => update[v].id \in Nat
    BY DEF StatsInv, StatsTypes, Active, Updates
  <2>3. nextId \in Nat
    BY DEF StatsInv, StatsTypes
  <2>4. \A d \in deltas' : d.id < nextId'
    BY <1>1, <2>1, <2>3
  <2>5. ASSUME NEW v \in Active', update'[v].step = "inserted"
        PROVE  /\ update'[v].id < nextId'
               /\ \A d \in deltas' : d.item = update'[v].item => d.id < update'[v].id
    <3>1. CASE v = u
      BY <1>1, <1>3, <1>5, <2>1, <2>3, <3>1 DEF Active
    <3>2. CASE v # u
      BY <1>1, <1>5, <1>6, <2>2, <2>3, <2>5, <3>2 DEF Active, StatsInv, IdsInOrder
    <3> QED BY <3>1, <3>2
  <2> QED BY <2>4, <2>5 DEF IdsInOrder
<1> QED BY <1>1, <1>4, <1>7, <1>8, CutsUnchanged DEF StatsInv

LEMMA RollbackKeeps ==
    ASSUME StatsInv, NEW u \in Updaters, Rollback(u) PROVE StatsInv'
<1>1. update' = [update EXCEPT ![u] = NoUpdate] /\ UNCHANGED <<counted, nextId, deltas, stat>>
  BY DEF Rollback
<1>2. \A v \in Updaters : update'[v] = IF v = u THEN NoUpdate ELSE update[v]
  BY <1>1 DEF StatsInv, StatsTypes
<1>3. Active' = Active \ {u}
  BY <1>2 DEF Active
<1>4. StatsTypes'
  BY <1>1 DEF StatsInv, StatsTypes
<1>5. RowsLocked' /\ IdsInOrder'
  BY <1>1, <1>2, <1>3 DEF StatsInv, RowsLocked, IdsInOrder, Active
<1> QED BY <1>1, <1>4, <1>5, CutsUnchanged DEF StatsInv

(* A delta becomes visible: it is the last one of its row, though not the   *)
(* last one of all.                                                         *)
LEMMA CommitKeeps ==
    ASSUME StatsInv, NEW u \in Updaters, Commit(u), IsFiniteSet(Items) PROVE StatsInv'
<1> DEFINE x == update[u]
           i == x.item
           d == [id |-> x.id, item |-> x.item, delta |-> x.delta]
<1>1. /\ x.step = "inserted"
      /\ counted' = IF x.delta = 1 THEN counted \cup {i} ELSE counted \ {i}
      /\ deltas' = deltas \cup {d}
      /\ update' = [update EXCEPT ![u] = NoUpdate]
      /\ UNCHANGED <<nextId, stat>>
  BY DEF Commit
<1>2. x \in Updates /\ u \in Active
  BY <1>1 DEF StatsInv, StatsTypes, NoUpdate, Active
<1>3. i \in Items /\ x.delta \in {-1, 1} /\ x.id \in Nat
  BY <1>2 DEF Updates
<1>4. d \in DeltaRows /\ d.item = i /\ d.delta = x.delta /\ d.id = x.id
  BY <1>3 DEF DeltaRows
<1>5. /\ x.delta = -1 <=> i \in counted
      /\ \A v \in Active : update[v].item = i => v = u
      /\ x.id < nextId
      /\ \A e \in deltas : e.item = i => e.id < d.id
  BY <1>1, <1>2, <1>4 DEF StatsInv, RowsLocked, IdsInOrder
<1>6. d \notin deltas
  BY <1>3, <1>4, <1>5
<1>7. \A j \in Items : j # i => (j \in counted' <=> j \in counted)
  BY <1>1
<1>8. i \in counted' <=> x.delta = 1
  BY <1>1, <1>3
<1> HIDE DEF d, x
<1>9. \A v \in Updaters : update'[v] = IF v = u THEN NoUpdate ELSE update[v]
  BY <1>1 DEF StatsInv, StatsTypes
<1>10. Active' = Active \ {u}
  BY <1>9 DEF Active
<1>11. StatsTypes'
  <2>1. IsFiniteSet(deltas')
    BY <1>1, FS_AddElement DEF StatsInv, StatsTypes
  <2> QED BY <1>1, <1>3, <1>4, <2>1 DEF StatsInv, StatsTypes
<1>12. RowsLocked'
  <2>1. ASSUME NEW v \in Active' PROVE v \in Active /\ v # u /\ update'[v] = update[v] /\ update[v].item # i
    BY <1>5, <1>9, <1>10 DEF Active
  <2>2. \A v \in Active : update[v].item \in Items
    BY DEF StatsInv, StatsTypes, Active, Updates
  <2> QED BY <1>7, <2>1, <2>2 DEF StatsInv, RowsLocked
<1>13. IdsInOrder'
  <2>1. ASSUME NEW v \in Active' PROVE v \in Active /\ update'[v] = update[v] /\ update[v].item # i
    BY <1>5, <1>9, <1>10 DEF Active
  <2> QED BY <1>1, <1>4, <1>5, <2>1 DEF StatsInv, IdsInOrder
<1>14. ASSUME NEW B \in SUBSET deltas', Oldest(B)'
       PROVE  stat' + DeltaSum(B) = Cardinality(CountedBefore((deltas \cup {d}) \ B, counted'))
  <2> DEFINE O  == (deltas \cup {d}) \ B
             C  == CountedBefore(deltas \ (B \ {d}), counted)
             C1 == CountedBefore(O, counted')
  <2>1. B \subseteq deltas \cup {d} /\ \A y \in B, z \in O : y.id < z.id
    BY <1>1, <1>14 DEF Oldest
  <2>2. Oldest(B \ {d}) /\ B \ {d} \in SUBSET deltas
    BY <1>6, <2>1 DEF Oldest
  <2>3. stat + DeltaSum(B \ {d}) = Cardinality(C)
    BY <2>2 DEF StatsInv, EveryCutCounts
  <2>4. IsFiniteSet(B \ {d}) /\ IsFiniteSet(C)
    BY <2>2, FS_Subset DEF StatsInv, StatsTypes, CountedBefore
  <2>5. \A e \in deltas : e.id \in Nat
    BY DEF StatsInv, StatsTypes, DeltaRows
  <2>6. deltas \ (B \ {d}) = O \ {d}
    BY <1>6
  <2>7. ASSUME NEW j \in Items, j # i PROVE j \in C1 <=> j \in C
    <3>1. \A e : e \in O /\ e.item = j <=> e \in O \ {d} /\ e.item = j
      BY <1>4, <2>7
    <3>2. (\E e \in O : e.item = j) <=> (\E e \in O \ {d} : e.item = j)
      BY <3>1
    <3>3. FirstTakesAway(j, O) <=> FirstTakesAway(j, O \ {d})
      BY <3>1 DEF FirstTakesAway
    <3> HIDE DEF O
    <3> QED BY <1>7, <2>6, <2>7, <3>2, <3>3 DEF CountedBefore, FirstTakesAway
  <2>8. CASE d \in B
    <3>1. \A e \in O : e.item # i
      BY <1>3, <1>4, <1>5, <2>1, <2>5, <2>8
    <3>2. i \in C1 <=> x.delta = 1
      BY <1>3, <1>8, <3>1 DEF CountedBefore
    <3>3. i \in C <=> x.delta = -1
      BY <1>3, <1>5, <2>6, <3>1 DEF CountedBefore
    <3>4. B = (B \ {d}) \cup {d} /\ (B \ {d}) \cap {d} = {}
      BY <2>8
    <3>5. DeltaSum(B) = DeltaSum(B \ {d}) + x.delta
      <4>1. DeltaSum({d}) = x.delta
        BY <1>3, <1>4, SumOfOne
      <4>2. DeltaSum((B \ {d}) \cup {d}) = DeltaSum(B \ {d}) + DeltaSum({d})
        BY <2>4, <3>4, SumOfUnion, FS_Singleton
      <4> QED BY <3>4, <4>1, <4>2
    <3>6. DeltaSum(B \ {d}) \in Int /\ stat \in Int
      BY <2>4, SumType DEF StatsInv, StatsTypes
    <3>7. C \subseteq Items /\ C1 \subseteq Items
      BY DEF CountedBefore
    <3> HIDE DEF C, C1, O
    <3>8. CASE x.delta = 1
      <4>1. C1 = C \cup {i} /\ i \notin C
        BY <1>3, <2>7, <3>2, <3>3, <3>7, <3>8
      <4>2. Cardinality(C1) = Cardinality(C) + 1
        BY <2>4, <4>1, FS_AddElement
      <4> QED BY <1>1, <2>3, <3>5, <3>6, <3>8, <4>2 DEF O, C1
    <3>9. CASE x.delta = -1
      <4>1. C1 = C \ {i} /\ i \in C
        BY <1>3, <2>7, <3>2, <3>3, <3>7, <3>9
      <4>2. Cardinality(C1) = Cardinality(C) - 1
        BY <2>4, <4>1, FS_RemoveElement
      <4>3. Cardinality(C) \in Nat
        BY <2>4, FS_CardinalityType
      <4> QED BY <1>1, <2>3, <3>5, <3>6, <3>9, <4>2, <4>3 DEF O, C1
    <3> QED BY <1>3, <3>8, <3>9
  <2>9. CASE d \notin B
    <3>1. B \ {d} = B /\ d \in O
      BY <2>9
    <3>2. i \in C1 <=> i \in C
      <4>1. CASE \E e \in O \ {d} : e.item = i
        <5>1. \A e \in O \ {d} : e.item = i => e.id < d.id /\ e.id \in Nat
          BY <1>5, <2>5
        <5>2. FirstTakesAway(i, O) <=> FirstTakesAway(i, O \ {d})
          BY <1>3, <1>4, <3>1, <4>1, <5>1 DEF FirstTakesAway
        <5> HIDE DEF O
        <5> QED BY <1>3, <2>6, <4>1, <5>2 DEF CountedBefore, FirstTakesAway
      <4>2. CASE ~ \E e \in O \ {d} : e.item = i
        <5>1. FirstTakesAway(i, O) <=> d.delta = -1
          BY <1>3, <1>4, <3>1, <4>2 DEF FirstTakesAway
        <5>2. \E e \in O : e.item = i
          BY <1>4, <3>1
        <5> HIDE DEF O
        <5> QED BY <1>3, <1>4, <1>5, <2>6, <4>2, <5>1, <5>2 DEF CountedBefore, FirstTakesAway
      <4> QED BY <4>1, <4>2
    <3>3. C \subseteq Items /\ C1 \subseteq Items
      BY DEF CountedBefore
    <3> HIDE DEF C, C1, O
    <3>4. C1 = C
      BY <2>7, <3>2, <3>3
    <3> QED BY <1>1, <2>3, <3>1, <3>4 DEF O, C1
  <2> QED BY <2>8, <2>9
<1>15. EveryCutCounts'
  BY <1>1, <1>14 DEF EveryCutCounts
<1> QED BY <1>11, <1>12, <1>13, <1>15 DEF StatsInv

(* A batch is the deltas up to a cut; a cut of the rest is a cut of all.    *)
LEMMA FlushKeeps ==
    ASSUME StatsInv, FlushStatsDelta PROVE StatsInv'
<1>1. PICK B \in SUBSET deltas :
          OldestFirst(B) /\ stat' = stat + DeltaSum(B) /\ deltas' = deltas \ B
  BY DEF FlushStatsDelta
<1>2. UNCHANGED <<counted, update, nextId>>
  BY DEF FlushStatsDelta
<1>3. IsFiniteSet(B) /\ DeltaSum(B) \in Int /\ IsFiniteSet(deltas')
  BY <1>1, FS_Subset, SumType DEF StatsInv, StatsTypes
<1>4. StatsTypes'
  BY <1>1, <1>2, <1>3 DEF StatsInv, StatsTypes
<1>5. RowsLocked' /\ IdsInOrder'
  BY <1>1, <1>2 DEF StatsInv, RowsLocked, IdsInOrder, Active
<1>6. ASSUME NEW D \in SUBSET deltas', Oldest(D)'
      PROVE  stat' + DeltaSum(D) = Cardinality(CountedBefore(deltas' \ D, counted'))
  <2>1. D \subseteq deltas \ B /\ \A y \in D, z \in (deltas \ B) \ D : y.id < z.id
    BY <1>1, <1>6 DEF Oldest
  <2>2. \A y \in B, z \in deltas \ B : y.id < z.id
    BY <1>1 DEF OldestFirst
  <2>3. B \cup D \in SUBSET deltas /\ Oldest(B \cup D)
    BY <1>1, <2>1, <2>2 DEF Oldest
  <2>4. stat + DeltaSum(B \cup D) = Cardinality(CountedBefore(deltas \ (B \cup D), counted))
    BY <2>3 DEF StatsInv, EveryCutCounts
  <2>5. IsFiniteSet(D) /\ B \cap D = {}
    BY <1>3, <2>1, FS_Subset
  <2>6. DeltaSum(B \cup D) = DeltaSum(B) + DeltaSum(D) /\ DeltaSum(D) \in Int
    BY <1>3, <2>5, SumOfUnion, SumType
  <2>7. deltas' \ D = deltas \ (B \cup D)
    BY <1>1
  <2>8. CountedBefore(deltas' \ D, counted') = CountedBefore(deltas \ (B \cup D), counted)
    BY <1>2, <2>7
  <2>9. stat \in Int
    BY DEF StatsInv, StatsTypes
  <2> QED BY <1>1, <1>3, <2>4, <2>6, <2>8, <2>9
<1>7. EveryCutCounts'
  BY <1>6 DEF EveryCutCounts
<1> QED BY <1>4, <1>5, <1>7 DEF StatsInv

(* No step of a transaction or of the stats manager breaks the invariant.   *)
LEMMA StatsInductive ==
    ASSUME StatsInv, [StatsNext]_statVars PROVE StatsInv'
<1>1. CASE UNCHANGED <<counted, update, nextId, deltas, stat>>
  BY <1>1, CutsUnchanged DEF StatsInv, StatsTypes, RowsLocked, IdsInOrder, Active
<1>2. CASE UNCHANGED statVars
  BY <1>1, <1>2 DEF statVars
<1>3. ASSUME NEW u \in Updaters,
             (\E i \in Items : ChangeRow(u, i)) \/ IncrementStat(u) \/ Commit(u) \/ Rollback(u)
      PROVE  StatsInv'
  BY <1>3, ChangeRowKeeps, IncrementStatKeeps, CommitKeeps, RollbackKeeps, StatsAssumption
<1>4. CASE FlushLoop
  BY <1>1, <1>4 DEF FlushLoop
<1> QED BY <1>2, <1>3, <1>4, FlushKeeps DEF StatsNext

(* The invariant of the statistics holds in every state, for any number of  *)
(* rows and transactions and any size of batch (IncrementStat, Commit,      *)
(* FlushStatsDelta).                                                        *)
THEOREM StatsInvariance == StatsSpec => []StatsInv
<1>1. StatsInit => StatsInv
  <2> SUFFICES ASSUME StatsInit PROVE StatsInv
    OBVIOUS
  <2>1. counted = {} /\ update = [u \in Updaters |-> NoUpdate] /\ nextId = 1 /\ deltas = {} /\ stat = 0
    BY DEF StatsInit
  <2>2. StatsTypes
    BY <2>1, FS_EmptySet DEF StatsTypes
  <2>3. RowsLocked /\ IdsInOrder
    BY <2>1 DEF RowsLocked, IdsInOrder, Active
  <2>4. CountedBefore({}, counted) = {}
    BY <2>1 DEF CountedBefore
  <2>5. \A B \in SUBSET deltas : B = {} /\ deltas \ B = {}
    BY <2>1
  <2>6. EveryCutCounts
    BY <2>1, <2>4, <2>5, EmptySum, FS_EmptySet DEF EveryCutCounts
  <2> QED BY <2>2, <2>3, <2>6 DEF StatsInv
<1>2. StatsInv /\ [StatsNext]_statVars => StatsInv'
  BY StatsInductive
<1> QED BY <1>1, <1>2, PTL DEF StatsSpec

(* What the invariant says of the batches that take nothing and all.        *)
LEMMA StatsCounted == StatsInv => StatsNeverUnderflow
<1> SUFFICES ASSUME StatsInv PROVE StatsNeverUnderflow
  OBVIOUS
<1>1. stat \in Int /\ IsFiniteSet(deltas) /\ counted \subseteq Items
  BY DEF StatsInv, StatsTypes
<1>2. Oldest({}) /\ Oldest(deltas)
  BY DEF Oldest
<1>3. stat + DeltaSum({}) = Cardinality(CountedBefore(deltas \ {}, counted))
  BY <1>2 DEF StatsInv, EveryCutCounts
<1>4. IsFiniteSet(CountedBefore(deltas \ {}, counted))
  BY FS_Subset, StatsAssumption DEF CountedBefore
<1>5. Cardinality(CountedBefore(deltas \ {}, counted)) \in Nat
  BY <1>4, FS_CardinalityType
<1>6. stat >= 0
  BY <1>1, <1>3, <1>5, EmptySum
<1>7. stat + DeltaSum(deltas) = Cardinality(CountedBefore(deltas \ deltas, counted))
  BY <1>2 DEF StatsInv, EveryCutCounts
<1>8. CountedBefore(deltas \ deltas, counted) = counted
  BY <1>1 DEF CountedBefore
<1> QED BY <1>6, <1>7, <1>8 DEF StatsNeverUnderflow

(* A statistic never falls below zero, and with the pending deltas it is    *)
(* what the committed rows amount to, however transactions overlap and      *)
(* wherever batches are cut (FlushStatsDelta, sqlStatSelect).               *)
THEOREM StatisticsNeverUnderflow == StatsSpec => []StatsNeverUnderflow
BY StatsCounted, StatsInvariance, PTL

(* A commit adds or removes the row its transaction has locked, and every   *)
(* other step leaves the rows alone.                                        *)
LEMMA StatisticStep ==
    ASSUME StatsInv, StatsInv', [StatsNext]_statVars
    PROVE  [Stored!Next]_<<counted, stat + DeltaSum(deltas), stat>>
<1> DEFINE value == stat + DeltaSum(deltas)
<1>1. /\ value = Cardinality(counted) /\ value' = Cardinality(counted')
      /\ stat \in Int /\ stat' \in Int /\ stat >= 0 /\ stat' >= 0
  <2>1. StatsNeverUnderflow /\ StatsNeverUnderflow'
    BY StatsCounted, PTL
  <2> QED BY <2>1 DEF StatsNeverUnderflow, StatsInv, StatsTypes
<1>2. IsFiniteSet(counted) /\ IsFiniteSet(counted')
  BY FS_Subset, StatsAssumption DEF StatsInv, StatsTypes
<1> HIDE DEF value
<1>3. ASSUME NEW u \in Updaters, Commit(u) PROVE Stored!Next
  <2>1. PICK x : x = update[u]
    OBVIOUS
  <2>2. /\ x.step = "inserted" /\ UNCHANGED stat
        /\ counted' = IF x.delta = 1 THEN counted \cup {x.item} ELSE counted \ {x.item}
    BY <1>3, <2>1 DEF Commit
  <2>3. x \in Updates /\ u \in Active
    BY <2>1, <2>2 DEF StatsInv, StatsTypes, NoUpdate, Active
  <2>4. x.item \in Items /\ x.delta \in {-1, 1} /\ (x.delta = -1 <=> x.item \in counted)
    BY <2>1, <2>3 DEF Updates, StatsInv, RowsLocked
  <2>5. CASE x.delta = 1
    <3>1. x.item \notin counted /\ counted' = counted \cup {x.item}
      BY <2>2, <2>4, <2>5
    <3>2. Cardinality(counted') = Cardinality(counted) + 1
      BY <1>2, <3>1, FS_AddElement
    <3>3. Stored!AddRow(x.item)
      BY <1>1, <2>2, <3>1, <3>2 DEF Stored!AddRow, value
    <3> QED BY <2>4, <3>3 DEF Stored!Next
  <2>6. CASE x.delta = -1
    <3>1. x.item \in counted /\ counted' = counted \ {x.item}
      BY <2>2, <2>4, <2>6
    <3>2. Cardinality(counted') = Cardinality(counted) - 1
      BY <1>2, <3>1, FS_RemoveElement
    <3>3. Stored!RemoveRow(x.item)
      BY <1>1, <2>2, <3>1, <3>2 DEF Stored!RemoveRow, value
    <3> QED BY <2>4, <3>3 DEF Stored!Next
  <2> QED BY <2>4, <2>5, <2>6
<1>4. ASSUME UNCHANGED counted PROVE Stored!Show
  BY <1>1, <1>4 DEF Stored!Show, value
<1>5. \/ \E u \in Updaters : Commit(u)
      \/ UNCHANGED counted
  BY DEF StatsNext, ChangeRow, IncrementStat, Rollback, FlushStatsDelta, FlushLoop, statVars
<1> QED BY <1>3, <1>4, <1>5 DEF Stored!Next

(* Deltas and batches are invisible: the statistic with what is pending is  *)
(* a number that changes when a row is committed, for any number of rows    *)
(* and transactions and any size of batch.                                  *)
THEOREM StatisticImplemented == StatsSpec => ImplementsStatistic
<1>1. StatsInit => Stored!Init
  BY EmptySum DEF StatsInit, Stored!Init
<1>2. StatsInv /\ StatsInv' /\ [StatsNext]_statVars
        => [Stored!Next]_<<counted, stat + DeltaSum(deltas), stat>>
  BY StatisticStep
<1> QED BY <1>1, <1>2, StatsInvariance, PTL DEF StatsSpec, ImplementsStatistic, Stored!Spec
=============================================================================
