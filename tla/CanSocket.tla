------------------------------ MODULE CanSocket ------------------------------
(***************************************************************************)
(* can::Socket between its two threads: the CAN thread sends and receives  *)
(* in Client::_run, the UI thread sends requests, and connects and         *)
(* disconnects in the options window.                                      *)
(*                                                                         *)
(* The kernel gives a descriptor that is free to whoever opens a file or a *)
(* socket next, so one that is used after it was closed may be somebody    *)
(* else's.  The descriptors of the process's other files come and go.      *)
(***************************************************************************)
EXTENDS Naturals

CONSTANTS
  Fd,    \* the descriptors the process may have open
  none   \* -1, or a pollfd that was never filled in

ASSUME SocketAssumption == none \notin Fd

VARIABLES
  kind,      \* what each descriptor is: free, another file, or a CAN socket
  socket,    \* _socket
  recv_fd,   \* _recv_fd.fd
  send_mtx,  \* who holds _send_mtx: "nobody", "ui" or "can"
  recv_mtx,  \* who holds _recv_mtx
  at,        \* where each thread stands
  fd,        \* the descriptor each thread is about to use
  foreign    \* history: another file was written to, read or closed

socketvars == <<kind, socket, recv_fd, send_mtx, recv_mtx, at, fd, foreign>>
kernelvars == <<kind, foreign>>
lockvars == <<send_mtx, recv_mtx>>

Thread == {"ui", "can"}
Good == socket # none

\* The constructor has found the interface up and made a socket, or not.
SocketInit ==
  /\ socket \in Fd \cup {none}
  /\ kind = [d \in Fd |-> IF d = socket THEN "bound" ELSE "free"]
  /\ recv_fd = socket
  /\ send_mtx = "nobody"
  /\ recv_mtx = "nobody"
  /\ at = [ui |-> "ready", can |-> "turn"]
  /\ fd = [thread \in Thread |-> none]
  /\ foreign = FALSE

Free(mtx) == mtx = "nobody"

Goes(thread, to) == at' = [at EXCEPT ![thread] = to]
Touches(d) == foreign' = (foreign \/ (d \in Fd /\ kind[d] = "other"))

-----------------------------------------------------------------------------
(* send, by either thread; the look at _socket is not under the mutex.     *)

SendCheck(thread) ==
  /\ at[thread] \in {"ready", "turn"}
  /\ Good
  /\ Goes(thread, "send_lock")
  /\ UNCHANGED <<kernelvars, socket, recv_fd, lockvars, fd>>

SendLock(thread) ==
  /\ at[thread] = "send_lock"
  /\ Free(send_mtx)
  /\ send_mtx' = thread
  /\ Goes(thread, "write")
  /\ UNCHANGED <<kernelvars, socket, recv_fd, recv_mtx, fd>>

SendLoad(thread) ==
  /\ at[thread] = "write"
  /\ fd' = [fd EXCEPT ![thread] = socket]
  /\ Goes(thread, "writing")
  /\ UNCHANGED <<kernelvars, socket, recv_fd, lockvars>>

SendWrite(thread) ==
  /\ at[thread] = "writing"
  /\ Touches(fd[thread])
  /\ send_mtx' = "nobody"
  /\ Goes(thread, IF thread = "ui" THEN "ready" ELSE "turn")
  /\ UNCHANGED <<kind, socket, recv_fd, recv_mtx, fd>>

Send(thread) == SendCheck(thread) \/ SendLock(thread) \/ SendLoad(thread) \/ SendWrite(thread)

-----------------------------------------------------------------------------
(* recv, in the loop of Client::_run: again after each frame, until there  *)
(* is none; then a new turn begins, with whatever there is to send.        *)

RecvCheck ==
  /\ at["can"] \in {"turn", "recv"}
  /\ Goes("can", IF Good THEN "recv_lock" ELSE "turn")
  /\ UNCHANGED <<kernelvars, socket, recv_fd, lockvars, fd>>

RecvLock ==
  /\ at["can"] = "recv_lock"
  /\ Free(recv_mtx)
  /\ recv_mtx' = "can"
  /\ Goes("can", "poll")
  /\ UNCHANGED <<kernelvars, socket, recv_fd, send_mtx, fd>>

\* Mutant: no frame in time is taken for a frame.
TimeoutIsOk ==
  /\ at["can"] = "poll"
  /\ recv_fd \in Fd => kind[recv_fd] # "free"
  /\ recv_mtx' = "nobody"
  /\ Goes("can", "recv")
  /\ UNCHANGED <<kernelvars, socket, recv_fd, send_mtx, fd>>

\* No frame for 1 ms.
PollTimeout ==
  /\ at["can"] = "poll"
  /\ recv_fd \in Fd => kind[recv_fd] # "free"
  /\ recv_mtx' = "nobody"
  /\ Goes("can", "turn")
  /\ UNCHANGED <<kernelvars, socket, recv_fd, send_mtx, fd>>

\* A frame, or a descriptor that is closed (POLLNVAL).
PollReady ==
  /\ at["can"] = "poll"
  /\ recv_fd \in Fd => kind[recv_fd] # "unbound"
  /\ Goes("can", "read")
  /\ UNCHANGED <<kernelvars, socket, recv_fd, lockvars, fd>>

ReadLoad ==
  /\ at["can"] = "read"
  /\ fd' = [fd EXCEPT !["can"] = socket]
  /\ Goes("can", "reading")
  /\ UNCHANGED <<kernelvars, socket, recv_fd, lockvars>>

\* Whether read returns: it waits on a CAN socket other than the one polled.
Returns(d) == (d \in Fd /\ d # recv_fd) => kind[d] \in {"free", "other"}

Read ==
  /\ at["can"] = "reading"
  /\ Returns(fd["can"])
  /\ Touches(fd["can"])
  /\ recv_mtx' = "nobody"
  /\ \/ fd["can"] \in Fd /\ kind[fd["can"]] \in {"bound", "other"} /\ Goes("can", "recv")
     \/ Goes("can", "turn")
  /\ UNCHANGED <<kind, socket, recv_fd, send_mtx, fd>>

Recv == RecvCheck \/ RecvLock \/ PollTimeout \/ PollReady \/ ReadLoad \/ Read

-----------------------------------------------------------------------------
(* connect and disconnect, by the UI thread.                               *)

Unlocks == send_mtx' = "nobody" /\ recv_mtx' = "nobody"

\* Mutant: the socket is kept until the mutexes are held.
ConnectKeeps ==
  /\ at["ui"] = "ready"
  /\ Goes("ui", "connect_send")
  /\ UNCHANGED <<kernelvars, socket, recv_fd, lockvars, fd>>

\* connect gives up the socket at hand, without closing it, then locks.
Connect ==
  /\ at["ui"] = "ready"
  /\ socket' = none
  /\ Goes("ui", "connect_send")
  /\ UNCHANGED <<kernelvars, recv_fd, lockvars, fd>>

Disconnect ==
  /\ at["ui"] = "ready"
  /\ Good
  /\ Goes("ui", "disconnect_send")
  /\ UNCHANGED <<kernelvars, socket, recv_fd, lockvars, fd>>

LockSend ==
  /\ at["ui"] \in {"connect_send", "disconnect_send"}
  /\ Free(send_mtx)
  /\ send_mtx' = "ui"
  /\ Goes("ui", IF at["ui"] = "connect_send" THEN "connect_recv" ELSE "disconnect_recv")
  /\ UNCHANGED <<kernelvars, socket, recv_fd, recv_mtx, fd>>

LockRecv ==
  /\ at["ui"] \in {"connect_recv", "disconnect_recv"}
  /\ Free(recv_mtx)
  /\ recv_mtx' = "ui"
  /\ Goes("ui", IF at["ui"] = "connect_recv" THEN "script" ELSE "close")
  /\ UNCHANGED <<kernelvars, socket, recv_fd, send_mtx, fd>>

\* The script that brings the interface up runs with both mutexes held.
Script ==
  /\ at["ui"] = "script"
  /\ \/ Goes("ui", "create") /\ UNCHANGED lockvars
     \/ Goes("ui", "ready") /\ Unlocks
  /\ UNCHANGED <<kernelvars, socket, recv_fd, fd>>

\* _create_socket: the descriptor, if there is one left ...
Create ==
  /\ at["ui"] = "create"
  /\ IF \A d \in Fd : kind[d] # "free"
     THEN Goes("ui", "ready") /\ Unlocks /\ UNCHANGED <<kind, socket>>
     ELSE /\ \E d \in Fd :
               /\ kind[d] = "free"
               /\ kind' = [kind EXCEPT ![d] = "unbound"]
               /\ socket' = d
          /\ Goes("ui", "bind")
          /\ UNCHANGED lockvars
  /\ UNCHANGED <<recv_fd, fd, foreign>>

\* Mutant: the descriptor to poll is not renewed.
BindKeepsPoll ==
  /\ at["ui"] = "bind"
  /\ \/ kind' = [kind EXCEPT ![socket] = "bound"]
     \/ UNCHANGED kind
  /\ Goes("ui", "ready")
  /\ Unlocks
  /\ UNCHANGED <<socket, recv_fd, fd, foreign>>

\* ... is bound to the interface.  If that fails it stays _socket all the same.
Bind ==
  /\ at["ui"] = "bind"
  /\ \/ kind' = [kind EXCEPT ![socket] = "bound"] /\ recv_fd' = socket
     \/ UNCHANGED <<kind, recv_fd>>
  /\ Goes("ui", "ready")
  /\ Unlocks
  /\ UNCHANGED <<socket, fd, foreign>>

\* Mutant: the closed descriptor is kept.
CloseForgets ==
  /\ at["ui"] = "close"
  /\ Touches(socket)
  /\ kind' = [kind EXCEPT ![socket] = "free"]
  /\ Goes("ui", "ready")
  /\ Unlocks
  /\ UNCHANGED <<socket, recv_fd, fd>>

Close ==
  /\ at["ui"] = "close"
  /\ Touches(socket)
  /\ kind' = [kind EXCEPT ![socket] = "free"]
  /\ socket' = none
  /\ Goes("ui", "ready")
  /\ Unlocks
  /\ UNCHANGED <<recv_fd, fd>>

Setup == Connect \/ Disconnect \/ LockSend \/ LockRecv \/ Script \/ Create \/ Bind \/ Close

\* Other files of the process are opened and closed.
OtherFile ==
  /\ \E d \in Fd :
       \/ kind[d] = "free" /\ kind' = [kind EXCEPT ![d] = "other"]
       \/ kind[d] = "other" /\ kind' = [kind EXCEPT ![d] = "free"]
  /\ UNCHANGED <<socket, recv_fd, lockvars, at, fd, foreign>>

SocketNext == (\E thread \in Thread : Send(thread)) \/ Recv \/ Setup \/ OtherFile

SocketSafeSpec == SocketInit /\ [][SocketNext]_socketvars

\* What a thread does next, once it is inside one of the calls: the CAN
\* thread's loop does not end, and the UI thread returns to its loop.
UiGoesOn == at["ui"] # "ready" /\ (Send("ui") \/ Setup)
CanGoesOn == Recv \/ (at["can"] # "turn" /\ Send("can"))

\* The bus is quiet for 1 ms again and again.  The mutexes are not fair to the
\* UI thread, which would take them from a loop; the CAN thread gets one that
\* the UI thread, busy with its frames, leaves free again and again.
SocketFairness ==
  /\ WF_socketvars(UiGoesOn)
  /\ WF_socketvars(CanGoesOn)
  /\ SF_socketvars(PollTimeout)
  /\ SF_socketvars(RecvLock \/ SendLock("can"))

SocketSpec == SocketSafeSpec /\ SocketFairness
-----------------------------------------------------------------------------
\* A descriptor is not used after it was closed, when it may be another
\* file's, although _socket is looked at before the mutex is taken and
\* changed by connect without it.
OwnDescriptorsOnly == ~foreign

\* A socket that was made, but not bound (yet): read waits on it for ever.
Unbound == \E d \in Fd : kind[d] = "unbound"

\* read is given the socket that poll found readable, or none: otherwise it
\* would wait with _recv_mtx held, and disconnect behind it.  The exception is
\* a socket that could not be bound.
PollsWhatItReads ==
  (at["can"] = "reading" /\ ~Unbound) => Returns(fd["can"])

\* Neither call is misled about the descriptor it holds.
DescriptorsKept == OwnDescriptorsOnly /\ PollsWhatItReads

\* A connect comes to its end even if whoever asks for a held mutex may never
\* get it: giving up the socket first makes the CAN thread leave it alone.
\* Only a socket that an earlier connect could not bind stands in its way.
ConnectReturns == (at["ui"] = "connect_send") ~> (at["ui"] = "ready" \/ Unbound)

\* Receiving does not keep the CAN thread from its turns, in which it sends.
TurnsGoOn == []<>(at["can"] = "turn" \/ Unbound)
=============================================================================
