---------------------------- MODULE MCEventLoop ----------------------------
(* EventLoop for TLC: the read and the write watch of one socket.           *)
EXTENDS EventLoop

CONSTANTS read, write, socket

SocketFd == [w \in Watches |-> socket]
=============================================================================
