------------------------------ MODULE FdManager ------------------------------
(***************************************************************************)
(* The descriptor table of the kernel and the contexts FdManager keeps for *)
(* the descriptors that the hooked functions opened (fd_manager.cpp).      *)
(*                                                                         *)
(* The kernel gives the lowest free number to a new file, so a number is   *)
(* soon used again.  All files here are sockets.                           *)
(***************************************************************************)
EXTENDS Integers

CONSTANTS
    MaxFd,      \* the descriptors are 1..MaxFd; 0 stands for -1
    Files,      \* what a descriptor may refer to
    Closed      \* no file

ASSUME FdAssumption == MaxFd \in Nat \ {0} /\ Closed \notin Files

VARIABLES
    file,       \* the kernel's table
    nonblock,   \* the descriptors whose file has O_NONBLOCK
    datas       \* m_datas

fdVars == <<file, nonblock, datas>>

Fds == 1..MaxFd

\* A context without timeouts; a timeout is there or not.
FdCtx(f) == [file |-> f, m_userNonblock |-> FALSE,
             m_recvTimeout |-> FALSE, m_sendTimeout |-> FALSE]

\* A null pointer in m_datas.
NoCtx == FdCtx(Closed)

\* socket_f and accept_f: the lowest free number, without O_NONBLOCK.
NewFd == CHOOSE fd \in Fds : /\ file[fd] = Closed
                             /\ \A other \in Fds : file[other] = Closed => fd <= other

TableFull == \A fd \in Fds : file[fd] # Closed

\* get(fd, true): the lock is released between the look and the creation, but only
\* the fiber that has just opened fd asks for it.  FdCtx::init sets O_NONBLOCK.
\* The caller's first setsockopt, of SO_RCVTIMEO and SO_SNDTIMEO, may follow at once.
getOrCreate(fd, recvTimeout, sendTimeout) ==
    LET ctx == IF datas[fd] = NoCtx THEN FdCtx(file[fd]) ELSE datas[fd]
    IN  /\ datas' = [datas EXCEPT ![fd] = [ctx EXCEPT !.m_recvTimeout = recvTimeout,
                                                     !.m_sendTimeout = sendTimeout]]
        /\ nonblock' = IF datas[fd] = NoCtx THEN nonblock \cup {fd} ELSE nonblock

del(fd) == datas' = [datas EXCEPT ![fd] = NoCtx]

\* Mutant: the flag the user asks for is handed to the kernel as it is.
fcntlPlain(fd, arg) ==
    /\ datas' = [datas EXCEPT ![fd].m_userNonblock = arg]
    /\ nonblock' = IF arg THEN nonblock \cup {fd} ELSE nonblock \ {fd}

\* fcntl(F_SETFL) with and without O_NONBLOCK on a descriptor with a context: the
\* context remembers what the user wants and the kernel keeps O_NONBLOCK.
fcntl(fd, arg) ==
    /\ datas' = [datas EXCEPT ![fd].m_userNonblock = arg]
    /\ nonblock' = nonblock \cup {fd}
=============================================================================
