------------------------------- MODULE IpcPoll -------------------------------
(***************************************************************************)
(* src/ipc.c: the server loop ipc_poll with accept_new_conn, close_sock,  *)
(* readjust_array and read_msg, and the clients on the other end of the   *)
(* Unix socket, which connect, write messages with write_msg and hang up. *)
(* pfds[] is kept as two arrays over its positions, pfd (the .fd fields)  *)
(* and revents, because readjust_array moves the one and not the other.   *)
(* A connection is also its accepted fd: close_sock only shuts a          *)
(* descriptor down and never closes it, so no fd number is reused.  A     *)
(* message is counted, not spelled: write_msg's header and body go out in *)
(* one writev and read_msg takes both.  The handler a message is passed   *)
(* to is taken as registered.                                             *)
(***************************************************************************)
EXTENDS Integers, SequencesExt, FiniteSets

CONSTANTS
    Conns,      \* client connections, each also the fd accept returns for it
    L,          \* ctxt->sock_descriptor, the listening socket
    ZeroFd,     \* 0, what memset leaves in the unused pfds entries
    MaxFds,     \* the length of pfds[] and accept_new_conn's limit (10)
    MaxRepeat,  \* idle polls before ipc_poll gives up (100000)
    FdLimit,    \* descriptors the process can still open (RLIMIT_NOFILE)
    MaxSends,   \* messages each client writes
    ListenNonBlocking   \* ipc_open set FIONBIO on the listening socket

Pos == 0..MaxFds - 1

VARIABLES
    cstate,     \* the client's end: "idle", "connected" or "hup"
    backlog,    \* connections queued on L that accept has not returned
    sent,       \* messages write_msg has put on the connection
    delivered,  \* messages read_msg has read off it
    srv,        \* the server's end: "none", "accepted" or "shut"
    pfd, revents, nfds,
    i,          \* ipc_poll's loop index
    nrepeated,
    pc          \* "poll", "scan", "accept", "exited" or "overflow"

vars == <<cstate, backlog, sent, delivered, srv, pfd, revents, nfds, i, nrepeated, pc>>
clientVars == <<cstate, backlog, sent>>

Init ==
    /\ cstate = [c \in Conns |-> "idle"] /\ backlog = <<>>
    /\ sent = [c \in Conns |-> 0] /\ delivered = [c \in Conns |-> 0]
    /\ srv = [c \in Conns |-> "none"]
    /\ pfd = [p \in Pos |-> IF p = 0 THEN L ELSE ZeroFd]
    /\ revents = [p \in Pos |-> {}]
    /\ nfds = 1 /\ i = 0 /\ nrepeated = 0 /\ pc = "poll"

-----------------------------------------------------------------------------
(***************************************************************************)
(* ipc_poll                                                                *)
(***************************************************************************)

\* What poll reports for an fd: L is readable while a connection waits;
\* a connection is readable while it holds unread data, and reports
\* POLLHUP (with POLLIN) once the client has closed its end.
Events(fd) ==
    IF fd = L THEN (IF backlog # <<>> THEN {"IN"} ELSE {})
    ELSE (IF cstate[fd] = "hup" THEN {"IN", "HUP"} ELSE {})
         \cup (IF sent[fd] > delivered[fd] THEN {"IN"} ELSE {})

\* poll(pfds, nfds, 50) sets the revents of the first nfds entries.  No
\* event for 50 ms counts an idle round; the MaxRepeat'th in a row calls
\* error_f and leaves the loop.
Poll ==
    /\ pc = "poll"
    /\ LET rev == [p \in Pos |-> IF p < nfds THEN Events(pfd[p]) ELSE revents[p]]
           rc == Cardinality({p \in 0..nfds - 1 : rev[p] # {}})
       IN /\ revents' = rev
          /\ IF rc = 0
             THEN /\ nrepeated' = nrepeated + 1
                  /\ pc' = IF nrepeated + 1 = MaxRepeat THEN "exited" ELSE "poll"
                  /\ UNCHANGED i
             ELSE nrepeated' = 0 /\ i' = 0 /\ pc' = "scan"
    /\ UNCHANGED <<clientVars, delivered, srv, pfd, nfds>>

\* Mutant: the loop stops one entry short.
InLoop_short == i < nfds - 1

\* for (i = 0; i < nfds; i++), nfds re-read at every test.
InLoop == i < nfds

\* readjust_array: every fd after position k moves down one place,
\* pfds[nfds] included (at nfds = MaxFds a read past the array, of a value
\* that lands beyond the new nfds), and nfds drops by one.  revents stay.
Shifted(k) ==
    [p \in Pos |-> IF p >= k /\ p < nfds
                   THEN (IF p + 1 < MaxFds THEN pfd[p + 1] ELSE ZeroFd)
                   ELSE pfd[p]]

\* Mutant: readjust_array does not decrement nfds.
CloseAt_nodec(k) ==
    /\ srv' = [srv EXCEPT ![pfd[k]] = "shut"]
    /\ revents' = [revents EXCEPT ![k] = {}]
    /\ pfd' = Shifted(k) /\ UNCHANGED nfds

\* Mutant: close_sock marks the entry but does not shut the socket down.
CloseAt_noshutdown(k) ==
    /\ UNCHANGED srv
    /\ revents' = [revents EXCEPT ![k] = {}]
    /\ pfd' = Shifted(k) /\ nfds' = nfds - 1

\* close_sock(pfds, k) then readjust_array: the connection is shut down
\* (shutdown, never close), its revents cleared, its fd set to -1, and the
\* table closed up over that -1, which is at k.
CloseAt(k) ==
    /\ srv' = [srv EXCEPT ![pfd[k]] = "shut"]
    /\ revents' = [revents EXCEPT ![k] = {}]
    /\ pfd' = Shifted(k) /\ nfds' = nfds - 1

\* POLLHUP in revents[i]: close whatever fd is now at position i; the
\* continue moves i past the fd readjust_array just moved there.
ScanHup ==
    /\ pc = "scan" /\ InLoop /\ "HUP" \in revents[i]
    /\ CloseAt(i) /\ i' = i + 1
    /\ UNCHANGED <<clientVars, delivered, nrepeated, pc>>

\* The listening socket is readable: accept_new_conn, which refuses (and
\* ipc_poll prints "Accept failed") when nfds >= MaxFds.
ScanListen ==
    /\ pc = "scan" /\ InLoop /\ "HUP" \notin revents[i]
    /\ pfd[i] = L /\ revents[i] # {}
    /\ IF nfds >= MaxFds THEN i' = i + 1 /\ UNCHANGED pc
       ELSE pc' = "accept" /\ UNCHANGED i
    /\ UNCHANGED <<clientVars, delivered, srv, pfd, revents, nfds, nrepeated>>

\* Mutant: read_msg counts a message whenever poll reported the fd.
ScanRead_trustrevents ==
    /\ pc = "scan" /\ InLoop /\ "HUP" \notin revents[i]
    /\ pfd[i] \in Conns /\ revents[i] # {}
    /\ delivered' = [delivered EXCEPT ![pfd[i]] = @ + 1]
    /\ i' = i + 1 /\ UNCHANGED <<srv, pfd, revents, nfds>>
    /\ UNCHANGED <<clientVars, nrepeated, pc>>

\* read_msg(fd): readv of a header then of its body, both written by one
\* writev, returns their length and the handler gets the message; at end
\* of file readv returns 0; on a non-blocking socket with nothing to read,
\* -1 (EWOULDBLOCK).
read_msg(c) ==
    IF sent[c] > delivered[c] THEN "msg"
    ELSE IF cstate[c] = "hup" THEN "eof"
    ELSE "wouldblock"

\* The connection at position i is read; a read of 0 closes it as above.
\* The loop goes on with i + 1 in every case.
ScanRead ==
    /\ pc = "scan" /\ InLoop /\ "HUP" \notin revents[i]
    /\ pfd[i] \in Conns /\ revents[i] # {}
    /\ CASE read_msg(pfd[i]) = "msg" ->
              delivered' = [delivered EXCEPT ![pfd[i]] = @ + 1] /\ UNCHANGED <<srv, pfd, revents, nfds>>
         [] read_msg(pfd[i]) = "eof" -> CloseAt(i) /\ UNCHANGED delivered
         [] OTHER -> UNCHANGED <<delivered, srv, pfd, revents, nfds>>
    /\ i' = i + 1
    /\ UNCHANGED <<clientVars, nrepeated, pc>>

ScanSkip ==
    /\ pc = "scan" /\ InLoop /\ revents[i] = {}
    /\ i' = i + 1
    /\ UNCHANGED <<clientVars, delivered, srv, pfd, revents, nfds, nrepeated, pc>>

ScanEnd ==
    /\ pc = "scan" /\ ~InLoop
    /\ pc' = "poll"
    /\ UNCHANGED <<clientVars, delivered, srv, pfd, revents, nfds, i, nrepeated>>

\* One turn of accept_new_conn's do-while loop.  accept returns the next
\* queued connection, or fails: EWOULDBLOCK ends the loop (return 0), and
\* EMFILE returns -1; on a blocking L it waits for a connection.  The new
\* fd is written at pfds[nfds] with no check of nfds against the array.
Accept ==
    /\ pc = "accept"
    /\ backlog # <<>> \/ ListenNonBlocking
    /\ CASE backlog = <<>> \/ Cardinality({c \in Conns : srv[c] # "none"}) >= FdLimit ->
                /\ pc' = "scan" /\ i' = i + 1
                /\ UNCHANGED <<backlog, srv, pfd, nfds>>
         [] nfds >= MaxFds ->
                pc' = "overflow" /\ UNCHANGED <<backlog, srv, pfd, nfds, i>>
         [] OTHER ->
                /\ pfd' = [pfd EXCEPT ![nfds] = Head(backlog)] /\ nfds' = nfds + 1
                /\ srv' = [srv EXCEPT ![Head(backlog)] = "accepted"]
                /\ backlog' = Tail(backlog)
                /\ UNCHANGED <<pc, i>>
    /\ UNCHANGED <<cstate, sent, delivered, revents, nrepeated>>

\* ipc_poll has returned, or has written past pfds[] (nothing after that
\* is modelled).
Stopped ==
    /\ pc \in {"exited", "overflow"}
    /\ UNCHANGED vars

Server == Poll \/ ScanHup \/ ScanListen \/ ScanRead \/ ScanSkip \/ ScanEnd \/ Accept

-----------------------------------------------------------------------------
(***************************************************************************)
(* The clients: ipc_connect connects, queueing on L until accepted (the   *)
(* listen backlog of 5 is never full with the clients modelled);          *)
(* write_msg writes a message, and fails (EPIPE) once the server has shut *)
(* the socket down; and a client closes its end when it is done.          *)
(***************************************************************************)

Connect(c) ==
    /\ cstate[c] = "idle"
    /\ cstate' = [cstate EXCEPT ![c] = "connected"]
    /\ backlog' = Append(backlog, c)
    /\ UNCHANGED <<sent, delivered, srv, pfd, revents, nfds, i, nrepeated, pc>>

write_msg(c) ==
    /\ cstate[c] = "connected" /\ srv[c] # "shut" /\ sent[c] < MaxSends
    /\ sent' = [sent EXCEPT ![c] = @ + 1]
    /\ UNCHANGED <<cstate, backlog, delivered, srv, pfd, revents, nfds, i, nrepeated, pc>>

HangUp(c) ==
    /\ cstate[c] = "connected"
    /\ cstate' = [cstate EXCEPT ![c] = "hup"]
    /\ UNCHANGED <<backlog, sent, delivered, srv, pfd, revents, nfds, i, nrepeated, pc>>

Next ==
    \/ Server \/ Stopped
    \/ \E c \in Conns : Connect(c) \/ write_msg(c) \/ HangUp(c)

\* ipc_poll is the one thread that serves the socket, and poll returns
\* within 50 ms: the server keeps taking steps.  Clients need not.
Spec == Init /\ [][Next]_vars /\ WF_vars(Server)

-----------------------------------------------------------------------------
\* Types; read_msg never reads more messages than write_msg wrote.
TypeOK ==
    /\ cstate \in [Conns -> {"idle", "connected", "hup"}]
    /\ srv \in [Conns -> {"none", "accepted", "shut"}]
    /\ sent \in [Conns -> 0..MaxSends] /\ delivered \in [Conns -> 0..MaxSends]
    /\ \A c \in Conns : delivered[c] <= sent[c]
    /\ pfd \in [Pos -> Conns \cup {L, ZeroFd}]
    /\ revents \in [Pos -> SUBSET {"IN", "HUP"}]
    /\ nfds \in 1..MaxFds /\ i \in 0..MaxFds /\ nrepeated \in 0..MaxRepeat
    /\ pc \in {"poll", "scan", "accept", "exited", "overflow"}

\* The first nfds entries of pfds are the listening socket followed by
\* every accepted connection not yet shut down, each exactly once:
\* readjust_array, run after each close_sock, keeps the table closed up.
TableIsOpenConns ==
    /\ pfd[0] = L
    /\ \A p, q \in 1..nfds - 1 : p # q => pfd[p] # pfd[q]
    /\ {pfd[p] : p \in 1..nfds - 1} = {c \in Conns : srv[c] = "accepted"}

\* Every message a client writes while ipc_poll runs is eventually read by
\* read_msg, unless the server shuts the connection down: the scan must
\* reach every entry, a connection waiting on L must be accepted, and
\* ipc_poll may not give up while there is work.
DataEventuallyRead ==
    \A c \in Conns, n \in 1..MaxSends :
        (sent[c] >= n /\ pc # "exited") ~> (delivered[c] >= n \/ srv[c] = "shut")

\* A client that hangs up while ipc_poll runs is eventually shut down by
\* the server: POLLHUP, or a read of 0, reaches close_sock for it.
HungUpEventuallyShut ==
    \A c \in Conns : (cstate[c] = "hup" /\ pc # "exited") ~> srv[c] = "shut"

\* close_sock only ever shuts down a connection whose client hung up.
ShutdownOnlyHungUp ==
    [][\A c \in Conns : srv[c] # "shut" /\ srv'[c] = "shut" => cstate[c] = "hup"]_vars

\* A connection is shut down only after every message on it was read.
NoMessageDropped ==
    \A c \in Conns : srv[c] = "shut" => delivered[c] = sent[c]

\* accept_new_conn never writes past the end of pfds[].
NoFdOverflow == pc # "overflow"
=============================================================================
