------------------------------- MODULE Libsck -------------------------------
(* The socket mode of crserv: one thread accepts a connection, reads lines *)
(* from it, answers each with +OK and goes on to the next connection.      *)
(*                                                                         *)
(* A client sends one of the byte sequences of Scripts, byte by byte, and  *)
(* may close at any time.  Bytes are "r" (CR), "n" (LF) and "x".           *)
EXTENDS Naturals, Sequences, FiniteSets, SequencesExt

CONSTANTS Clients,  \* who connects
          Scripts,  \* what a client may send, a sequence of bytes
          Length,   \* bytes of the line buffer
          Limit     \* descriptors the process may still open

Bytes == {"r", "n", "x"}

ASSUME LibsckAssumption ==
    Scripts \subseteq Seq(Bytes) /\ Length \in Nat \ {0} /\ Limit \in Nat

NoClient == "none"
ZSEOL == <<"r", "n">>

VARIABLES
    libsck_state,  \* TRUE until libsck_poweroff
    bound,         \* the listening socket is bound and listening
    backlog,       \* connections waiting to be accepted
    spc,           \* the server: "server", "accept", "select", "recv",
                   \* "answer", "ended"
    fdc,           \* the connection it serves
    open,          \* connections whose descriptor the process holds
    eol_matched,   \* cread
    ptr,           \* the bytes it has stored
    running,       \* SIGPIPE has not ended the process
    script, sent,  \* each client: what it sends, how much it has sent
    closed,        \* clients that have closed their end
    taken,         \* bytes the server has received from each client
    oks,           \* +OK lines sent to each client
    late           \* HISTORY: connections accepted after libsck_poweroff

server  == <<bound, spc, fdc, open, eol_matched, ptr, running>>
clients == <<script, sent, closed>>
sck == <<libsck_state, backlog, server, clients, taken, oks, late>>

SckInit ==
    /\ libsck_state = TRUE
    /\ bound = FALSE /\ backlog = <<>>
    /\ spc = "server" /\ fdc = NoClient /\ open = {}
    /\ eol_matched = 0 /\ ptr = <<>> /\ running = TRUE
    /\ script \in [Clients -> Scripts]
    /\ sent = [c \in Clients |-> 0] /\ closed = {}
    /\ taken = [c \in Clients |-> 0] /\ oks = [c \in Clients |-> 0]
    /\ late = {}
-----------------------------------------------------------------------------
(* The clients.                                                            *)
Known(c) == c \in open \cup ToSet(backlog)

Connect(c) ==
    /\ running /\ bound /\ ~Known(c) /\ c \notin closed
    /\ backlog' = Append(backlog, c)
    /\ UNCHANGED <<libsck_state, server, clients, taken, oks, late>>

Send(c) ==
    /\ Known(c) /\ c \notin closed /\ sent[c] < Len(script[c])
    /\ sent' = [sent EXCEPT ![c] = @ + 1]
    /\ UNCHANGED <<libsck_state, backlog, server, script, closed, taken, oks, late>>

Close(c) ==
    /\ Known(c) /\ c \notin closed
    /\ closed' = closed \cup {c}
    /\ UNCHANGED <<libsck_state, backlog, server, script, sent, taken, oks, late>>

(* main, at the end of a shutdown.                                         *)
libsck_poweroff ==
    /\ running /\ libsck_state
    /\ libsck_state' = FALSE
    /\ UNCHANGED <<backlog, server, clients, taken, oks, late>>
-----------------------------------------------------------------------------
(* libsck_server: the given address, any address, that of the host's name. *)
(* Its result is ignored: the loop begins even when all three are refused. *)
libsck_server ==
    /\ running /\ spc = "server"
    /\ \E address, any, host \in BOOLEAN : bound' = (address \/ any \/ host)
    /\ spc' = "accept"
    /\ UNCHANGED <<libsck_state, backlog, fdc, open, eol_matched, ptr, running,
                   clients, taken, oks, late>>

\* MUTANT of LoopGoesOn: while(1).
LoopGoesOn_always == TRUE

LoopGoesOn == libsck_state

(* The loop looks at libsck_state and accepts.  Without a listening socket *)
(* or a free descriptor accept fails at once, and the loop goes round.     *)
(* The thread may be blocked in accept when libsck_poweroff comes: it then *)
(* accepts the next connection all the same.                               *)
Test ==
    /\ running /\ spc = "accept"
    /\ spc' = IF LoopGoesOn THEN "accepting" ELSE "ended"
    /\ UNCHANGED <<libsck_state, backlog, bound, fdc, open, eol_matched, ptr,
                   running, clients, taken, oks, late>>

CanAccept == bound /\ Cardinality(open) < Limit

Accept ==
    /\ running /\ spc = "accepting" /\ CanAccept /\ backlog # <<>>
    /\ fdc' = Head(backlog) /\ backlog' = Tail(backlog)
    /\ open' = open \cup {fdc'}
    /\ late' = IF libsck_state THEN late ELSE late \cup {fdc'}
    /\ spc' = "select"
    /\ UNCHANGED <<libsck_state, bound, eol_matched, ptr, running, clients,
                   taken, oks>>

AcceptFails ==
    /\ running /\ spc = "accepting" /\ ~CanAccept
    /\ spc' = "accept"
    /\ UNCHANGED <<libsck_state, backlog, bound, fdc, open, eol_matched, ptr,
                   running, clients, taken, oks, late>>

(* At CLOSE nothing is closed.                                             *)
Disconnect ==
    /\ spc' = "accept"
    /\ UNCHANGED <<fdc, open>>

Readable == sent[fdc] > taken[fdc] \/ fdc \in closed

Begin == eol_matched' = 0 /\ ptr' = <<>>   \* a call of cread

Select ==
    /\ running /\ spc = "select" /\ Readable
    /\ Begin /\ spc' = "recv"
    /\ UNCHANGED <<libsck_state, backlog, bound, fdc, open, running, clients,
                   taken, oks, late>>

Timeout ==
    /\ running /\ spc = "select" /\ ~Readable
    /\ Disconnect
    /\ UNCHANGED <<libsck_state, backlog, bound, eol_matched, ptr, running,
                   clients, taken, oks, late>>
-----------------------------------------------------------------------------
(* cread.  The byte is stored before the limit is looked at.               *)
Byte == script[fdc][taken[fdc] + 1]

\* MUTANT of Matched: a byte that does not fit is looked at once more.
Matched_again ==
    IF Byte = ZSEOL[eol_matched + 1] THEN eol_matched + 1
    ELSE IF Byte = ZSEOL[1] THEN 1 ELSE 0

(* A byte that does not fit starts the match anew, without being looked at *)
(* as its first byte.                                                      *)
Matched == IF Byte = ZSEOL[eol_matched + 1] THEN eol_matched + 1 ELSE 0

Recv(stored) ==
    /\ running /\ spc = "recv" /\ sent[fdc] > taken[fdc]
    /\ taken' = [taken EXCEPT ![fdc] = @ + 1]
    /\ ptr' = Append(ptr, Byte)
    /\ Len(ptr) < Length <=> stored
    /\ UNCHANGED <<libsck_state, backlog, bound, running, clients, oks, late>>

InLine ==
    /\ Recv(TRUE) /\ Matched < 2
    /\ eol_matched' = Matched
    /\ UNCHANGED <<spc, fdc, open>>

(* The end of a line; an empty one (strlen is 0) ends the session.         *)
EndOfLine ==
    /\ Recv(TRUE) /\ Matched = 2
    /\ eol_matched' = 0
    /\ IF Len(ptr) > 1 THEN spc' = "answer" /\ UNCHANGED <<fdc, open>>
                       ELSE Disconnect

BufferLimit == Recv(FALSE) /\ Disconnect /\ UNCHANGED eol_matched

Closed ==
    /\ running /\ spc = "recv" /\ sent[fdc] = taken[fdc] /\ fdc \in closed
    /\ Disconnect
    /\ UNCHANGED <<libsck_state, backlog, bound, eol_matched, ptr, running,
                   clients, taken, oks, late>>

(* What is decoded is the memory that holds the address of the callback,   *)
(* not the line: it has no key, and the callback makes a request of a null *)
(* pointer.  Then cwrite.  If the client has gone, its line may be taken   *)
(* nevertheless, be refused, or raise SIGPIPE, whose handler calls exit.   *)
Answer ==
    /\ running /\ spc = "answer"
    /\ IF fdc \notin closed
       THEN oks' = [oks EXCEPT ![fdc] = @ + 1] /\ UNCHANGED running
       ELSE UNCHANGED oks /\ running' \in BOOLEAN
    /\ Begin /\ spc' = "recv"
    /\ UNCHANGED <<libsck_state, backlog, bound, fdc, open, clients, taken, late>>

Server == \/ libsck_server \/ Test \/ Accept \/ AcceptFails \/ Select \/ Timeout
          \/ InLine \/ EndOfLine \/ BufferLimit \/ Closed \/ Answer
-----------------------------------------------------------------------------
(* What a client is owed: an answer for each line.  A line ends with CR LF *)
(* where an odd number of CRs comes before the LF (an even one hides the   *)
(* end of the line); an empty line, or one that does not fit, is the last. *)
CRsBefore(s, n) ==   \* how many CRs in a row end at byte n
    Cardinality({k \in 1..n : \A m \in k..n : s[m] = "r"})

LineEnd(s, n) == s[n] = "n" /\ CRsBefore(s, n - 1) % 2 = 1

Ends(s) == {n \in 1..Len(s) : LineEnd(s, n)}

(* The line that ends at n is not empty, and fits with its CR and LF.      *)
Good(ends, n) ==
    /\ n - 2 \notin ends \cup {0}
    /\ \E k \in ends \cup {0} : k < n /\ n - k <= Length

Owed(s) ==
    Cardinality({n \in Ends(s) : \A m \in Ends(s) : m <= n => Good(Ends(s), m)})

(* A client gets no more +OK lines than the server has read lines from it, *)
(* in whatever pieces they arrived; a client that waits for its answers    *)
(* before it closes gets one for each.                                     *)
OkPerLine ==
    \A c \in Clients :
        LET owed == Owed(SubSeq(script[c], 1, taken[c]))
        IN  /\ oks[c] <= owed
            /\ (running /\ c \notin closed /\ ~(c = fdc /\ spc = "answer"))
                   => oks[c] = owed

(* After libsck_poweroff at most one more connection is accepted: the one  *)
(* the thread was already waiting for.                                     *)
OneLateAtMost == Cardinality(late) <= 1

=============================================================================
