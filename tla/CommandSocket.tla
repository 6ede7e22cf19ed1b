---------------------------- MODULE CommandSocket ----------------------------
(***************************************************************************)
(* The command socket of tr/rcommand.py over the blocks of quoted words of *)
(* tr/quotedblock.py and the LineReader of tr/mainloop.py.                 *)
(*                                                                         *)
(* Lines are told apart by what the protocol does with them:               *)
(*   "get", "set"  commands on one parameter                               *)
(*   "bogus"       a command that raises                                   *)
(*   "quit"        closes the connection                                   *)
(*   "quote"       has one quote: it begins a word that goes on in the     *)
(*                 next lines, or ends one; all of them are a "set" then   *)
(*   "junk"        is not UTF-8                                            *)
(*   "blank"       ends a block                                            *)
(* A block runs in one callback of the ioloop.  The parameter may change   *)
(* by itself, and its getter is cached by tr/session.py; its setter is not.*)
(***************************************************************************)
EXTENDS Naturals, Sequences, FiniteSets

CONSTANTS
  Clients,
  MaxLines  \* bound: lines that the connections of a time hold and have held

\* What is assumed of the constants.
CommandSocketAssumption == MaxLines \in Nat

Commands == {"get", "set", "bogus", "quit"}
Lines == Commands \cup {"quote", "junk", "blank"}

VARIABLES
  connected,   \* clients with a LineReader
  received,    \* what its stream has received and the reader has not read
  partial,     \* partial_line: "none", "quoted", or "junk" when it cannot be decoded either
  lines,       \* QuotedBlockProtocol.lines: the commands of the block so far
  sent,        \* what was written to the stream: for each block OK, and what it got
  value, cached,  \* of the parameter; 0 is no value
  seen,        \* observation only: the lines that the reader has read
  failed       \* observation only: a block has failed since the cache was flushed last

vars == <<connected, received, partial, lines, sent, value, cached, seen, failed>>

Init ==
  /\ connected = {}
  /\ received = [c \in Clients |-> <<>>]
  /\ partial = [c \in Clients |-> "none"]
  /\ lines = [c \in Clients |-> <<>>]
  /\ sent = [c \in Clients |-> <<>>]
  /\ value = 1 /\ cached = 0
  /\ seen = [c \in Clients |-> <<>>]
  /\ failed = FALSE

-----------------------------------------------------------------------------
(* Clients, and the device *)

\* _Accept: a new streamer, with a protocol of its own.
Accept(c) ==
  /\ c \notin connected
  /\ connected' = connected \cup {c}
  /\ UNCHANGED <<received, partial, lines, sent, value, cached, seen, failed>>

Held == UNION {{c} \X DOMAIN (seen[c] \o received[c]) : c \in Clients}

Send(c, line) ==
  /\ c \in connected /\ Cardinality(Held) < MaxLines
  /\ received' = [received EXCEPT ![c] = Append(@, line)]
  /\ UNCHANGED <<connected, partial, lines, sent, value, cached, seen, failed>>

\* OnClose: no line is read any more, and the objects of the connection go.
Close(c) ==
  /\ connected' = connected \ {c}
  /\ received' = [received EXCEPT ![c] = <<>>]
  /\ partial' = [partial EXCEPT ![c] = "none"]
  /\ lines' = [lines EXCEPT ![c] = <<>>]
  /\ sent' = [sent EXCEPT ![c] = <<>>]
  /\ seen' = [seen EXCEPT ![c] = <<>>]

Disconnect(c) ==
  /\ c \in connected
  /\ Close(c)
  /\ UNCHANGED <<value, cached, failed>>

\* The device sets the parameter to 1 or 2; a "set" command to 1.
Change ==
  /\ value' = 3 - value
  /\ UNCHANGED <<connected, received, partial, lines, sent, cached, seen, failed>>

-----------------------------------------------------------------------------
(* Blocks *)

\* One command: what it gets is added, and it may raise.  After that none runs.
Run(x, command) ==
  IF x.ended # "no" THEN x
  ELSE CASE command = "get" ->
              LET got == IF x.cached = 0 THEN x.value ELSE x.cached
              IN [x EXCEPT !.cached = got, !.out = Append(@, got)]
         [] command = "set" -> [x EXCEPT !.value = 1]
         [] command = "bogus" -> [x EXCEPT !.ended = "raised"]
         [] OTHER -> [x EXCEPT !.ended = "EOFError"]

Ran(list) ==
  LET start == [value |-> value, cached |-> cached, out |-> <<>>,
                ended |-> IF list = <<>> THEN "raised" ELSE "no"]
      ran[n \in 0..Len(list)] == IF n = 0 THEN start ELSE Run(ran[n - 1], list[n])
  IN ran[Len(list)]

\* Mutation: a block that only gets values does not flush the cache.
CachedAfterGets(x) == IF x.ended = "no" /\ x.value # value THEN 0 ELSE x.cached

\* session.cache.flush, which a block that raised does not reach.
CachedAfter(x) == IF x.ended = "no" THEN 0 ELSE x.cached

\* The block that is written back: OK and what was got, or the error.
Rendered(x) == [ok |-> x.ended = "no", got |-> IF x.ended = "no" THEN x.out ELSE <<>>]

\* ProcessBlock, and GotData of the reader: it writes the answer, or closes the stream.
ProcessBlock(c, list) ==
  LET x == Ran(list) IN
  /\ value' = x.value
  /\ cached' = CachedAfter(x)
  /\ failed' = (x.ended # "no" /\ (failed \/ x.cached # 0))
  /\ IF x.ended = "EOFError" THEN Close(c)
     ELSE /\ sent' = [sent EXCEPT ![c] = Append(@, Rendered(x))]
          /\ lines' = [lines EXCEPT ![c] = <<>>]
          /\ UNCHANGED connected

\* Mutation: a blank line ends the block even inside a word.
UnfinishedUnlessBlank(c, line) == line # "blank" /\ (partial[c] # "none") # (line = "quote")

\* unfinished_word: a word is still open after this line.
Unfinished(c, line) == (partial[c] # "none") # (line = "quote")

\* What the partial line and this one hold: a command, nothing, or what no decoder reads.
Joined(c, line) ==
  IF line # "quote" THEN line ELSE IF partial[c] = "junk" THEN "junk" ELSE "set"

\* GotLine.  A line that cannot be decoded is left out.
GotLine(c, line) ==
  IF line = "blank" THEN ProcessBlock(c, lines[c])
  ELSE /\ lines' = [lines EXCEPT ![c] = IF line = "junk" THEN @ ELSE Append(@, line)]
       /\ UNCHANGED <<connected, sent, value, cached, failed>>

\* The reader has read this line.
Read(c, line, rest) ==
  /\ received' = [received EXCEPT ![c] = Tail(@)]
  /\ seen' = [seen EXCEPT ![c] = Append(@, line)]
  /\ partial' = [partial EXCEPT ![c] = rest]

\* QuotedBlockProtocol.GotData: a line with an unfinished word waits for the next ones.
GotData(c) ==
  /\ received[c] # <<>>
  /\ LET line == Head(received[c]) IN
     IF Unfinished(c, line)
     THEN /\ Read(c, line, IF "junk" \in {line, partial[c]} THEN "junk" ELSE "quoted")
          /\ UNCHANGED <<connected, lines, sent, value, cached, failed>>
     ELSE IF Joined(c, line) = "blank" /\ Ran(lines[c]).ended = "EOFError"
     THEN ProcessBlock(c, lines[c])
     ELSE Read(c, line, "none") /\ GotLine(c, Joined(c, line))

Next ==
  \/ \E c \in Clients :
       \/ Accept(c) \/ Disconnect(c) \/ GotData(c)
       \/ \E line \in Lines : Send(c, line)
  \/ Change

Spec == Init /\ [][Next]_vars

-----------------------------------------------------------------------------

TypeOK ==
  /\ connected \subseteq Clients
  /\ Cardinality(Held) <= MaxLines
  /\ \A c \in Clients :
       /\ partial[c] \in {"none", "quoted", "junk"}
       /\ \A n \in DOMAIN lines[c] : lines[c][n] \in Commands
  /\ value \in 1..2 /\ cached \in 0..2 /\ failed \in BOOLEAN

\* The lines that end a block: the blank ones that no quote is open at.
Quotes(s, n) == Cardinality({i \in 1..n : s[i] = "quote"})
Ends(s) == {n \in DOMAIN s : s[n] = "blank" /\ Quotes(s, n) % 2 = 0}

\* Every block of a connection is answered once, and in order, however its lines
\* arrived: the words of a block never become part of another, and an undecodable line
\* loses itself only (tr/quotedblock.py:75-104, tr/mainloop.py:140-156).
BlocksAnswered ==
  \A c \in connected : Len(sent[c]) = Cardinality(Ends(seen[c]))

\* A value of the cache outlives the block that got it only if that block, or one after
\* it, failed (tr/rcommand.py:61-71).
CacheFlushed == cached # 0 => failed
=============================================================================
