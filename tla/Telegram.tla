------------------------------ MODULE Telegram ------------------------------
(***************************************************************************)
(* Sending a text to the chat: in messages Telegram accepts, one after the *)
(* other, each tried a second time if Telegram asks to wait.               *)
(* A text is a sequence of bytes: "n" a newline, "a" a character of one    *)
(* byte, "s" and "c" the first and the second byte of one of two.          *)
(***************************************************************************)
EXTENDS Context, Naturals, Sequences, SequencesExt

CONSTANTS
  Limit,  \* MaxMessageLen
  Texts   \* what is sent

Bytes == {"n", "a", "s", "c"}

(* No character is cut.                                                    *)
Whole(t) == \A i \in 0 .. Len(t) : (i > 0 /\ t[i] = "s") <=> (i < Len(t) /\ t[i + 1] = "c")

(* What the formatters write. A report begins with a heading, has at most  *)
(* one blank line at a time and none at the end; the other texts are short.*)
Written(t) ==
  /\ t # <<>> /\ Whole(t)
  /\ Len(t) > Limit =>
       /\ t[1] # "n" /\ t[Len(t)] # "n"
       /\ \A i \in 1 .. Len(t) - 2 : t[i] = "n" /\ t[i + 1] = "n" => t[i + 2] # "n"

ASSUME TelegramAssumption ==
  /\ Limit \in Nat /\ Limit >= 2
  /\ \A t \in Texts : t \in Seq(Bytes) /\ Written(t)

VARIABLES
  text,    \* the text being sent
  chunks,  \* its messages that are still to be sent
  sending, \* "no", at a "first" try, waiting, or at a "second" one
  chat     \* the messages of this text that arrived (history)

telegramVars == <<text, chunks, sending, chat>>

-----------------------------------------------------------------------------
(* Splitting. *)

TrimRight(t) == SubSeq(t, 1, Max({0} \cup {i \in DOMAIN t : t[i] # "n"}))

(* Where the first piece of s ends: at the last place that is not within a *)
(* character.                                                              *)
Cut(s) ==
  IF Len(s) <= Limit THEN Len(s)
  ELSE IF s[Limit + 1] = "c" THEN Limit - 1 ELSE Limit

CutOff(acc) ==
  IF acc.rest = <<>> THEN acc
  ELSE [done |-> Append(acc.done, SubSeq(acc.rest, 1, Cut(acc.rest))),
        rest |-> SubSeq(acc.rest, Cut(acc.rest) + 1, Len(acc.rest))]

(* After each turn of the loop; there is one for each byte at most.        *)
Pieces(s) ==
  LET After[k \in 0 .. Len(s)] ==
        IF k = 0 THEN [done |-> <<>>, rest |-> s] ELSE CutOff(After[k - 1])
  IN  After

SplitRunes(s) == Pieces(s)[Len(s)].done

Flush(done, current) == IF current = <<>> THEN done ELSE Append(done, TrimRight(current))

AddLine(acc) ==
  LET full == acc.current # <<>> /\ Len(acc.current) + Len(acc.line) + 1 > Limit
      long == Len(acc.line) > Limit
      done == IF full \/ long THEN Flush(acc.done, acc.current) ELSE acc.done
      current == IF full \/ long THEN <<>> ELSE acc.current
  IN  IF long THEN [done |-> done \o SplitRunes(acc.line), current |-> <<>>, line |-> <<>>]
      ELSE [done |-> done, current |-> Append(current \o acc.line, "n"), line |-> <<>>]

Read(acc, b) == IF b = "n" THEN AddLine(acc) ELSE [acc EXCEPT !.line = Append(@, b)]

(* After each byte: the chunks that are done, the one being written, and   *)
(* the line being read.                                                    *)
Chunks(t) ==
  LET After[n \in 0 .. Len(t)] ==
        IF n = 0 THEN [done |-> <<>>, current |-> <<>>, line |-> <<>>]
        ELSE Read(After[n - 1], t[n])
  IN  After

(* A newline is written after the last line too.                           *)
SplitMessage(t) ==
  IF Len(t) <= Limit THEN <<t>>
  ELSE LET acc == Chunks(Append(t, "n"))[Len(t) + 1] IN Flush(acc.done, acc.current)

-----------------------------------------------------------------------------
(* SendLong. *)

SendNothing == text' = <<>> /\ chunks' = <<>> /\ sending' = "no" /\ chat' = <<>>

BeginSend(t) ==
  /\ sending = "no"
  /\ text' = t
  /\ chunks' = SplitMessage(t)
  /\ sending' = "first"
  /\ chat' = <<>>
  /\ UNCHANGED ctx

Trying == sending \in {"first", "second"}

SendMessage ==
  /\ Trying
  /\ chunks # <<>>
  /\ ctx = "live"
  /\ chat' = Append(chat, Head(chunks))
  /\ chunks' = Tail(chunks)
  /\ sending' = "first"
  /\ UNCHANGED <<ctx, text>>

(* Mutation of RetryAfter: any failed answer is tried again.               *)
RetryLost ==
  /\ sending = "first"
  /\ chunks # <<>>
  /\ ctx = "live"
  /\ chat' \in {chat, Append(chat, Head(chunks))}
  /\ sending' = "waiting"
  /\ UNCHANGED <<ctx, text, chunks>>

(* A 429 that says how long to wait.                                       *)
RetryAfter ==
  /\ sending = "first"
  /\ chunks # <<>>
  /\ ctx = "live"
  /\ sending' = "waiting"
  /\ UNCHANGED <<ctx, text, chunks, chat>>

WaitIsOver ==
  /\ sending = "waiting"
  /\ ctx = "live"
  /\ sending' = "second"
  /\ UNCHANGED <<ctx, text, chunks, chat>>

(* SendLong returns nil. *)
Sent ==
  /\ Trying
  /\ chunks = <<>>
  /\ SendNothing
  /\ UNCHANGED ctx

(* It returns an error: any other failure, one at the second try, or the   *)
(* end of the context. Whether the message arrived it does not know.       *)
SendFails ==
  /\ sending # "no"
  /\ chunks # <<>>
  /\ sending = "waiting" => ctx # "live"
  /\ SendNothing
  /\ UNCHANGED ctx

SendStep == SendMessage \/ RetryAfter \/ WaitIsOver

TelegramTypeOK ==
  /\ text \in Texts \cup {<<>>}
  /\ sending \in {"no", "first", "waiting", "second"}

(* What a message says, line breaks aside.                                 *)
Letters(t) == FlattenSeq([i \in DOMAIN t |-> IF t[i] = "n" THEN <<>> ELSE <<t[i]>>])

HasLine(t, n) == \E i \in 0 .. Len(t) - n : \A j \in i + 1 .. i + n : t[j] # "n"

(* No message is longer than Telegram takes or begins or ends within a     *)
(* character, and none is empty, which Telegram would refuse, unless the   *)
(* text has a line as long as a message, or one byte short of that, next   *)
(* to an empty one: splitMessage then flushes nothing but line breaks.     *)
ChunksFit ==
  \A c \in Range(chunks) :
    /\ Len(c) <= Limit
    /\ c # <<>> => c[1] # "c" /\ c[Len(c)] # "s"
    /\ c = <<>> => HasLine(text, Limit - 1)

(* The chat gets the text in its order, no part of it twice, and all of it *)
(* by the time the send counts as done (SendLong, and MarkReported after   *)
(* it).                                                                    *)
ChatReadsText ==
  sending # "no" =>
    /\ IsPrefix(Letters(FlattenSeq(chat)), Letters(text))
    /\ chunks = <<>> => Letters(FlattenSeq(chat)) = Letters(text)

(* What is sent can be delivered, and is delivered once and in order.      *)
MessagesArrive == ChunksFit /\ ChatReadsText

=============================================================================
