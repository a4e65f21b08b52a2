----------------------------- MODULE StdinLines -----------------------------
(***************************************************************************)
(* The line decoder of the standard-input reader (StdinLineDecoder,        *)
(* src/src/live_runtime.rs), on the bytes its behaviour tells apart: the   *)
(* first and second byte of a two-byte character, CR and LF.               *)
(***************************************************************************)
EXTENDS Naturals, Sequences, FiniteSetsExt, SequencesExt

Byte == {"lead", "cont", "cr", "lf"}

Line(text) == [kind |-> "Line", text |-> text]
Failed == [kind |-> "Failed", text |-> <<>>]
Ended == [kind |-> "Ended", text |-> <<>>]
Cancelled == [kind |-> "Cancelled", text |-> <<>>]
IsTerminal(event) == event.kind \in {"Failed", "Ended"}

Event == [kind : {"Line", "Failed", "Ended", "Cancelled"}, text : Seq(Byte)]
Datum == Byte \cup {"eof", "error"}

\* String::from_utf8 succeeds: leading and continuation bytes pair up.
ValidUtf8(bytes) ==
  \A i \in DOMAIN bytes :
    /\ bytes[i] = "lead" => i < Len(bytes) /\ bytes[i + 1] = "cont"
    /\ bytes[i] = "cont" => i > 1 /\ bytes[i - 1] = "lead"

Decoded(bytes) == IF ValidUtf8(bytes) THEN Line(bytes) ELSE Failed

\* strip_suffix(b"\r") on a line whose LF is already taken off.
WithoutCr(bytes) ==
  IF bytes # <<>> /\ Last(bytes) = "cr" THEN Front(bytes) ELSE bytes

(***************************************************************************)
(* StdinLineDecoder::push.  Only the new bytes are searched for line feeds *)
(* (none is ever left pending); the lines they end become events, up to    *)
(* the first that is not UTF-8, which also discards what is left over.     *)
(***************************************************************************)
Push(pending, bytes) ==
  LET all == pending \o bytes
      feeds == {i \in Len(pending) + 1 .. Len(all) : all[i] = "lf"}
      feed(k) == CHOOSE i \in feeds : Cardinality({j \in feeds : j <= i}) = k
      start(k) == IF k = 1 THEN 1 ELSE feed(k - 1) + 1
      event(k) == Decoded(WithoutCr(SubSeq(all, start(k), feed(k) - 1)))
      failures == {k \in 1 .. Cardinality(feeds) : event(k) = Failed}
      made == IF failures = {} THEN Cardinality(feeds) ELSE Min(failures)
  IN  [pending |-> IF feeds = {} THEN all
                   ELSE IF failures # {} THEN <<>>
                   ELSE SubSeq(all, Max(feeds) + 1, Len(all)),
       events |-> [k \in 1 .. made |-> event(k)]]

\* Wrong variant: a last line without a line feed is forgotten.
FinishWithoutLine(pending) == <<Ended>>

\* StdinLineDecoder::finish, at end of input.
Finish(pending) ==
  IF pending = <<>> THEN <<Ended>>
  ELSE IF ValidUtf8(pending) THEN <<Line(pending), Ended>> ELSE <<Failed>>

-----------------------------------------------------------------------------
(***************************************************************************)
(* The line contract of ADR-0009, byte by byte over everything one reader  *)
(* was given, however it was cut into chunks; "eof" and "error" stand for  *)
(* the end of input and a failed read.                                     *)
(***************************************************************************)
Over(made) == made.events # <<>> /\ IsTerminal(Last(made.events))

NextByte(byte, made) ==
  LET Emits(events) == [line |-> <<>>, events |-> made.events \o events]
  IN  CASE Over(made) -> made
        [] ~Over(made) /\ byte = "lf" -> Emits(<<Decoded(WithoutCr(made.line))>>)
        [] ~Over(made) /\ byte = "error" -> Emits(<<Failed>>)
        [] ~Over(made) /\ byte = "eof" ->
             Emits(IF made.line = <<>> THEN <<Ended>>
                   ELSE IF ValidUtf8(made.line) THEN <<Line(made.line), Ended>>
                   ELSE <<Failed>>)
        [] OTHER -> [made EXCEPT !.line = Append(@, byte)]

MadeOf(bytes) ==
  LET made[n \in 0 .. Len(bytes)] ==
        IF n = 0 THEN [line |-> <<>>, events |-> <<>>] ELSE NextByte(bytes[n], made[n - 1])
  IN  made[Len(bytes)]

LinesOf(bytes) == MadeOf(bytes).events
==============================================================================
