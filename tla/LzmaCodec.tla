----------------------------- MODULE LzmaCodec -----------------------------
(***************************************************************************)
(* An encoder and a reader, end to end: data goes through a pull or a push *)
(* encoder, in LZMA or LZMA2, the stream it writes may be damaged or cut   *)
(* short on the way, and a reader takes it in pieces of any size.          *)
(*                                                                         *)
(* The system is stated for any codec: what an encoder and a reader do in  *)
(* one step are parameters, and MCLzmaCodec gives them the definitions of  *)
(* LzmaPush and LzmaReaders.                                               *)
(***************************************************************************)
EXTENDS LzmaPush, LzmaReaders

CONSTANTS
    Cases,                 \* the data and the settings tried: records [data, set]
    EncoderSteps(_, _, _), \* what an encoder may do next between two calls (PushSteps)
    EncoderReset(_, _, _), \* a used encoder made ready for another input (PushReset)
    ReaderTurns(_, _),     \* what a pass of a read may do (Turns)
    RunCall(_, _, _),      \* one call of a run decoder (RunLoop)
    RunEnd(_, _),          \* its finish (RunFinish)
    Pulled(_, _),          \* what the fast parser writes in one go (PullOutput)
    Whole(_, _, _, _)      \* how one read of everything ends (WholeRead)

VARIABLES
    data, set,   \* the input and the settings of this behaviour
    enc,         \* the encoder (LzmaPush)
    how,         \* which reader: "lzma", "lzma2", "run", or "none" yet
    size,        \* the size the reader was told
    stream,      \* what it reads
    intact,      \* whether that is what the encoder wrote
    rd           \* the reader (LzmaReaders)
vars == <<data, set, enc, how, size, stream, intact, rd>>

Closed == [st |-> "closed", given |-> 0]

Init ==
    /\ \E x \in Cases : data = x.data /\ set = x.set
    /\ enc = PushStart(set, data)
    /\ how = "none" /\ size = Unknown /\ stream = <<>> /\ intact = TRUE
    /\ rd = ReaderStart("lzma", Unknown)

-----------------------------------------------------------------------------
Encoding == <<how, size, stream, intact, rd, data, set>>

Push ==
    /\ enc.st = "fill"
    /\ enc.given < Len(data)
    /\ \E n \in Pieces : enc' = Fill(enc, set, data, n)
    /\ UNCHANGED Encoding

Finish ==
    /\ enc.st = "fill"
    /\ enc.given = Len(data)
    /\ enc' = FinishInput(enc)
    /\ UNCHANGED Encoding

Code ==
    /\ enc' \in EncoderSteps(enc, set, data)
    /\ UNCHANGED Encoding

\* reset, between two calls: another input is encoded, if the case has one, with or
\* without an end marker.
Reset ==
    /\ enc.st \in {"fill", "done", "failed"}
    /\ set.again # <<>>
    /\ data' = Head(set.again)
    /\ \E mark \in BOOLEAN : set' = [set EXCEPT !.again = Tail(@), !.mark = mark]
    /\ enc' = EncoderReset(enc, set', data')
    /\ UNCHANGED <<how, size, stream, intact, rd>>

-----------------------------------------------------------------------------
\* The readers that can be given what the encoder wrote, and the size each is told.
Readers ==
    IF set.fmt = "lzma"
    THEN {[how |-> "lzma", size |-> n] : n \in {Len(data)} \cup (IF set.mark THEN {Unknown} ELSE {})}
    ELSE {[how |-> "lzma2", size |-> Unknown]}
         \cup (IF data = <<>> THEN {} ELSE {[how |-> "run", size |-> Len(data)]})

\* A byte that can be damaged: not a property byte (see UpdateState), and not a
\* control byte, which is as wide as the code's.
PayloadBytes(s) == {i \in 1..Len(s) : s[i] < Byte}

Damaged(s) ==
    {[s EXCEPT ![i] = (@ + k) % Byte] : <<i, k>> \in PayloadBytes(s) \X {1, Byte \div 2}}
    \cup {SubSeq(s, 1, n) : n \in 0 .. Len(s) - 1}

Written == IF how' = "run" THEN SubSeq(enc.out, 1, Len(enc.out) - 1) ELSE enc.out

Open ==
    /\ enc.st = "done"
    /\ \E x \in Readers : how' = x.how /\ size' = x.size
    /\ \E s \in {Written} \cup (IF set.damage THEN Damaged(Written) ELSE {}) :
          stream' = s /\ intact' = (s = Written)
    /\ rd' = ReaderStart(how', size')
    /\ enc' = Closed
    /\ UNCHANGED <<data, set>>

-----------------------------------------------------------------------------
Reading == how # "none" /\ rd.answer = "none"

Beat(r) == IF r = rd THEN [r EXCEPT !.beat = ~@] ELSE r

\* One pass of a read: the source hands over some bytes if the reader has none.
Pass ==
    /\ Reading /\ how # "run"
    /\ \E r \in {SourceFill([rd EXCEPT !.room = m], stream, n) :
                    <<m, n>> \in {x \in Rooms \X Cuts : rd.room \in {0, x[1]}}} :
          rd' \in {Beat(t) : t \in ReaderTurns(how, r)}
    /\ UNCHANGED <<data, set, enc, how, size, stream, intact>>

\* One call of Lzma2RunDecoder::decode.
RunDecode ==
    /\ Reading /\ how = "run"
    /\ ~(rd.packed = Len(stream) /\ rd.check)
    /\ \E m \in Rooms, n \in Cuts :
          rd' = Beat(RunCall(rd, m, SubSeq(stream, rd.packed + 1,
                                          Lesser(rd.packed + n, Len(stream)))))
    /\ UNCHANGED <<data, set, enc, how, size, stream, intact>>

\* finish, once a call has consumed the last packed byte and did not fill its room.
RunFinishes ==
    /\ Reading /\ how = "run"
    /\ rd.packed = Len(stream) /\ rd.check
    /\ rd' = RunEnd(rd, Len(stream))
    /\ UNCHANGED <<data, set, enc, how, size, stream, intact>>

Idle == (enc.st = "failed" \/ rd.answer # "none") /\ UNCHANGED vars

Next == Push \/ Finish \/ Code \/ Reset \/ Open \/ Pass \/ RunDecode \/ RunFinishes \/ Idle

Progress == Push \/ Finish \/ Code \/ Reset \/ Open \/ Pass \/ RunDecode \/ RunFinishes

Ready == enc.st \in {"fill", "open", "code", "flushed", "returned", "done"} \/ Reading

Spec == Init /\ [][Next]_vars /\ ([]<>~Ready \/ []<><<Progress>>_vars)

-----------------------------------------------------------------------------
IsPrefixOf(s, t) == Len(s) <= Len(t) /\ SubSeq(t, 1, Len(s)) = s

\* What an encoder wrote, any reader gives back: at every moment a prefix of the
\* input, and in the end all of it and "ok", with nothing left unread, whatever
\* the parser chose, wherever a carry or a chunk boundary fell, and however input
\* and output were cut (lzma_enc.rs and lzma2_enc.rs against lzma/mod.rs,
\* lzma2/mod.rs, reader.rs and run.rs).
RoundTrip ==
    how # "none" /\ intact =>
        /\ IsPrefixOf(rd.out, data)
        /\ rd.answer # "none" =>
               rd.answer = "ok" /\ rd.out = data /\ (how = "run" \/ (rd.at = Len(stream) /\ rd.buf = <<>>))

\* The decoding loop reads its input without looking where it ends; what
\* LZMA_REQUIRED_INPUT_MAX and the dry run of lzma_dec_try_dummy promise is that
\* it never has to, even in a damaged stream, and that the two agree on the
\* length of every symbol (the internal failures of lzma_dec_decode_to_dic).
ReadsInside ==
    /\ ~(IF how \in {"lzma2", "run"} THEN rd.dec.d.over ELSE rd.dec.over)
    /\ rd.answer # "internal"

\* How a damaged stream is judged does not depend on how it is cut: every reader
\* ends with the answer, and if that is "ok" with the output, that one read of
\* everything gives (the comment on LzmaReader::check_end: "it has to happen
\* however the input arrives").
CutsDoNotMatter ==
    how # "none" /\ ~intact /\ rd.answer # "none" =>
        LET w == Whole(how, size, stream, Len(data) + 1) IN rd.answer = w.answer /\ (w.answer = "ok" => rd.out = w.out)

MoreThanPromised == set.limit # NoLimit /\ Len(data) > set.limit

\* A push encoder never finds its queue empty inside a block, and writes what the
\* pull encoder writes, whatever the pieces (enc/push.rs, "Why the queue cannot
\* run dry" and "Why the bytes are the pull encoder's"); an encoder that was reset in
\* the middle of another stream writes what a new one writes ("The bytes written
\* from here on are a new encoder's"); a stream of blocks is what its blocks are
\* alone, and a memory destination is never too small and gets the same bytes.  Only
\* a stream longer than promised (set_data_limit) fails, and it always does.
PushIsPull ==
    /\ enc.st = "failed" => MoreThanPromised
    /\ enc.st = "done" => ~MoreThanPromised
    /\ enc.st = "done" /\ set.fast => enc.out = Pulled(set, data)

\* Every behaviour ends with the encoder failed or the reader's answer: no reader
\* goes round its loop for ever without input or output.
ReadingEnds == <>(enc.st = "failed" \/ rd.answer # "none")
=============================================================================
