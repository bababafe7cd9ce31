------------------------------ MODULE Netstring ------------------------------
(* netstring: NetstringEncoder and NetstringDecoder at the two ends of a     *)
(* byte stream that arrives in pieces.  Bytes are 0..9 for the digits, and   *)
(* COLON, COMMA and other codes.  The caller decodes until nothing comes     *)
(* out, then reads more, as tokio's FramedRead does (external).              *)
EXTENDS Integers, Sequences, SequencesExt

CONSTANTS Messages,    \* payloads that may be sent, sequences of bytes
          MaxSent,     \* how many of them
          Word,        \* one more than the largest usize
          Garbage      \* bytes a broken peer may put on the wire

COLON == 10
COMMA == 11
Digits == 0..9

VARIABLES sent,        \* messages encoded
          wire,        \* bytes not yet read
          buf,         \* the decoder's BytesMut
          state,       \* its State: Num(n) or Body(n); None is <<>>
          got,         \* messages decoded
          broken,      \* decode() has returned an error
          spoiled      \* garbage has been put on the wire

vars == <<sent, wire, buf, state, got, broken, spoiled>>

Num(n) == <<"Num", n>>
Body(n) == <<"Body", n>>

(* write!("{}", n)                                                           *)
Decimal(n) == IF n < 10 THEN <<n>> ELSE <<n \div 10, n % 10>>

encode(msg) == Decimal(Len(msg)) \o <<COLON>> \o msg \o <<COMMA>>

(* The digits before the first other byte, accumulated in a usize.           *)
Accumulate(cur, digits) == FoldLeft(LAMBDA acc, d : (acc * 10 + d) % Word, cur, digits)

(* One pass of decode_buf's loop over the bytes b, at offset `consumed`.     *)
NumStep(cur, b, consumed) ==
    LET stop == {i \in DOMAIN b : b[i] \notin Digits}
        i == CHOOSE j \in stop : \A k \in stop : j <= k
    IN  IF stop = {}
        THEN [state |-> Num(Accumulate(cur, b)), consumed |-> consumed + Len(b), ret |-> "none"]
        ELSE IF b[i] # COLON THEN [state |-> <<>>, consumed |-> consumed, ret |-> "error"]
        ELSE [state |-> Body(Accumulate(cur, SubSeq(b, 1, i - 1))), consumed |-> consumed + i, ret |-> "loop"]

BodyStep(len, b, consumed) ==
    IF Len(b) > len
    THEN IF b[len + 1] = COMMA
         THEN [state |-> Num(0), consumed |-> consumed + len + 1, ret |-> "item", start |-> consumed, len |-> len]
         ELSE [state |-> <<>>, consumed |-> consumed, ret |-> "error"]
    ELSE [state |-> Body(len - Len(b)), consumed |-> consumed + Len(b), ret |-> "none"]

decode_buf(st, b) ==
    LET rest(n) == SubSeq(b, n + 1, Len(b))
        first == IF st = <<>> THEN [state |-> <<>>, consumed |-> 0, ret |-> "error"]
                 ELSE IF st[1] = "Num" THEN NumStep(st[2], b, 0)
                 ELSE BodyStep(st[2], b, 0)
    IN  IF first.ret # "loop" THEN first
        ELSE BodyStep(first.state[2], rest(first.consumed), first.consumed)

(* Mutant: the state is left where the incomplete input took it.             *)
MutantRolledBack(saved, new) == new

(* decode(): an incomplete message leaves the buffer alone and rolls the     *)
(* state back to what it was.                                                *)
RolledBack(saved, new) == saved

Decode ==
    LET r == decode_buf(state, buf)
    IN  /\ ~broken /\ buf # <<>>
        /\ \/ /\ r.ret = "item"
              /\ got' = Append(got, SubSeq(buf, r.start + 1, r.start + r.len))
              /\ buf' = SubSeq(buf, r.consumed + 1, Len(buf))
              /\ state' = r.state
              /\ UNCHANGED broken
           \/ /\ r.ret = "error"
              /\ state' = r.state /\ broken' = TRUE
              /\ UNCHANGED <<got, buf>>
        /\ UNCHANGED <<sent, wire, spoiled>>

(* decode() returned None: more bytes are read and it is called again.       *)
NeedMore == buf = <<>> \/ decode_buf(state, buf).ret = "none"

Read ==
    /\ ~broken /\ NeedMore
    /\ \E n \in 1..Len(wire) :
        /\ buf' = buf \o SubSeq(wire, 1, n)
        /\ wire' = SubSeq(wire, n + 1, Len(wire))
    /\ state' = IF buf = <<>> THEN state ELSE RolledBack(state, decode_buf(state, buf).state)
    /\ UNCHANGED <<sent, got, broken, spoiled>>

Send(msg) ==
    /\ Len(sent) < MaxSent
    /\ sent' = Append(sent, msg)
    /\ wire' = wire \o encode(msg)
    /\ UNCHANGED <<buf, state, got, broken, spoiled>>

(* The peer is not an encoder: a byte that belongs to no message.            *)
Spoil(byte) ==
    /\ ~spoiled /\ Len(sent) < MaxSent
    /\ spoiled' = TRUE
    /\ wire' = Append(wire, byte)
    /\ UNCHANGED <<sent, buf, state, got, broken>>

(* After an error the decoder stays broken: calling it again fails again.    *)
DecodeAgain == broken /\ decode_buf(state, buf).ret = "error" /\ UNCHANGED vars

Init ==
    /\ sent = <<>> /\ wire = <<>> /\ buf = <<>> /\ got = <<>>
    /\ state = Num(0)
    /\ broken = FALSE /\ spoiled = FALSE

Next == (\E m \in Messages : Send(m)) \/ (\E b \in Garbage : Spoil(b)) \/ Read \/ Decode \/ DecodeAgain

Spec == Init /\ [][Next]_vars

(* However the bytes are cut into pieces, the messages come out whole and in *)
(* order; nothing is left over once all of the stream has been decoded; an   *)
(* error only happens on a stream no encoder wrote, and is final.            *)
FramingKept ==
    /\ ~spoiled => /\ IsPrefix(got, sent) /\ ~broken
                   /\ wire = <<>> /\ buf = <<>> => got = sent
                   /\ wire = <<>> /\ NeedMore => buf = <<>>
    /\ broken => decode_buf(state, buf).ret = "error"
=============================================================================
