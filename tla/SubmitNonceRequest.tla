------------------------- MODULE SubmitNonceRequest -------------------------
(***************************************************************************)
(* The messages of nodecom.proto on the wire (nodecom.pb.cc): a request of *)
(* four numbers and a string, and a reply without fields.  Bytes are       *)
(* numbers.  The coded streams belong to the protobuf library; of its      *)
(* varints the model only bounds the numbers that TLC is given.            *)
(***************************************************************************)
EXTENDS Integers, Sequences

Numbers == {"accountid", "nonce", "deadline", "blockheight"}
Messages == [accountid : Nat, nonce : Nat, deadline : Nat, blockheight : Nat,
             secret : Seq(Nat)]

\* The constructor and Clear: proto3 has no unset field, only zero.
Cleared == [accountid |-> 0, nonce |-> 0, deadline |-> 0, blockheight |-> 0,
            secret |-> << >>]

FieldNumber == [accountid |-> 1, nonce |-> 2, deadline |-> 3, blockheight |-> 4,
                secret |-> 5]
Tag(f) == 8 * FieldNumber[f] + IF f \in Numbers THEN 0 ELSE 2

-----------------------------------------------------------------------------
(* Varints: seven bits a byte, the lowest first, all but the last marked    *)

\* Mutant: the highest seven bits come first.
Varint_HighFirst(n) ==
    LET bytes[x \in Nat] == IF x < 128 THEN <<x + 128>>
                            ELSE Append(bytes[x \div 128], 128 + (x % 128))
        all == bytes[n]
    IN [all EXCEPT ![Len(all)] = @ - 128]

Varint(n) == LET bytes[x \in Nat] == IF x < 128 THEN <<x>>
                                     ELSE <<128 + (x % 128)>> \o bytes[x \div 128]
             IN bytes[n]

\* UInt64Size: counted, not written.
VarintSize(n) == LET size[x \in Nat] == IF x < 128 THEN 1 ELSE 1 + size[x \div 128]
                 IN size[n]

\* The varint at the front of bytes: its value and length, 0 if it is cut off.
ReadVarint(bytes) ==
    LET Longer(r, low) == IF r.length = 0 THEN r
                          ELSE [length |-> r.length + 1, value |-> low + 128 * r.value]
        read[s \in Seq(Nat)] ==
            IF s = << >> THEN [length |-> 0, value |-> 0]
            ELSE IF Head(s) < 128 THEN [length |-> 1, value |-> Head(s)]
            ELSE Longer(read[Tail(s)], Head(s) % 128)
    IN read[bytes]

-----------------------------------------------------------------------------
(* Writing                                                                 *)

\* Fields that are zero or empty are left out.
InternalSerializeWithCachedSizesToArray(m) ==
    LET Number(f) == IF m[f] = 0 THEN << >> ELSE <<Tag(f)>> \o Varint(m[f])
        secret == IF m.secret = << >> THEN << >>
                  ELSE <<Tag("secret")>> \o Varint(Len(m.secret)) \o m.secret
    IN Number("accountid") \o Number("nonce") \o Number("deadline")
         \o Number("blockheight") \o secret

\* The array is allocated before it is written.
ByteSizeLong(m) ==
    LET Size(f) == IF m[f] = 0 THEN 0 ELSE 1 + VarintSize(m[f])
    IN Size("accountid") + Size("nonce") + Size("deadline") + Size("blockheight")
         + (IF m.secret = << >> THEN 0
            ELSE 1 + VarintSize(Len(m.secret)) + Len(m.secret))

-----------------------------------------------------------------------------
(* Reading                                                                 *)

\* The bytes of a field after its tag, -1 if malformed.
SkippedField(tag, bytes) ==
    LET v == ReadVarint(bytes)
        n == IF tag % 8 = 1 THEN 8
             ELSE IF tag % 8 = 5 THEN 4
             ELSE IF tag % 8 \notin {0, 2} \/ v.length = 0 THEN -1
             ELSE IF tag % 8 = 0 THEN v.length ELSE v.length + v.value
    IN IF n > Len(bytes) THEN -1 ELSE n

\* A field that is read replaces that of the message; one of no known number
\* or of another type is skipped.
Merged(m, tag, bytes) ==
    LET v == ReadVarint(bytes)
    IN [f \in DOMAIN m |->
            IF tag # Tag(f) THEN m[f]
            ELSE IF f \in Numbers THEN v.value
            ELSE SubSeq(bytes, v.length + 1, SkippedField(tag, bytes))]

\* Merges bytes into m, field by field.  Tags are one byte
\* (ReadTagWithCutoffNoLastTag(127u)), 0 at the end.
MergePartialFromCodedStream(m, bytes) ==
    LET merge[input \in [message : Messages, bytes : Seq(Nat)]] ==
            LET tag  == Head(input.bytes)
                rest == Tail(input.bytes)
                skip == SkippedField(tag, rest)
            IN IF input.bytes = << >> \/ tag = 0
               THEN [message |-> input.message, ok |-> TRUE]
               ELSE IF skip < 0 THEN [message |-> input.message, ok |-> FALSE]
               ELSE merge[[message |-> Merged(input.message, tag, rest),
                           bytes   |-> SubSeq(rest, skip + 1, Len(rest))]]
    IN merge[[message |-> m, bytes |-> bytes]]

-----------------------------------------------------------------------------
(* The reply has no field: whatever it holds is skipped.                   *)

ReplyParses(bytes) ==
    LET parses[s \in Seq(Nat)] ==
            LET skip == SkippedField(Head(s), Tail(s))
            IN \/ s = << >> \/ Head(s) = 0
               \/ skip >= 0 /\ parses[SubSeq(s, skip + 2, Len(s))]
    IN parses[bytes]

=============================================================================
