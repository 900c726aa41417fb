------------------------ MODULE AccountValueEncoding ------------------------
(***************************************************************************)
(* AccountValueEncoding (wallet/walletdb/accountValue.ts): the wallet     *)
(* database encoding of an account record, encrypted or decrypted.        *)
(*                                                                         *)
(* A buffer is a sequence of bytes (naturals below 256).  bufio is        *)
(* modelled by what it does: little-endian fixed-width integers, varints  *)
(* (one byte below 0xfd, else a marker byte and 2, 4 or 8 bytes), UTF-8   *)
(* strings behind a varint byte length, and a static writer of exactly    *)
(* getSize(value) bytes that throws on any other length.  A string is a   *)
(* sequence of code points, a hex string a sequence of one-character      *)
(* strings.  Key lengths are constants so that a model can shrink them.   *)
(***************************************************************************)
EXTENDS Naturals, Sequences, SequencesExt, Bitwise

CONSTANTS
    KEY_LENGTH,             \* ACCOUNT_KEY_LENGTH, in bytes
    VIEW_KEY_LENGTH,
    PUBLIC_ADDRESS_LENGTH,
    HEAD_VALUE_SIZE,        \* NullableHeadValueEncoding.nonNullSize
    Null, Undefined, Throw, \* JS null, undefined, and a thrown error
    AccountValues           \* the records the wallet stores

VARIABLE value  \* the record being written to the wallet database

VERSION_LENGTH == 2

(***************************************************************************)
(* The two record types over given domains for their fields.  A field    *)
(* typed "| null" also takes Null, an optional field also takes          *)
(* Undefined.                                                             *)
(***************************************************************************)
EncryptedAccountValue(Versions, Strings, Salts, Nonces, Datas) ==
    [encrypted : {TRUE}, version : Versions, id : Strings,
     salt : Salts, nonce : Nonces, data : Datas]

DecryptedAccountValue(Versions, Strings, Keys, ViewKeys, HalfKeys, Addrs, Heads, Msigs) ==
    [encrypted : {FALSE}, version : Versions, id : Strings, name : Strings,
     spendingKey : Keys \cup {Null}, viewKey : ViewKeys,
     incomingViewKey : HalfKeys, outgoingViewKey : HalfKeys,
     publicAddress : Addrs, createdAt : Heads \cup {Null},
     scanningEnabled : BOOLEAN, multisigKeys : Msigs \cup {Undefined},
     proofAuthorizingKey : Keys \cup {Null}]

-----------------------------------------------------------------------------
(* bufio *)

ByteAt(buf, i) == IF i \in 1..Len(buf) THEN buf[i] ELSE 0

\* readBytes(n) at offset off; reads past the end are caught by the
\* final bounds check of the reader.
BytesAt(buf, off, n) == [i \in 1..n |-> ByteAt(buf, off + i - 1)]

WriteU(n, w) ==
    LET Shifted[i \in 1..w] == IF i = 1 THEN n ELSE Shifted[i - 1] \div 256
    IN [i \in 1..w |-> Shifted[i] % 256]

\* readU16/readU32/readU64, exact below 2^16.  Every buffer here is far
\* shorter than 2^16 bytes, so a larger value, used as a length, reads
\* past the end like any value above the buffer's length; 65536 stands
\* for all of them.
ReadU(buf, off, w) ==
    IF \E i \in 3..w : ByteAt(buf, off + i - 1) # 0 THEN 65536
    ELSE ByteAt(buf, off) + 256 * (IF w >= 2 THEN ByteAt(buf, off + 1) ELSE 0)

\* JS strings are shorter than 2^32 bytes, so the 8-byte form never occurs.
VarintWidth(n) ==
    IF n < 253 THEN 0 ELSE IF n < 65536 THEN 2 ELSE 4

SizeVarint(n) == 1 + VarintWidth(n)

WriteVarint(n) ==
    IF n < 253 THEN <<n>>
    ELSE <<IF VarintWidth(n) = 2 THEN 253 ELSE 254>> \o WriteU(n, VarintWidth(n))

\* readVarint: [value, next offset].
ReadVarint(buf, off) ==
    LET b == ByteAt(buf, off)
        w == CASE b < 253 -> 0 [] b = 253 -> 2 [] b = 254 -> 4 [] OTHER -> 8
    IN IF w = 0 THEN [value |-> b, next |-> off + 1]
       ELSE [value |-> ReadU(buf, off + 1, w), next |-> off + 1 + w]

\* Buffer's UTF-8 encoder; a lone surrogate is written as U+FFFD.
Utf8Char(cp) ==
    CASE cp < 128 -> <<cp>>
      [] cp < 2048 -> <<192 + cp \div 64, 128 + (cp % 64)>>
      [] cp \in 55296..57343 -> <<239, 191, 189>>
      [] cp < 65536 -> <<224 + cp \div 4096, 128 + ((cp \div 64) % 64), 128 + (cp % 64)>>
      [] OTHER -> <<240 + cp \div 262144, 128 + ((cp \div 4096) % 64),
                    128 + ((cp \div 64) % 64), 128 + (cp % 64)>>

Utf8(s) == FlattenSeq([i \in 1..Len(s) |-> Utf8Char(s[i])])

\* Length of the UTF-8 sequence a lead byte starts; 0 for a stray
\* continuation byte, which decodes to U+FFFD.
Utf8Width(lead) ==
    CASE lead < 128 -> 1 [] lead < 192 -> 0 [] lead < 224 -> 2
      [] lead < 240 -> 3 [] OTHER -> 4

Utf8Value(b) ==
    CASE Len(b) = 1 -> b[1]
      [] Len(b) = 2 -> (b[1] % 32) * 64 + (b[2] % 64)
      [] Len(b) = 3 -> (b[1] % 16) * 4096 + (b[2] % 64) * 64 + (b[3] % 64)
      [] OTHER -> (b[1] % 8) * 262144 + (b[2] % 64) * 4096
                  + (b[3] % 64) * 64 + (b[4] % 64)

RECURSIVE DecodeUtf8(_)
DecodeUtf8(b) ==
    IF b = <<>> THEN <<>>
    ELSE LET w == Utf8Width(b[1]) IN
         IF w = 0 \/ w > Len(b)
         THEN <<65533>> \o DecodeUtf8(Tail(b))
         ELSE <<Utf8Value(SubSeq(b, 1, w))>> \o DecodeUtf8(SubSeq(b, w + 1, Len(b)))

SizeVarString(s) == SizeVarint(Len(Utf8(s))) + Len(Utf8(s))

WriteVarString(s) == WriteVarint(Len(Utf8(s))) \o Utf8(s)

ReadVarString(buf, off) ==
    LET n == ReadVarint(buf, off) IN
    [value |-> DecodeUtf8(BytesAt(buf, n.next, n.value)),
     next |-> n.next + n.value]

\* Buffer.from(hex, 'hex') and buffer.toString('hex'), lowercase digits.
HexDigits == <<"0", "1", "2", "3", "4", "5", "6", "7", "8", "9",
               "a", "b", "c", "d", "e", "f">>

HexValue(c) == CHOOSE i \in 0..15 : HexDigits[i + 1] = c

HexToBytes(h) ==
    [i \in 1..(Len(h) \div 2) |-> 16 * HexValue(h[2 * i - 1]) + HexValue(h[2 * i])]

BytesToHex(b) ==
    FlattenSeq([i \in 1..Len(b) |-> <<HexDigits[b[i] \div 16 + 1],
                                      HexDigits[(b[i] % 16) + 1]>>])

ReadHex(buf, off, n) == [value |-> BytesToHex(BytesAt(buf, off, n)), next |-> off + n]

-----------------------------------------------------------------------------
(* The encodings accountValue.ts delegates to (headValue.ts,              *)
(* multisigKeys.ts): createdAt is a head sequence number written in       *)
(* nonNullSize bytes; multisigKeys is a record whose encoding is its      *)
(* secret's bytes.                                                        *)

HeadValueBytes(h) == WriteU(h.sequence, HEAD_VALUE_SIZE)
HeadValueOf(b) == [sequence |-> ReadU(b, 1, HEAD_VALUE_SIZE)]

MultisigSize(m) == Len(m.secret) \div 2
MultisigBytes(m) == HexToBytes(m.secret)
MultisigOf(b) == [secret |-> BytesToHex(b)]

-----------------------------------------------------------------------------
(* accountValue.ts *)

\* !!x for the optional fields: null, undefined and "" are falsy.
Truthy(x) == x \notin {Null, Undefined} /\ x # <<>>

Flag(b, i) == IF b THEN 2^i ELSE 0

\* Mutant: the proofAuthorizingKey flag shifted one bit too far.
DecryptedFlagsPakBit4(v) ==
    Flag(Truthy(v.spendingKey), 0) | Flag(Truthy(v.createdAt), 1)
    | Flag(Truthy(v.multisigKeys), 2) | Flag(Truthy(v.proofAuthorizingKey), 4)
    | Flag(v.scanningEnabled, 4) | Flag(v.encrypted, 5)

DecryptedFlags(v) ==
    Flag(Truthy(v.spendingKey), 0) | Flag(Truthy(v.createdAt), 1)
    | Flag(Truthy(v.multisigKeys), 2) | Flag(Truthy(v.proofAuthorizingKey), 3)
    | Flag(v.scanningEnabled, 4) | Flag(v.encrypted, 5)

IfTruthy(x, bytes) == IF Truthy(x) THEN bytes ELSE <<>>

\* The bytes serializeEncrypted writes, in order.
EncryptedBytes(v) ==
    <<Flag(v.encrypted, 5)>> \o WriteU(v.version, 2) \o WriteVarString(v.id)
    \o WriteVarString(v.salt) \o WriteVarString(v.nonce) \o WriteVarString(v.data)

\* The bytes serializeDecrypted writes, in order.
DecryptedBytes(v) ==
    <<DecryptedFlags(v)>> \o WriteU(v.version, 2)
    \o WriteVarString(v.id) \o WriteVarString(v.name)
    \o IfTruthy(v.spendingKey, HexToBytes(v.spendingKey))
    \o HexToBytes(v.viewKey) \o HexToBytes(v.incomingViewKey)
    \o HexToBytes(v.outgoingViewKey) \o HexToBytes(v.publicAddress)
    \o IfTruthy(v.createdAt, HeadValueBytes(v.createdAt))
    \o IfTruthy(v.multisigKeys, WriteU(MultisigSize(v.multisigKeys), 8)
                                \o MultisigBytes(v.multisigKeys))
    \o IfTruthy(v.proofAuthorizingKey, HexToBytes(v.proofAuthorizingKey))

getSizeEncrypted(v) ==
    1 + VERSION_LENGTH + SizeVarString(v.id) + SizeVarString(v.salt)
      + SizeVarString(v.nonce) + SizeVarString(v.data)

\* Mutant: the 8-byte length prefix of multisigKeys is not counted.
getSizeDecryptedNoPrefix(v) ==
    1 + VERSION_LENGTH + SizeVarString(v.id) + SizeVarString(v.name)
      + (IF Truthy(v.spendingKey) THEN KEY_LENGTH ELSE 0)
      + VIEW_KEY_LENGTH + KEY_LENGTH + KEY_LENGTH + PUBLIC_ADDRESS_LENGTH
      + (IF Truthy(v.createdAt) THEN HEAD_VALUE_SIZE ELSE 0)
      + (IF Truthy(v.multisigKeys) THEN MultisigSize(v.multisigKeys) ELSE 0)
      + (IF Truthy(v.proofAuthorizingKey) THEN KEY_LENGTH ELSE 0)

getSizeDecrypted(v) ==
    1 + VERSION_LENGTH + SizeVarString(v.id) + SizeVarString(v.name)
      + (IF Truthy(v.spendingKey) THEN KEY_LENGTH ELSE 0)
      + VIEW_KEY_LENGTH + KEY_LENGTH + KEY_LENGTH + PUBLIC_ADDRESS_LENGTH
      + (IF Truthy(v.createdAt) THEN HEAD_VALUE_SIZE ELSE 0)
      + (IF Truthy(v.multisigKeys) THEN 8 + MultisigSize(v.multisigKeys) ELSE 0)
      + (IF Truthy(v.proofAuthorizingKey) THEN KEY_LENGTH ELSE 0)

getSize(v) == IF v.encrypted THEN getSizeEncrypted(v) ELSE getSizeDecrypted(v)

\* bufio.write(getSize(value)) is a static writer: the bytes must fill it
\* exactly, or writing or render() throws.
serialize(v) ==
    LET bytes == IF v.encrypted THEN EncryptedBytes(v) ELSE DecryptedBytes(v)
    IN IF Len(bytes) = getSize(v) THEN bytes ELSE Throw

deserializeEncrypted(buf) ==
    LET id == ReadVarString(buf, 4)
        salt == ReadVarString(buf, id.next)
        nonce == ReadVarString(buf, salt.next)
        data == ReadVarString(buf, nonce.next)
    IN IF data.next - 1 > Len(buf) THEN Throw
       ELSE [encrypted |-> TRUE, version |-> ReadU(buf, 2, 2), id |-> id.value,
             salt |-> salt.value, nonce |-> nonce.value, data |-> data.value]

\* The reads of deserializeDecrypted, each at the offset the previous one
\* left; bufio throws on a read past the end, which the final offset shows
\* because offsets only grow.
deserializeDecrypted(buf, flags) ==
    LET Has(i) == (flags & 2^i) # 0
        id == ReadVarString(buf, 4)
        name == ReadVarString(buf, id.next)
        sk == IF Has(0) THEN ReadHex(buf, name.next, KEY_LENGTH)
              ELSE [value |-> Null, next |-> name.next]
        vk == ReadHex(buf, sk.next, VIEW_KEY_LENGTH)
        ivk == ReadHex(buf, vk.next, KEY_LENGTH)
        ovk == ReadHex(buf, ivk.next, KEY_LENGTH)
        pa == ReadHex(buf, ovk.next, PUBLIC_ADDRESS_LENGTH)
        ca == IF Has(1)
              THEN [value |-> HeadValueOf(BytesAt(buf, pa.next, HEAD_VALUE_SIZE)),
                    next |-> pa.next + HEAD_VALUE_SIZE]
              ELSE [value |-> Null, next |-> pa.next]
        msLen == ReadU(buf, ca.next, 8)
        ms == IF Has(2)
              THEN [value |-> MultisigOf(BytesAt(buf, ca.next + 8, msLen)),
                    next |-> ca.next + 8 + msLen]
              ELSE [value |-> Undefined, next |-> ca.next]
        pak == IF Has(3) THEN ReadHex(buf, ms.next, KEY_LENGTH)
               ELSE [value |-> Null, next |-> ms.next]
    IN IF pak.next - 1 > Len(buf) THEN Throw
       ELSE [encrypted |-> FALSE, version |-> ReadU(buf, 2, 2),
             id |-> id.value, name |-> name.value, viewKey |-> vk.value,
             incomingViewKey |-> ivk.value, outgoingViewKey |-> ovk.value,
             spendingKey |-> sk.value, publicAddress |-> pa.value,
             createdAt |-> ca.value, scanningEnabled |-> Has(4),
             multisigKeys |-> ms.value, proofAuthorizingKey |-> pak.value]

\* bufio.read(buffer, true): an empty buffer throws at readU8.
deserialize(buf) ==
    IF buf = <<>> THEN Throw
    ELSE IF (buf[1] & 32) # 0 THEN deserializeEncrypted(buf)
    ELSE deserializeDecrypted(buf, buf[1])
-----------------------------------------------------------------------------
\* The wallet stores any one of the records; nothing else changes.
Init == value \in AccountValues

Next == UNCHANGED value

Spec == Init /\ [][Next]_value

(***************************************************************************)
(* serialize never throws on a record the wallet stores: the bytes        *)
(* serializeEncrypted/serializeDecrypted write are exactly the getSize    *)
(* bytes the static writer was allocated, for every combination of the   *)
(* optional fields.                                                        *)
(***************************************************************************)
SerializeFits == serialize(value) # Throw

(***************************************************************************)
(* deserialize(serialize(v)) = v (accountValue.test.ts): the flags byte  *)
(* says which optional fields follow, and the reader finds each field at *)
(* the offset the writer put it.                                          *)
(***************************************************************************)
RoundTrip ==
    serialize(value) # Throw => deserialize(serialize(value)) = value
=============================================================================
