---------------------------- MODULE EventDecoder ----------------------------
(***************************************************************************)
(* IronfishEvm.decodeLogs and getAssetId (evm/evm.ts).                    *)
(*                                                                         *)
(* A log is [address, topic, data].  The topic is the event selector the  *)
(* emitting contract used; decodeLogs never reads it, nor the address.    *)
(* The data is the ABI encoding of the event's non-indexed arguments, a   *)
(* sequence of 32-byte words; a word is abstracted to a small natural.    *)
(* A word holding a byte offset or a byte length is measured in words.    *)
(* ethers' decodeEventLog(fragment, data) with no topics decodes the data *)
(* against the fragment's parameter list and throws when an address word  *)
(* does not fit in 160 bits or a dynamic 'bytes' reads past the end.      *)
(* Trailing words are ignored (the coder reads loosely).                  *)
(*                                                                         *)
(* The receipt being decoded is built by contracts emitting logs; the     *)
(* ghost 'intents' records which event each emitter meant.               *)
(***************************************************************************)
EXTENDS Naturals, Sequences, SequencesExt

CONSTANTS
    GLOBAL_CONTRACT_ADDRESS,  \* the reserved contract, as an address word
    Emitters,        \* contract addresses that emit logs
    Callers,         \* msg.sender values a Shield/UnShield can carry
    TokenIds,
    Amounts,
    IronfishAddrs,   \* one-word 'bytes' contents of a shield's recipient
    OtherData,       \* data of unrelated events (e.g. ERC-20 Transfer)
    AddrMax,         \* words above AddrMax do not fit in 160 bits
    MaxLogs          \* bound on the logs of one receipt

ASSUME GLOBAL_CONTRACT_ADDRESS \in Emitters
ASSUME Callers \subseteq 0..AddrMax

VARIABLES
    logs,     \* the receipt's logs, in emission order
    intents   \* (ghost) per log, the domain event it was emitted as, or <<>>

vars == <<logs, intents>>

Topics == {"Shield", "UnShield", "Other"}

-----------------------------------------------------------------------------
(***************************************************************************)
(* ABI decoding, by what it does to the words.                            *)
(***************************************************************************)
\* ethers' AddressCoder: toBeHex(value, 20) throws above 160 bits.
FitsAddress(w) == w <= AddrMax

\* BytesCoder at head word i: the offset word points at a length word,
\* and the contents must lie inside the data.
BytesDecodes(d, i) ==
    /\ d[i] + 1 <= Len(d)
    /\ d[i] + 1 + d[d[i] + 1] <= Len(d)

BytesAt(d, i) == SubSeq(d, d[i] + 2, d[i] + 1 + d[d[i] + 1])

\* Shield(bytes ironfishAddress, uint256 tokenId, address caller,
\*        uint256 amount): four head words, then the bytes' tail.
ShieldDecodes(d) ==
    /\ Len(d) >= 4
    /\ BytesDecodes(d, 1)
    /\ FitsAddress(d[3])

\* UnShield(address caller, uint256 tokenId, uint256 amount).
UnShieldDecodes(d) ==
    /\ Len(d) >= 3
    /\ FitsAddress(d[1])

-----------------------------------------------------------------------------
(***************************************************************************)
(* getAssetId(caller, tokenId): the reserved address names the native     *)
(* asset; any other caller names the asset whose name is                  *)
(* lowercase(caller) + "_" + tokenId, created by GLOBAL_IF_ACCOUNT with   *)
(* empty metadata.  An address renders as 40 hex digits and contains no  *)
(* "_", so the pair <<caller, tokenId>> stands for the name.  The asset   *)
(* id derivation is a collision-free digest of creator, name and          *)
(* metadata, represented by the triple itself.                            *)
(***************************************************************************)
NativeId == <<"nativeId">>

getAssetId(caller, tokenId) ==
    IF caller = GLOBAL_CONTRACT_ADDRESS
    THEN NativeId
    ELSE <<"GLOBAL_IF_ACCOUNT", <<caller, tokenId>>, <<>>>>

\* The events decodeLogs pushes.
ShieldEvent(ia, tokenId, caller, amount) ==
    [name |-> "shield", ironfishAddress |-> ia, caller |-> caller,
     assetId |-> getAssetId(caller, tokenId), tokenId |-> tokenId,
     amount |-> amount]

UnShieldEvent(caller, tokenId, amount) ==
    [name |-> "unshield", assetId |-> getAssetId(caller, tokenId),
     amount |-> amount]

Events ==
    {ShieldEvent(ia, t, c, amt) :
        ia \in IronfishAddrs, t \in TokenIds, c \in Callers, amt \in Amounts}
    \cup {UnShieldEvent(c, t, amt) : c \in Callers, t \in TokenIds, amt \in Amounts}

TypeOK ==
    /\ logs \in Seq([address : Emitters, topic : Topics, data : Seq(Nat)])
    /\ intents \in Seq(Seq(Events))
    /\ Len(logs) = Len(intents)

Init == logs = <<>> /\ intents = <<>>

\* Mutant: try the UnShield shape before the Shield shape.
DecodeLogUnShieldFirst(log) ==
    LET d == log.data IN
    IF UnShieldDecodes(d) THEN <<UnShieldEvent(d[1], d[2], d[3])>>
    ELSE IF ShieldDecodes(d) THEN <<ShieldEvent(BytesAt(d, 1), d[2], d[3], d[4])>>
    ELSE <<>>

(***************************************************************************)
(* One iteration of decodeLogs' loop: try Shield, on a throw try          *)
(* UnShield, on a second throw skip the log.  Neither the log's address   *)
(* nor its topic is consulted.                                            *)
(***************************************************************************)
DecodeLog(log) ==
    LET d == log.data IN
    IF ShieldDecodes(d) THEN <<ShieldEvent(BytesAt(d, 1), d[2], d[3], d[4])>>
    ELSE IF UnShieldDecodes(d) THEN <<UnShieldEvent(d[1], d[2], d[3])>>
    ELSE <<>>

decodeLogs(ls) == FlattenSeq([i \in 1..Len(ls) |-> DecodeLog(ls[i])])

-----------------------------------------------------------------------------
(***************************************************************************)
(* Contracts executing in vm.runTx append logs to the receipt.  The       *)
(* reserved contract's Shield and UnShield carry their arguments in the   *)
(* standard ABI layout; other events carry data of their own.             *)
(***************************************************************************)
ShieldData(ia, tokenId, caller, amount) ==
    <<4, tokenId, caller, amount, Len(ia)>> \o ia

UnShieldData(caller, tokenId, amount) == <<caller, tokenId, amount>>

Emit(emitter, topic, data, intent) ==
    /\ Len(logs) < MaxLogs
    /\ logs' = Append(logs, [address |-> emitter, topic |-> topic,
                             data |-> data])
    /\ intents' = Append(intents, intent)

EmitShield(emitter, ia, tokenId, caller, amount) ==
    Emit(emitter, "Shield", ShieldData(ia, tokenId, caller, amount),
         <<ShieldEvent(ia, tokenId, caller, amount)>>)

EmitUnShield(emitter, caller, tokenId, amount) ==
    Emit(emitter, "UnShield", UnShieldData(caller, tokenId, amount),
         <<UnShieldEvent(caller, tokenId, amount)>>)

EmitOther(emitter, data) == Emit(emitter, "Other", data, <<>>)

Next ==
    \/ \E e \in Emitters, ia \in IronfishAddrs, t \in TokenIds,
          c \in Callers, amt \in Amounts :
          \/ EmitShield(e, ia, t, c, amt)
          \/ EmitUnShield(e, c, t, amt)
    \/ \E e \in Emitters, d \in OtherData : EmitOther(e, d)
    \/ (Len(logs) = MaxLogs /\ UNCHANGED vars)

Spec == Init /\ [][Next]_vars

-----------------------------------------------------------------------------
(***************************************************************************)
(* Round trip (spec property 8): decodeLogs on a receipt returns exactly  *)
(* the Shield and UnShield events its logs were emitted as, in order,     *)
(* with their fields and asset ids, and drops unrelated events.  Every    *)
(* Shield layout also fits the UnShield shape (its offset word is a small *)
(* number, hence a valid address), so this depends on the order of the   *)
(* two decode attempts in decodeLogs.                                     *)
(***************************************************************************)
DecodeRoundTrip ==
    decodeLogs(logs) = FlattenSeq(intents)

(***************************************************************************)
(* Authenticity (spec section 9): every event decodeLogs returns comes    *)
(* from a log the reserved contract emitted with that event's topic.      *)
(***************************************************************************)
EventsAuthentic ==
    \A i \in 1..Len(logs) :
        DecodeLog(logs[i]) # <<>> =>
            /\ logs[i].address = GLOBAL_CONTRACT_ADDRESS
            /\ logs[i].topic = IF DecodeLog(logs[i])[1].name = "shield"
                               THEN "Shield" ELSE "UnShield"
=============================================================================
