----------------------- MODULE MCAccountValueEncoding -----------------------
(***************************************************************************)
(* Account records over short keys: a key is one byte, a view key two,   *)
(* so the reader's offsets differ field by field.  Strings cover the     *)
(* empty string, a one-byte and a two-byte UTF-8 character; versions a    *)
(* one-byte value and one whose two bytes differ.                         *)
(***************************************************************************)
EXTENDS AccountValueEncoding

MCStrings == {<<>>, <<105>>, <<233>>}
MCVersions == {1, 258}

MCDecrypted ==
    DecryptedAccountValue(MCVersions, MCStrings, {<<"0", "f">>, <<"f", "0">>},
                          {<<"a", "0", "0", "b">>}, {<<"1", "1">>, <<"2", "2">>},
                          {<<"3", "3">>}, {[sequence |-> 5]},
                          {[secret |-> <<"d", "e", "a", "f">>]})

MCEncrypted ==
    EncryptedAccountValue(MCVersions, MCStrings, {<<>>, <<115>>}, {<<110>>},
                          {<<>>, <<100, 233>>})

MCAccountValues == MCDecrypted \cup MCEncrypted
=============================================================================
