------------------------------ MODULE WasmKeys ------------------------------
(***************************************************************************)
(* The keys of a CosmWasm contract's storage, as the state explorer takes  *)
(* them apart for display and puts them together again for a subscription  *)
(* (useStateExplorer.ts). A key, and a text, is the sequence of its bytes; *)
(* the prefix of the contract, which is the same for all, is left out.     *)
(*                                                                         *)
(* An entry of a Map is a length in two bytes, a namespace and a map key;  *)
(* an Item is its name.                                                    *)
(***************************************************************************)
EXTENDS Integers, Sequences

CONSTANT None     \* null

Printable(bytes) ==
    /\ bytes # << >>
    /\ \A i \in DOMAIN bytes : bytes[i] \in 32..126

\* "0x", and two digits for each byte.
Digit(d) == IF d < 10 THEN 48 + d ELSE 87 + d

Hex(bytes) ==
    << 48, 120 >> \o
        [i \in 1..(2 * Len(bytes)) |->
            LET byte == bytes[(i + 1) \div 2]
            IN  Digit(IF i % 2 = 1 THEN byte \div 16 ELSE byte % 16)]

\* TextDecoder drops a byte order mark that the bytes begin with.
Marked(bytes) ==
    /\ 1..3 \subseteq DOMAIN bytes
    /\ bytes[1] = 239 /\ bytes[2] = 187 /\ bytes[3] = 191

Decoded(bytes) == IF Marked(bytes) THEN SubSeq(bytes, 4, Len(bytes)) ELSE bytes

\* What is shown for a part of a key: text that can be printed, or digits.
Shown(bytes) == IF Printable(Decoded(bytes)) THEN Decoded(bytes) ELSE Hex(bytes)

NamespaceLength(raw) == raw[1] * 256 + raw[2]

NamespaceOf(raw) == SubSeq(raw, 3, 2 + NamespaceLength(raw))

MapKeyOf(raw) == SubSeq(raw, 3 + NamespaceLength(raw), Len(raw))

\* parseWasmKeyParts finds the two parts.
IsMapEntry(raw) ==
    /\ Len(raw) >= 2
    /\ NamespaceLength(raw) > 0
    /\ NamespaceLength(raw) < Len(raw) - 2
    /\ Printable(Decoded(NamespaceOf(raw)))

parseWasmKeyParts(raw) ==
    IF IsMapEntry(raw)
    THEN [namespace |-> Decoded(NamespaceOf(raw)), mapKey |-> Shown(MapKeyOf(raw))]
    ELSE None

\* The length of the namespace is left out.
wasmStoreKeyForNsEntry_NoLength(namespace, mapKey) == namespace \o mapKey

\* The key of an entry, from the texts shown for it.
wasmStoreKeyForNsEntry(namespace, mapKey) ==
    << Len(namespace) \div 256, Len(namespace) % 256 >> \o namespace \o mapKey

=============================================================================
