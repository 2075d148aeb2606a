------------------------------- MODULE Wallet -------------------------------
(***************************************************************************)
(* The wallet in the browser, as src/src/live/wallet.ts takes its word.    *)
(* What it says its address is need not be one: Bech32m text of a few      *)
(* words, "mn", the kind and the network, whose checksum shows a spelling  *)
(* mistake.                                                                *)
(***************************************************************************)
EXTENDS Integers, Sequences

\* An address as text: the words before its data, how many bytes the data is, and
\* whether the checksum agrees.
Addresses(networks) ==
    LET words == {<<"mn">>, <<"mn", "addr">>, <<"btc", "addr">>}
                 \cup {<<"mn", kind, n>> : kind \in {"addr", "shield-addr"}, n \in networks}
    IN [words : words, bytes : {32, 64}, sound : BOOLEAN]

\* What a wallet that agrees to connect says of itself.
Replies(networks) == [config : networks, address : Addresses(networks)]

\* Refused: text that is misspelled, or no Midnight address.
decodes(a) == a.sound /\ Len(a.words) >= 2 /\ a.words[1] = "mn"

\* The kind and the network of an address; one that names no network is a mainnet one.
decodeAddress(a) ==
    [kind |-> a.words[2], network |-> IF Len(a.words) = 2 THEN "mainnet" ELSE a.words[3],
     bytes |-> a.bytes]

\* The wallet counts as connected if all of it is on the network asked for.
connect(network, reply) ==
    /\ reply.config = network
    /\ decodes(reply.address)
    /\ decodeAddress(reply.address) = [kind |-> "addr", network |-> network, bytes |-> 32]
==============================================================================
