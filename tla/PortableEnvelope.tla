-------------------------- MODULE PortableEnvelope --------------------------
(***************************************************************************)
(* The envelope of a page (src/shared/envelope-portable.ts), written again *)
(* with another library: raw keys cut out of their headers instead of key  *)
(* objects, one buffer of ciphertext and tag instead of two.  What a page  *)
(* seals the server must open, and the other way round (PrivateExchange),  *)
(* so both sides have to agree on the identifier of the key, on what is    *)
(* authenticated beside the value, and on what the shared secret is for.   *)
(* A key pair is one name, and so is its header.                           *)
(***************************************************************************)

\* aad: what else it lists is fixed by the invoice.
PortableAad(invoice, header) == [invoice |-> invoice, client |-> header]

\* deriveKey: X25519 of either end gives the same secret.
PortableKey(privateRaw, publicRaw, info) ==
  [ends |-> {privateRaw, publicRaw}, info |-> info]

PortableSeal(value, aad, privateRaw, publicRaw, server, info) ==
  [keyId |-> server, secret |-> PortableKey(privateRaw, publicRaw, info),
   ctx |-> aad, value |-> value]

\* open fails if it is sealed for another server key, with another key of the
\* cipher, or beside other data.
PortableOpens(sealed, aad, privateRaw, publicRaw, server, info) ==
  /\ sealed.keyId = server
  /\ sealed.secret = PortableKey(privateRaw, publicRaw, info)
  /\ sealed.ctx = aad

\* openPaymentTerms: with the key the page was built with.
PortableOpensTerms(sealed, invoice, client, server) ==
  PortableOpens(sealed, PortableAad(invoice, client), client, server, server, "terms")

\* sealReceipt: with a key pair made for this receipt, whose header goes along.
PortableSealReceipt(receipt, ephemeral, server) ==
  [client |-> ephemeral,
   body   |-> PortableSeal(receipt, PortableAad(receipt, ephemeral),
                           ephemeral, server, server, "receipt")]
=============================================================================
