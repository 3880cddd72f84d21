--------------------------- MODULE CryptoContext ---------------------------
(***************************************************************************)
(* Crypto_context: the key pair of one endpoint, the key agreement with    *)
(* its peer and what encrypt_data and decrypt_data need.  A context is a   *)
(* record; every operation is an operator that gives the set of its        *)
(* outcomes, since each call of OpenSSL may fail.  Key pairs are numbers,  *)
(* ordered as std::lexicographical_compare orders the public keys.         *)
(***************************************************************************)
EXTENDS Naturals

NoPair == 0                             \* no key pair yet
NoKey == [secret |-> {}, salt |-> << >>]   \* no key yet; the key of a packet in the clear

\* The members: the key pair in key_handle_, the two public keys, encryption_key_
\* and is_ready_.
NewContext == [handle |-> NoPair, own |-> NoPair, peer |-> NoPair, key |-> NoKey, ready |-> FALSE]

Outcome(context, ok) == [context |-> context, ok |-> ok]

\* init() replaces the key pair and then its copy of the public key; encryption_key_
\* and is_ready_ stay as they are.
init(c, pair) ==
    { Outcome([c EXCEPT !.handle = pair, !.own = pair], TRUE),
      Outcome([c EXCEPT !.handle = pair], FALSE),
      Outcome(c, FALSE) }

\* Mutant of Salt: each side puts its own public key first.
Salt_OwnFirst(own, peer) == <<own, peer>>

\* The two public keys, the smaller one first.
Salt(own, peer) == IF own < peer THEN <<own, peer>> ELSE <<peer, own>>

\* X25519 gives the owner of one key pair and the public key of the other the secret
\* of the two pairs; HKDF makes the key of it and of the salt.
Derive(handle, own, peer) == [secret |-> {handle, peer}, salt |-> Salt(own, peer)]

\* The peer's key is stored first; after any failure the rest is as it was.
set_peer_public_key(c, peer) ==
    { Outcome([c EXCEPT !.peer = peer, !.key = Derive(c.handle, c.own, peer), !.ready = TRUE],
              TRUE),
      Outcome([c EXCEPT !.peer = peer], FALSE) }

\* encrypt_data gives a packet the key that seals it, or fails.
CanEncrypt(c) == c.ready

\* ChaCha20-Poly1305: only the key that sealed a packet opens it.
CanDecrypt(c, key) == c.ready /\ key = c.key
=============================================================================
