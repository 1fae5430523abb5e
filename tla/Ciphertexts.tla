---------------------------- MODULE Ciphertexts ----------------------------
(***************************************************************************)
(* What rotate-identity can tell of the bytes in an .age file: the key     *)
(* they are encrypted to, the name their aged-v1 envelope binds them to    *)
(* (Unbound for a plaintext from before the envelope existed), and the     *)
(* value inside.  A directory is a function from names to such files.      *)
(***************************************************************************)

CONSTANTS
    Names,      \* secret names that occur as paths below the directory
    Invalid,    \* those that validName refuses: put there out of band
    Values,     \* plaintext values
    Keys,       \* X25519 identities
    Unbound,    \* the envelope of a plaintext that has none
    Garbage,    \* a file whose bytes decrypt with no key
    NoFile      \* no file at a name

ASSUME CiphertextConstants ==
    /\ Invalid \subseteq Names
    /\ Unbound \notin Names

ASSUME MarkersAreNoCiphertexts ==
    LET C == [key : Keys, bound : Names \cup {Unbound}, value : Values]
    IN  Garbage \notin C /\ NoFile \notin C /\ Garbage # NoFile

-----------------------------------------------------------------------------

Ciphertexts == [key : Keys, bound : Names \cup {Unbound}, value : Values]

Contents == [Names -> Ciphertexts \cup {Garbage, NoFile}]

EmptyDir == [n \in Names |-> NoFile]

Listed(dir) == { n \in Names : dir[n] # NoFile }

\* decryptCiphertext with every identity of the file in turn.
Decrypts(c, ids) == c \in Ciphertexts /\ c.key \in ids

\* Variant with a bug: the name derived from the path is not validated.
MigratesAnyName(n, c, ids) == Decrypts(c, ids) /\ c.bound \in {n, Unbound}

\* migrateOneSecret returns a plaintext, not an error.
Migrates(n, c, ids) ==
    /\ n \notin Invalid
    /\ Decrypts(c, ids)
    /\ c.bound \in {n, Unbound}

\* Variant with a bug: the plaintext itself is staged.
PlainText(n, c, new) == c.value

\* Encrypted to the new identity in the envelope of its own name.
Rotated(n, c, new) == [key |-> new, bound |-> n, value |-> c.value]

=============================================================================
