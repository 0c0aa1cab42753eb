------------------------------ MODULE KeyStore ------------------------------
(***************************************************************************)
(* The identity of a user across starts of the client: the key store file  *)
(* of keystore.rs and load_or_create_client_keypair of the client's        *)
(* main.rs.  Several clients may be started at once, and each may crash at *)
(* any step.                                                               *)
(*                                                                         *)
(* fs::write is two steps, the truncation of the file and the writing of   *)
(* its contents.  Contents are what can be told of them: which key they    *)
(* hold and which passphrase opens them.  Argon2 and AES-GCM are external: *)
(* the contents open under the passphrase they were saved with and under   *)
(* no other.                                                               *)
(***************************************************************************)
EXTENDS Naturals

CONSTANTS
    Passphrase,     \* passphrases given by argument or environment
    NostrKey,       \* valid nostr keys given by argument or environment
    Invalid,        \* a nostr key that does not parse
    None,
    Absent, Torn,   \* a file that does not exist, or holds no key store
    MaxStarts       \* bound: starts of the client in a behaviour

Run == 1 .. MaxStarts

VARIABLES
    file,       \* keystore.json
    client,     \* the client's runs
    kept,       \* history: contents of the last save, None while it is redone
    cut,        \* history: that save was cut short or met another one
    owed        \* history: the key a run has to come back with, or None

keyVars == <<file, client, kept, cut, owed>>

\* Generated keys and passphrases are different in every run.
Generated(r) == <<"ed25519", r>>
Random(r) == <<"random", r>>
Nostr(n) == <<"secp256k1", n>>

Key == {Generated(r) : r \in Run} \cup {Nostr(n) : n \in NostrKey}
Secret == Passphrase \cup {Random(r) : r \in Run}
Contents == [key : Key, pass : Secret]

ASSUME KeyStoreAssumption ==
    /\ MaxStarts \in Nat
    /\ Invalid \notin NostrKey /\ None \notin NostrKey
    /\ None \notin Key /\ None \notin Secret
    /\ Absent \notin Contents /\ Torn \notin Contents /\ None \notin Contents
    /\ Absent # Torn

\* key_type is spelled out in the file, all other fields have one length.
Longer(c, d) == c.key[1] = "secp256k1" /\ d.key[1] = "ed25519"

KeyStoreInit ==
    /\ file = Absent
    /\ client = [r \in Run |-> [at |-> "new", key |-> None, pass |-> None, found |-> Absent]]
    /\ kept = None /\ cut = FALSE
    /\ owed = [r \in Run |-> None]

Step(r, from, to) ==
    /\ client[r].at = from
    /\ client' = [client EXCEPT ![r].at = to]

StepAs(r, from, to, key) ==
    /\ client[r].at = from
    /\ client' = [client EXCEPT ![r].at = to, ![r].key = key]

\* The runs whose save has truncated the file and not written it yet.
Writing == {r \in Run : client[r].at = "write"}

-----------------------------------------------------------------------------
\* load_or_create_client_keypair.

\* A nostr key comes first, then the anonymous mode; without a passphrase a
\* random one is used.
Start(r, nostr, anonymous, pass) ==
    LET p == IF pass = None THEN Random(r) ELSE pass
        k == CASE nostr \in NostrKey -> Nostr(nostr)
               [] nostr \notin NostrKey /\ anonymous -> Generated(r)
               [] OTHER -> None
    IN  /\ client[r].at = "new"
        /\ \A q \in 1 .. r - 1 : client[q].at # "new"
        /\ client' = [client EXCEPT ![r] =
                        [at    |-> CASE nostr \in NostrKey -> "save"
                                     [] nostr \notin NostrKey /\ anonymous -> "running"
                                     [] OTHER -> "exists",
                         key   |-> k, pass |-> p, found |-> file]]
        /\ owed' = [owed EXCEPT ![r] =
                      IF k = None /\ ~cut /\ kept # None /\ kept.pass = p
                        THEN kept.key ELSE None]
        /\ UNCHANGED <<file, kept, cut>>

\* Mutant: the key store is replaced when it cannot be opened.
LoadOrReplace(r) ==
    /\ IF file \in Contents /\ file.pass = client[r].pass
         THEN StepAs(r, "load", "running", file.key)
         ELSE StepAs(r, "load", "save", Generated(r))
    /\ UNCHANGED <<file, kept, cut, owed>>

\* keystore_path.exists()
Exists(r) ==
    /\ IF file = Absent THEN StepAs(r, "exists", "save", Generated(r))
                        ELSE Step(r, "exists", "load")
    /\ UNCHANGED <<file, kept, cut, owed>>

\* Mutant: every key store is taken for one of an Ed25519 key, and the address
\* of a nostr key does not match.
LoadEd25519(r) ==
    /\ StepAs(r, "load", "running",
              IF file \in Contents /\ file.pass = client[r].pass /\ file.key[1] = "ed25519"
                THEN file.key ELSE Generated(r))
    /\ UNCHANGED <<file, kept, cut, owed>>

\* A key store that cannot be read or opened is left as it is, and the run
\* has a temporary key.
Load(r) ==
    /\ StepAs(r, "load", "running",
              IF file \in Contents /\ file.pass = client[r].pass
                THEN file.key ELSE Generated(r))
    /\ UNCHANGED <<file, kept, cut, owed>>

-----------------------------------------------------------------------------
\* save_encrypted_keystore.

\* The directory, the encryption or the opening of the file fails: the client
\* warns and runs with its key all the same.
SaveFails(r) ==
    /\ Step(r, "save", "running")
    /\ UNCHANGED <<file, kept, cut, owed>>

\* Mutant: the file is opened without being truncated.
OpenOnly(r) ==
    /\ Step(r, "save", "write")
    /\ file' = IF file = Absent THEN Torn ELSE file
    /\ kept' = None
    /\ cut' = (Writing # {})
    /\ owed' = [q \in Run |-> None]

\* fs::write, the opening.  While a save is under way nothing is promised.
Truncate(r) ==
    /\ Step(r, "save", "write")
    /\ file' = Torn
    /\ kept' = None
    /\ cut' = (Writing # {})
    /\ owed' = [q \in Run |-> None]

\* fs::write, the writing: from the start of the file, over what another run
\* may have written since this one truncated it.
Write(r) ==
    LET new == [key |-> client[r].key, pass |-> client[r].pass]
    IN  /\ Step(r, "write", "running")
        /\ file' = IF file \in Contents /\ Longer(file, new) THEN Torn ELSE new
        /\ kept' = IF cut THEN None ELSE new
        /\ UNCHANGED <<cut, owed>>

\* The disk is full: part of the contents is written.
WriteFails(r) ==
    /\ Step(r, "write", "running")
    /\ file' = Torn
    /\ cut' = TRUE
    /\ UNCHANGED <<kept, owed>>

\* The client ends or is killed, possibly in the middle of the writing.
End(r) ==
    /\ client[r].at \notin {"new", "gone"}
    /\ client' = [client EXCEPT ![r].at = "gone"]
    /\ file' \in (IF r \in Writing THEN {file, Torn} ELSE {file})
    /\ cut' = (cut \/ r \in Writing)
    /\ UNCHANGED <<kept, owed>>

KeyStoreNext ==
    \E r \in Run :
        \/ \E nostr \in NostrKey \cup {Invalid, None}, anonymous \in BOOLEAN,
              pass \in Passphrase \cup {None} : Start(r, nostr, anonymous, pass)
        \/ Exists(r) \/ Load(r)
        \/ SaveFails(r) \/ Truncate(r) \/ Write(r) \/ WriteFails(r)
        \/ End(r)

KeyStoreSpec == KeyStoreInit /\ [][KeyStoreNext]_keyVars

-----------------------------------------------------------------------------
\* A save that was neither cut short nor met by another one has left its key
\* in the file, and there is no other way for a file to hold no key store:
\* nothing but the truncation in fs::write ever empties it.
SavedIsThere ==
    /\ file \in Contents \cup {Absent, Torn}
    /\ kept # None /\ ~cut => file = kept
    /\ file = Torn => cut \/ Writing # {}

\* A run that was started when the file held a key, and was given no valid
\* nostr key, never changes the file, be the passphrase wrong or the file torn
\* in between.
OnlyNostrReplaces ==
    [][\A r \in Run :
          client'[r] # client[r] /\ client[r].found \in Contents /\ file' # file
             => client[r].key \in {Nostr(n) : n \in NostrKey}]_keyVars

\* A user who starts the client with the passphrase of a completed save comes
\* back under the address of that save, unless the file is written meanwhile.
ComesBack ==
    \A r \in Run :
        client[r].at = "running" /\ owed[r] # None => client[r].key = owed[r]

=============================================================================
