------------------------------- MODULE KeyFiles -------------------------------
(***************************************************************************)
(* Signing-key files of the command line: `device keygen`, `protect`,      *)
(* `rewrap` and `unprotect`, the operating-system key store and the files  *)
(* they write (engine-cli: device.rs, keyfile.rs, keystore.rs,             *)
(* passphrase.rs, private_file.rs, signing.rs).                            *)
(*                                                                         *)
(* One command runs at a time, as a user types them.  It touches two       *)
(* stores that no transaction spans, the file system and the key store, so *)
(* each call on either is a step, each may be refused, and the process may *)
(* be killed between any two.  A kill is not a power loss: what was        *)
(* written stays.                                                          *)
(*                                                                         *)
(* Cryptography is by what it does: a sealed file opens with the secret it *)
(* was sealed with and with no other.  The three ways to hold that secret  *)
(* are a passphrase, which the user knows; a blob that only this account   *)
(* can open, carried in the file (DPAPI); and an entry of an external      *)
(* store, one per public key, where a new one replaces the old.            *)
(***************************************************************************)
EXTENDS Integers, FiniteSets

CONSTANTS
    Paths,         \* names of key files
    SigningKeys,   \* key pairs that can be generated
    MaxSecrets,    \* bound: wrapping secrets generated
    MaxSpills      \* bound: processes killed and refusals to forget

VARIABLES
    file,      \* the content of each path
    vault,     \* the external key store: a secret for a public key, 0 for none
    secrets,   \* wrapping secrets generated so far
    command,   \* the command that is running
    relied,    \* keys the user relies on: imported, or reported by a command
    spilt      \* how often a process was killed or a store refused to forget

keyVars == <<file, vault, secrets, command, relied, spilt>>

Stores == {"passphrase", "blob", "entry"}
ByPassphrase == 0

\* The content of a path: nothing, a file whose writing has not ended, a
\* PKCS#8 key in the clear, or a container.  wide: others can open it.
NoKeyFile == [kind |-> "none"]
Torn == [kind |-> "torn"]
ClearKey(k) == [kind |-> "plain", key |-> k, wide |-> FALSE]
Sealed(k, s, how) == [kind |-> "sealed", key |-> k, secret |-> s, store |-> how, wide |-> FALSE]

Whole(c) == c.kind \in {"plain", "sealed"}
is_container(c) == c.kind = "sealed"

NoCommand == [op |-> "none"]

\* A key file that others can open is refused, unless told otherwise.
check_key_file(c, allow) == c.wide => allow
read_key_file(c, allow) == Whole(c) /\ check_key_file(c, allow)

\* The secret that is found for a container: the user's passphrase, the one in
\* the file's blob, or the entry of its public key.
passphrase_unlock == ByPassphrase
dpapi_unprotect(c) == c.secret
keystore_load(k) == vault[k]
SecretFor(c) ==
    CASE c.store = "passphrase" -> passphrase_unlock
      [] c.store = "blob" -> dpapi_unprotect(c)
      [] c.store = "entry" -> keystore_load(c.key)

\* Container::open: it must be the one the file was sealed with.
Unlocks(c) == is_container(c) /\ SecretFor(c) = c.secret
\* Whether signing.rs's load yields the key.
Loads(c) == c.kind = "plain" \/ Unlocks(c)

KeyFileTypeOK ==
    /\ \A p \in Paths : file[p] \in {NoKeyFile, Torn} \/ file[p].key \in SigningKeys
    /\ vault \in [SigningKeys -> 0..MaxSecrets]
    /\ secrets \in 0..MaxSecrets
    /\ relied \subseteq SigningKeys
    /\ spilt \in 0..MaxSpills

\* One path may hold a key made elsewhere, with any access list.
KeyFileInit ==
    /\ \E p \in Paths, k \in SigningKeys, wide \in BOOLEAN :
          /\ file = [q \in Paths |-> IF q = p THEN [ClearKey(k) EXCEPT !.wide = wide] ELSE NoKeyFile]
          /\ relied = {k}
    /\ vault = [k \in SigningKeys |-> 0]
    /\ secrets = 0
    /\ command = NoCommand
    /\ spilt = 0

-----------------------------------------------------------------------------
(* Starting a command: what it checks before it writes anything.           *)

\* over: in place of the file that was read; bound: that file names an
\* external entry.
Start(op, out, over, k, how, bound) ==
    /\ command = NoCommand
    /\ command' = [op |-> op, out |-> out, over |-> over, key |-> k, store |-> how, bound |-> bound,
                   secret |-> ByPassphrase, step |-> IF how = "clear" THEN "create" ELSE "seal"]
    /\ UNCHANGED <<file, vault, secrets, relied, spilt>>

\* A key from the system's generator: one that nothing refers to.
FreshKey(k) == k \notin relied /\ vault[k] = 0 /\ \A p \in Paths : Whole(file[p]) => file[p].key # k

\* keygen looks for the file before a secret is stored anywhere.
keygen(out, k, how) ==
    /\ file[out] = NoKeyFile
    /\ FreshKey(k)
    /\ Start("keygen", out, FALSE, k, how, FALSE)

\* protect encrypts a plain file, in place or into a new one; the replacement
\* of an in-place command is prepared here.
protect(p, out, over, how, allow) ==
    /\ read_key_file(file[p], allow)
    /\ ~ is_container(file[p])
    /\ how \in Stores
    /\ Start("protect", out, over, file[p].key, how, FALSE)

rewrap(p, out, over, allow) ==
    /\ read_key_file(file[p], allow)
    /\ is_container(file[p])
    /\ file[p].store = "passphrase"
    /\ Start("rewrap", out, over, file[p].key, "passphrase", FALSE)

unprotect(p, out, over, allow) ==
    /\ read_key_file(file[p], allow)
    /\ Unlocks(file[p])
    /\ Start("unprotect", out, over, file[p].key, "clear", file[p].store = "entry")

-----------------------------------------------------------------------------
(* Its steps.                                                              *)

Doing(step) == command # NoCommand /\ command.step = step
Goto(step) == command' = [command EXCEPT !.step = step]

\* What the command writes under its target's name.
Output ==
    IF command.store = "clear" THEN ClearKey(command.key)
                               ELSE Sealed(command.key, command.secret, command.store)

\* A command that created an external entry removes it when it fails; the
\* others end, and a prepared replacement is dropped with its temporary file.
FailedWith(external) == IF external THEN Goto("forget") ELSE command' = NoCommand
Fail == FailedWith(command.store = "entry" /\ command.secret # 0)

\* The external store keeps one secret for a public key.
WithEntry(k, s) == [vault EXCEPT ![k] = s]

\* A new passphrase is read.
passphrase_create ==
    /\ command.store = "passphrase"
    /\ Goto("create")
    /\ UNCHANGED <<vault, secrets>>

\* A wrapping secret is generated and protected; an entry replaces the old one.
random_secret == secrets + 1
keystore_store ==
    /\ command.store # "passphrase"
    /\ secrets < MaxSecrets
    /\ secrets' = random_secret
    /\ command' = [command EXCEPT !.secret = random_secret, !.step = "create"]
    /\ vault' = IF command.store = "entry" THEN WithEntry(command.key, random_secret) ELSE vault

\* Either may be refused, and then nothing was stored.
container ==
    /\ Doing("seal")
    /\ \/ passphrase_create
       \/ keystore_store
       \/ command' = NoCommand /\ UNCHANGED <<vault, secrets>>
    /\ UNCHANGED <<file, relied, spilt>>

\* write_new creates the file exclusively, under its own name.
create_new ==
    /\ Doing("create") /\ ~ command.over
    /\ \/ /\ file[command.out] = NoKeyFile
          /\ file' = [file EXCEPT ![command.out] = Torn]
          /\ Goto("fill")
       \/ Fail /\ UNCHANGED file
    /\ UNCHANGED <<vault, secrets, relied, spilt>>

\* It writes and syncs; a file that could not be written is removed.
write_new ==
    /\ Doing("fill")
    /\ \/ file' = [file EXCEPT ![command.out] = Output] /\ Goto("end")
       \/ file' = [file EXCEPT ![command.out] = NoKeyFile] /\ Fail
    /\ UNCHANGED <<vault, secrets, relied, spilt>>

\* Replacement::commit writes the temporary file and renames it over the
\* target, which is then readable by its owner only.
commit ==
    /\ Doing("create") /\ command.over
    /\ \/ file' = [file EXCEPT ![command.out] = Output] /\ Goto("end")
       \/ Fail /\ UNCHANGED file
    /\ UNCHANGED <<vault, secrets, relied, spilt>>

\* The command reports the public key.  After unprotect the entry that the
\* file was bound to is forgotten.
finish ==
    /\ Doing("end")
    /\ relied' = relied \cup {command.key}
    /\ IF command.bound THEN Goto("forget") ELSE command' = NoCommand
    /\ UNCHANGED <<file, vault, secrets, spilt>>

\* keystore::forget: best effort.
forget ==
    /\ Doing("forget")
    /\ command' = NoCommand
    /\ \/ vault' = WithEntry(command.key, 0) /\ UNCHANGED spilt
       \/ spilt < MaxSpills /\ spilt' = spilt + 1 /\ UNCHANGED vault
    /\ UNCHANGED <<file, secrets, relied>>

killed ==
    /\ command # NoCommand
    /\ spilt < MaxSpills
    /\ spilt' = spilt + 1
    /\ command' = NoCommand
    /\ UNCHANGED <<file, vault, secrets, relied>>

KeyFileNext ==
    \/ \E out \in Paths :
          \/ \E k \in SigningKeys, how \in Stores \cup {"clear"} : keygen(out, k, how)
          \/ \E p \in Paths, over, allow \in BOOLEAN :
                /\ over => out = p
                /\ \/ \E how \in Stores : protect(p, out, over, how, allow)
                   \/ rewrap(p, out, over, allow)
                   \/ unprotect(p, out, over, allow)
    \/ container \/ create_new \/ write_new \/ commit \/ finish \/ forget \/ killed

-----------------------------------------------------------------------------
(* Properties.                                                             *)

\* Whatever is refused and wherever a command is killed, a key the user
\* relies on can still be loaded from some file: an entry is replaced or
\* forgotten only while another file of the same key opens without it.
KeyNeverLost == \A k \in relied : \E p \in Paths : Loads(file[p]) /\ file[p].key = k

\* Unless a process was killed or the store refused, the external store holds
\* no secret that opens nothing.
NoOrphanedSecret ==
    command = NoCommand /\ spilt = 0 =>
        \A k \in SigningKeys : vault[k] # 0 =>
            \E p \in Paths : file[p] = Sealed(k, vault[k], "entry")

\* A step replaces a complete file only by a complete file of the same key: no
\* reader sees a torn one where a key was, and no command overwrites another
\* key's file.
KeyFilesReplacedWhole ==
    [][\A p \in Paths : Whole(file[p]) => Whole(file'[p]) /\ file'[p].key = file[p].key]_keyVars
=============================================================================
