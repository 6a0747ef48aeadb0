---------------------------- MODULE WalletService ----------------------------
(***************************************************************************)
(* The wallets of libindy: WalletCommandExecutor (commands/wallet.rs) and  *)
(* WalletService (indy-wallet/src/lib.rs) over the SQLite storage.         *)
(*                                                                         *)
(* A call that needs a key has two halves on the executor's thread, and    *)
(* the key is derived by a pool of threads in between, in any order: the   *)
(* first half is the action named after the call, the second the one       *)
(* ending in Continue.  A half is one step; a first half that refuses the  *)
(* call changes nothing and is left out.                                   *)
(*                                                                         *)
(* What is random in the code (a salt, the keys of a wallet, a handle) is  *)
(* named after the call that draws it.  A master key is the pair of the    *)
(* passphrase and the salt it is derived from; keys encrypted under one    *)
(* are read with the same one only.  A file that is deleted while it is    *)
(* open lives on without a name.                                           *)
(***************************************************************************)
EXTENDS Integers, Sequences, Functions

CONSTANTS
    Name,       \* the wallets' names (id and path of their configurations)
    Pass,       \* the passphrases
    Rec,        \* the records of a wallet
    Val,        \* ... and their values
    Clients,    \* the clients: whether one is careful, its calls, what fails meanwhile
    None        \* no record, no metadata, no exported file, no rotation

ASSUME WalletAssumption ==
    \A c \in Clients :
        /\ c.careful \in BOOLEAN
        /\ c.calls \in Nat     \* bound: calls with a second half
        /\ c.faults \in Nat    \* bound: failing operations and deaths of the process
        /\ None \notin [under : Pass \X (0 .. c.calls), salt : 0 .. c.calls,
                        keys : 0 .. c.calls]   \* it is no metadata

VARIABLES
    client,         \* the client of this process
    files,          \* the storage files made so far: metadata and records
    path,           \* the file under each name, 0 if there is none
    exported,       \* the file that wallets are exported to and imported from
    wallets,        \* the open wallets by handle
    walletIds,      \* the names of open wallets, as wallet_ids has them
    pendingOpen,    \* pending_for_open
    pendingImport,  \* pending_for_import
    calls,          \* the calls, in the order of their first halves
    faults

disk == <<files, path, exported>>
service == <<wallets, walletIds, pendingOpen, pendingImport>>
vars == <<client, disk, service, calls, faults>>

Nothing == [h \in {} |-> h]
With(f, h, x) == [i \in DOMAIN f \cup {h} |-> IF i = h THEN x ELSE f[i]]
Without(f, h) == Restrict(f, DOMAIN f \ {h})
NoItems == [r \in Rec |-> None]

MasterKey(pass, salt) == <<pass, salt>>

\* _prepare_metadata: the keys of a wallet under a master key, with the salt.
PrepareMetadata(key, salt, keys) == [under |-> key, salt |-> salt, keys |-> keys]

\* _restore_keys succeeds.
Restores(meta, key) == meta.under = key

\* The records, encrypted with the keys of a wallet.
Encrypt(plain, keys) ==
    [r \in Rec |-> IF plain[r] = None THEN None ELSE [val |-> plain[r], keys |-> keys]]
Decrypt(items) == [r \in Rec |-> IF items[r] = None THEN None ELSE items[r].val]

\* Any part of the records.
SomeOf(items) == {[r \in Rec |-> IF r \in S THEN items[r] ELSE None] : S \in SUBSET Rec}

\* An earlier process has made a wallet, and perhaps exported it.
Init ==
    /\ client \in Clients
    /\ \E n \in Name, p \in Pass, plain \in [Rec -> Val] :
          /\ files = <<[meta |-> PrepareMetadata(MasterKey(p, 0), 0, 0),
                        items |-> Encrypt(plain, 0)]>>
          /\ path = [m \in Name |-> IF m = n THEN 1 ELSE 0]
          /\ exported \in {None, [under |-> MasterKey(p, 0), salt |-> 0, part |-> "all",
                                  plain |-> plain]}
    /\ wallets = Nothing /\ walletIds = {}
    /\ pendingOpen = Nothing /\ pendingImport = Nothing
    /\ calls = <<>> /\ faults = 0

----------------------------------------------------------------------------
(* Calls *)

Underway == {c \in DOMAIN calls : calls[c].st = "derive"}
This == Len(calls) + 1

\* A careful client waits for the answer of one call of a name before the next.
MayCall(n) ==
    client.careful => \A c \in Underway : calls[c].name # n

\* The key of the call is to be derived, and for some calls another one.
Begin(op, n, key, other, arg) ==
    /\ Len(calls) < client.calls
    /\ calls' = Append(calls, [st |-> "derive", op |-> op, name |-> n,
                               key |-> key, other |-> other, arg |-> arg])

Works == UNCHANGED faults
Fails == faults < client.faults /\ faults' = faults + 1

\* What is kept of a call that ends: whether something has failed in it, too.
Outcome(c, st) == [st |-> st, op |-> calls[c].op, failed |-> faults' # faults]

\* The callback of the call: ok; an error; an error of the key derivation.
Answer(c, st) == calls' = [calls EXCEPT ![c] = Outcome(c, st)]

\* _derive_key fails: the second half answers, and does nothing else.
DeriveFails(c) ==
    /\ Fails
    /\ Answer(c, "nokey")
    /\ UNCHANGED <<client, disk, service>>

Create(n, p) ==
    /\ MayCall(n)
    /\ Begin("create", n, MasterKey(p, This), None, None)
    /\ UNCHANGED <<client, disk, service, faults>>

\* A new file, in which the caller may have put records before anyone sees it.
CreateStorage(n, meta, items) ==
    /\ path[n] = 0
    /\ files' = Append(files, [meta |-> meta, items |-> items])
    /\ path' = [path EXCEPT ![n] = Len(files) + 1]

\* _create_wallet for call c: the keys and the salt are new.
CreateWallet(c, items) ==
    CreateStorage(calls[c].name, PrepareMetadata(calls[c].key, c, c), items)

CreateContinue(c) ==
    LET q == calls[c]
    IN  /\ q.op = "create"
        /\ \/ /\ Works
              /\ CreateWallet(c, NoItems)
              /\ Answer(c, "ok")
              /\ UNCHANGED exported
           \/ /\ (path[q.name] # 0 /\ Works) \/ Fails
              /\ Answer(c, "err")
              /\ UNCHANGED disk
        /\ UNCHANGED <<client, service>>

----------------------------------------------------------------------------
(* Opening and closing *)

\* _open_storage_and_fetch_metadata succeeds.
Readable(n) == path[n] # 0 /\ files[path[n]].meta # None

\* _is_id_from_config_not_used.
NotUsed(n) == n \notin walletIds

\* open_wallet_prepare: the storage is opened, its metadata are read.
OpenPrepare(n, rekeySalt) ==
    /\ Readable(n)
    /\ pendingOpen' = With(pendingOpen, This,
          [name |-> n, file |-> path[n], meta |-> files[path[n]].meta, rekeySalt |-> rekeySalt])

\* With the passphrase, and perhaps one that the master key is rotated to.
Open(n, p, rekey) ==
    /\ MayCall(n)
    /\ NotUsed(n)
    /\ OpenPrepare(n, This)
    /\ Begin("open", n, MasterKey(p, files[path[n]].meta.salt),
             IF rekey = None THEN None ELSE MasterKey(rekey, This), None)
    /\ UNCHANGED <<client, disk, wallets, walletIds, pendingImport, faults>>

\* The storage's metadata after a rotation of the master key.
Rotate(w, rekey, salt) ==
    IF rekey = None THEN UNCHANGED files
    ELSE files' = [files EXCEPT ![w.file].meta = PrepareMetadata(rekey, salt, w.meta.keys)]

\* Mutant of OpenContinue: the salt of the rotated key is drawn once more.
OpenContinueNewSalt(c) ==
    LET q == calls[c]
        w == pendingOpen[c]
    IN  /\ q.op = "open"
        /\ pendingOpen' = Without(pendingOpen, c)
        /\ Restores(w.meta, q.key) /\ Works
        /\ Rotate(w, q.other, -c)
        /\ wallets' = With(wallets, c, [name |-> w.name, file |-> w.file, keys |-> w.meta.keys])
        /\ walletIds' = walletIds \cup {w.name}
        /\ Answer(c, "ok")
        /\ UNCHANGED <<client, path, exported, pendingImport>>

\* open_wallet_continue.
OpenContinue(c) ==
    LET q == calls[c]
        w == pendingOpen[c]
    IN  /\ q.op = "open"
        /\ pendingOpen' = Without(pendingOpen, c)
        /\ \/ /\ Restores(w.meta, q.key) /\ Works
              /\ Rotate(w, q.other, w.rekeySalt)
              /\ wallets' = With(wallets, c,
                    [name |-> w.name, file |-> w.file, keys |-> w.meta.keys])
              /\ walletIds' = walletIds \cup {w.name}
              /\ Answer(c, "ok")
           \/ /\ (~Restores(w.meta, q.key) /\ Works) \/ (q.other # None /\ Fails)
              /\ Answer(c, "err")
              /\ UNCHANGED <<files, wallets, walletIds>>
        /\ UNCHANGED <<client, path, exported, pendingImport>>

\* close_wallet.
Close(h) ==
    /\ MayCall(wallets[h].name)
    /\ walletIds' = walletIds \ {wallets[h].name}
    /\ wallets' = Without(wallets, h)
    /\ UNCHANGED <<client, disk, pendingOpen, pendingImport, calls, faults>>

----------------------------------------------------------------------------
(* Deleting *)

\* Mutant of DeletePrepare: a wallet need not be closed.
DeletePrepareOpen(n) == Readable(n)

\* delete_wallet_prepare.
DeletePrepare(n) == NotUsed(n) /\ Readable(n)

Delete(n, p) ==
    /\ MayCall(n)
    /\ DeletePrepare(n)
    /\ LET meta == files[path[n]].meta
       IN  Begin("delete", n, MasterKey(p, meta.salt), None, meta)
    /\ UNCHANGED <<client, disk, service, faults>>

\* delete_storage.
DeleteStorage(n) ==
    /\ path[n] # 0
    /\ path' = [path EXCEPT ![n] = 0]
    /\ UNCHANGED <<files, exported>>

\* Mutant of DeleteContinue: the keys are not restored first.
DeleteContinueUnchecked(c) ==
    LET q == calls[c]
    IN  /\ q.op = "delete"
        /\ Works /\ DeleteStorage(q.name)
        /\ Answer(c, "ok")
        /\ UNCHANGED <<client, service>>

\* delete_wallet_continue, with the metadata of the first half.
DeleteContinue(c) ==
    LET q == calls[c]
    IN  /\ q.op = "delete"
        /\ \/ /\ Restores(q.arg, q.key) /\ Works
              /\ DeleteStorage(q.name)
              /\ Answer(c, "ok")
           \/ /\ ((~Restores(q.arg, q.key) \/ path[q.name] = 0) /\ Works) \/ Fails
              /\ Answer(c, "err")
              /\ UNCHANGED disk
        /\ UNCHANGED <<client, service>>

----------------------------------------------------------------------------
(* Exporting and importing *)

Export(h, p) ==
    /\ MayCall(wallets[h].name)
    /\ Begin("export", wallets[h].name, MasterKey(p, This), None, h)
    /\ UNCHANGED <<client, disk, service, faults>>

\* export_continue for call c: all of the file; or some of it, or less than its
\* header, when it cannot be written to its end.
WriteExport(c, part) ==
    exported' = [under |-> calls[c].key, salt |-> c, part |-> part,
                 plain |-> Decrypt(files[wallets[calls[c].arg].file].items)]

\* export_wallet.  What was written is left behind when the rest cannot be.
ExportContinue(c) ==
    LET q == calls[c]
        possible == q.arg \in DOMAIN wallets /\ exported = None
    IN  /\ q.op = "export"
        /\ \/ possible /\ Works /\ WriteExport(c, "all") /\ Answer(c, "ok")
           \/ /\ possible /\ Fails
              /\ \E part \in {"some", "none"} : WriteExport(c, part)
              /\ Answer(c, "err")
           \/ /\ (~possible /\ Works) \/ Fails
              /\ Answer(c, "err")
              /\ UNCHANGED exported
        /\ UNCHANGED <<client, files, path, service>>

\* preparse_file_to_import: the header is there.
Preparsed == exported # None /\ exported.part # "none"

\* import_wallet_prepare.
ImportPrepare == Preparsed /\ pendingImport' = With(pendingImport, This, exported)

Import(n, p, importPass) ==
    /\ MayCall(n)
    /\ ImportPrepare
    /\ Begin("import", n, MasterKey(p, This), MasterKey(importPass, exported.salt), None)
    /\ UNCHANGED <<client, disk, wallets, walletIds, pendingOpen, faults>>

\* finish_import: the records it adds, one by one.
Imported(file, key, keys) ==
    IF file.under = key THEN Encrypt(file.plain, keys) ELSE NoItems

\* ... and it comes to the end of the file.
Complete(file, key) == file.under = key /\ file.part = "all"

\* _create_wallet, some records, and delete_wallet_continue with the keys that
\* were just made: the file has lost its name again.
CreateAndUndo(c, items) ==
    /\ path[calls[c].name] = 0
    /\ files' = Append(files, [meta |-> PrepareMetadata(calls[c].key, c, c), items |-> items])
    /\ UNCHANGED path

\* Mutant of ImportContinue: a wallet that was imported in part is kept.
ImportContinueKept(c) ==
    LET q == calls[c]
        file == pendingImport[c]
    IN  /\ q.op = "import"
        /\ pendingImport' = Without(pendingImport, c)
        /\ NotUsed(q.name) /\ Works
        /\ CreateWallet(c, Imported(file, q.other, c))
        /\ Answer(c, IF Complete(file, q.other) THEN "ok" ELSE "err")
        /\ UNCHANGED <<client, exported, wallets, walletIds, pendingOpen>>

\* import_wallet_continue.  The wallet is made first; whether one of this name is
\* open is asked then, and the new one stays.  It stays, too, when its storage
\* cannot be opened or it cannot be removed after an import that has failed.
ImportContinue(c) ==
    LET q == calls[c]
        file == pendingImport[c]
        records == Imported(file, q.other, c)
    IN  /\ q.op = "import"
        /\ pendingImport' = Without(pendingImport, c)
        /\ \/ /\ (path[q.name] # 0 /\ Works) \/ Fails
              /\ Answer(c, "err")
              /\ UNCHANGED <<files, path>>
           \/ /\ ~NotUsed(q.name) /\ Works
              /\ CreateWallet(c, NoItems)
              /\ Answer(c, "err")
           \/ /\ NotUsed(q.name) /\ Complete(file, q.other) /\ Works
              /\ CreateWallet(c, records)
              /\ Answer(c, "ok")
           \/ /\ NotUsed(q.name)
              /\ (~Complete(file, q.other) /\ Works) \/ Fails
              /\ \E items \in SomeOf(records) : CreateAndUndo(c, items)
              /\ Answer(c, "err")
           \/ /\ NotUsed(q.name) /\ Fails
              /\ \E items \in SomeOf(records) : CreateWallet(c, items)
              /\ Answer(c, "err")
        /\ UNCHANGED <<client, exported, wallets, walletIds, pendingOpen>>

----------------------------------------------------------------------------
(* Records of an open wallet *)

Item(h, v) == [val |-> v, keys |-> wallets[h].keys]
Put(h, r, item) ==
    /\ files' = [files EXCEPT ![wallets[h].file].items[r] = item]
    /\ UNCHANGED <<client, path, exported, service, calls, faults>>
Items(h) == files[wallets[h].file].items

AddRecord(h, r, v) == Items(h)[r] = None /\ Put(h, r, Item(h, v))
UpdateRecordValue(h, r, v) == Items(h)[r] # None /\ Put(h, r, Item(h, v))
DeleteRecord(h, r) == Items(h)[r] # None /\ Put(h, r, None)

----------------------------------------------------------------------------
(* The death of the process, perhaps within a second half *)

\* What a second half that is cut short may leave on disk.
CutShort(c) ==
    LET q == calls[c]
    IN  \/ /\ q.op \in {"create", "import"}
           /\ \E meta \in {None, PrepareMetadata(q.key, c, c)} :
                 CreateStorage(q.name, meta, NoItems)
           /\ UNCHANGED exported
        \/ /\ q.op = "import" /\ NotUsed(q.name)
           /\ \E items \in SomeOf(Imported(pendingImport[c], q.other, c)) :
                 CreateWallet(c, items)
           /\ UNCHANGED exported
        \/ /\ q.op = "open" /\ Restores(pendingOpen[c].meta, q.key)
           /\ Rotate(pendingOpen[c], q.other, pendingOpen[c].rekeySalt)
           /\ UNCHANGED <<path, exported>>
        \/ /\ q.op = "export" /\ q.arg \in DOMAIN wallets /\ exported = None
           /\ \E part \in {"all", "some", "none"} : WriteExport(c, part)
           /\ UNCHANGED <<files, path>>

Crash ==
    /\ Fails
    /\ UNCHANGED disk \/ \E c \in Underway : CutShort(c)
    /\ calls' = [c \in DOMAIN calls |-> IF c \in Underway THEN Outcome(c, "lost") ELSE calls[c]]
    /\ wallets' = Nothing /\ walletIds' = {}
    /\ pendingOpen' = Nothing /\ pendingImport' = Nothing
    /\ UNCHANGED client

FirstHalf ==
    \/ \E n \in Name, p \in Pass : Create(n, p) \/ Delete(n, p)
    \/ \E n \in Name, p \in Pass, rekey \in Pass \cup {None} : Open(n, p, rekey)
    \/ \E h \in DOMAIN wallets, p \in Pass : Export(h, p)
    \/ \E n \in Name, p, importPass \in Pass : Import(n, p, importPass)

SecondHalf ==
    \E c \in Underway :
        \/ DeriveFails(c)
        \/ CreateContinue(c) \/ OpenContinue(c) \/ DeleteContinue(c)
        \/ ExportContinue(c) \/ ImportContinue(c)

AtOnce ==
    \E h \in DOMAIN wallets :
        \/ Close(h)
        \/ \E r \in Rec : DeleteRecord(h, r)
        \/ \E r \in Rec, v \in Val : AddRecord(h, r, v) \/ UpdateRecordValue(h, r, v)

Next == FirstHalf \/ SecondHalf \/ AtOnce \/ Crash

Spec == Init /\ [][Next]_vars

----------------------------------------------------------------------------
(* Properties *)

\* What is stored can be read again: the metadata of a file are under the master
\* key that their own salt gives for some passphrase, its records are under the
\* keys that the metadata hold, and so are those that an open wallet will add.
\* The salt is drawn in open_wallet_prepare, the key derived by another thread,
\* and both are put together in open_wallet_continue, perhaps after a rotation
\* by another call.
StillReadable ==
    /\ \A f \in DOMAIN files :
          LET meta == files[f].meta
          IN  /\ meta # None => \E p \in Pass : Restores(meta, MasterKey(p, meta.salt))
              /\ \A r \in Rec : files[f].items[r] # None =>
                    meta # None /\ files[f].items[r].keys = meta.keys
    /\ \A h \in DOMAIN wallets : wallets[h].keys = files[wallets[h].file].meta.keys

\* For a careful client a wallet has one handle, wallet_ids, by which
\* open_wallet_prepare and delete_wallet_prepare decide, is right, and what is
\* open is still there: "Wallet has to be closed before deleting".  A client
\* that overlaps its calls can open a wallet twice, or delete it while open.
OpenOnce ==
    client.careful =>
        /\ \A h, i \in DOMAIN wallets : wallets[h].name = wallets[i].name => h = i
        /\ walletIds = {wallets[h].name : h \in DOMAIN wallets}
        /\ \A h \in DOMAIN wallets : path[wallets[h].name] = wallets[h].file

\* What an error leaves.  For a careful client a wallet on disk is one that a
\* call has reported, or the process died in it, or an import was answered with
\* an error because its storage failed: a failed create or rotation leaves
\* nothing, and neither does an import of a file that is damaged or has another
\* key.  For any client a file that can neither be opened nor deleted nor made
\* again is left by the death of the process alone (create_storage removes it).
ErrorsUndone ==
    /\ client.careful => \A n \in Name : Readable(n) =>
          LET by == files[path[n]].meta.salt
          IN  \/ by = 0
              \/ calls[by].st \in {"ok", "lost"}
              \/ calls[by].st = "err" /\ calls[by].op = "import" /\ calls[by].failed
    /\ \A n \in Name : path[n] # 0 /\ ~Readable(n) =>
          \E c \in DOMAIN calls : calls[c].st = "lost"

\* For a careful client a wallet goes only by a call with the key that opens it
\* as it is then ("check credentials ... before deleting wallet").  If calls
\* overlap, the key is checked against metadata that may be stale by then.
DeletedWithItsKey ==
    [][\A n \in Name : client.careful /\ path[n] # 0 /\ path'[n] = 0 =>
          /\ Readable(n)
          /\ \E c \in Underway : /\ calls[c].op = "delete" /\ calls[c].name = n
                               /\ Restores(files[path[n]].meta, calls[c].key)]_vars
=============================================================================
