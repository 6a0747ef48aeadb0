------------------------ MODULE WalletServiceProofs ------------------------
(***************************************************************************)
(* Proofs about the wallet service of libindy, for every set of names,     *)
(* passphrases, records and values and any number of calls and faults.     *)
(***************************************************************************)
EXTENDS WalletService, SequenceTheorems, TLAPS

----------------------------------------------------------------------------
(* The inductive invariant *)

\* What is random, named after a call or after the earlier process.
Stamp == 0 .. client.calls
Metadata == [under : Pass \X Stamp, salt : Stamp, keys : Stamp]
ItemsType == [Rec -> [val : Val, keys : Stamp] \cup {None}]
PlainType == [Rec -> Val \cup {None}]
FileType == [meta : Metadata \cup {None}, items : ItemsType]
ExportType == [under : Pass \X Stamp, salt : Stamp, part : {"all", "some", "none"},
               plain : PlainType]
OpCall == [st : {"derive"}, op : {"create", "open", "delete", "export", "import"},
           name : Name, key : Pass \X Stamp, other : (Pass \X Stamp) \cup {None},
           arg : Metadata \cup Nat \cup {None}]
Ended == [st : {"ok", "err", "nokey", "lost"}, op : {"create", "open", "delete", "export", "import"},
          failed : BOOLEAN]

\* The types of the variables.
Typed ==
    /\ client \in Clients
    /\ files \in Seq(FileType)
    /\ path \in [Name -> 0 .. Len(files)]
    /\ exported \in ExportType \cup {None}
    /\ calls \in Seq(OpCall \cup Ended)
    /\ Len(calls) <= client.calls
    /\ walletIds \subseteq Name

\* An open wallet has a call that has ended, and the keys of its file.
WalletsRight ==
    \A h \in DOMAIN wallets :
        /\ h \in DOMAIN calls /\ h \notin Underway
        /\ wallets[h].name \in Name
        /\ wallets[h].file \in DOMAIN files
        /\ wallets[h].keys \in Stamp
        /\ files[wallets[h].file].meta # None
        /\ wallets[h].keys = files[wallets[h].file].meta.keys

\* A file is readable: its metadata are under a key that their own salt gives,
\* its records under the keys that the metadata hold.
FilesRight ==
    \A f \in DOMAIN files :
        /\ files[f].meta # None =>
              \E p \in Pass : Restores(files[f].meta, MasterKey(p, files[f].meta.salt))
        /\ \A r \in Rec : files[f].items[r] # None =>
              files[f].meta # None /\ files[f].items[r].keys = files[f].meta.keys

\* A call under way has its key from the salt it has drawn, and an opening has
\* the keys of its file, whatever has happened to the file since.
CallRight(c) ==
    LET q == calls[c]
        w == pendingOpen[c]
    IN  /\ q.op \in {"create", "import"} => \E p \in Pass : q.key = MasterKey(p, c)
        /\ q.op = "open" =>
              /\ c \in DOMAIN pendingOpen
              /\ w.name = q.name
              /\ w.file \in DOMAIN files
              /\ w.meta \in Metadata
              /\ w.rekeySalt = c
              /\ files[w.file].meta # None
              /\ w.meta.keys = files[w.file].meta.keys
              /\ q.other # None => \E p \in Pass : q.other = MasterKey(p, c)
        /\ q.op = "import" => c \in DOMAIN pendingImport /\ pendingImport[c] \in ExportType

CallsRight == \A c \in Underway : CallRight(c)

\* A file has one name.
PathsApart ==
    \A m, n \in Name : path[m] = path[n] /\ path[n] # 0 => m = n

\* A careful client has one call of a name under way; what an opening or a
\* deletion has read is still so.
StillAsRead(c) ==
    LET n == calls[c].name
    IN  /\ n \notin walletIds
        /\ Readable(n)
        /\ calls[c].op = "open" => /\ pendingOpen[c].file = path[n]
                                  /\ pendingOpen[c].meta = files[path[n]].meta
        /\ calls[c].op = "delete" => calls[c].arg = files[path[n]].meta

Careful ==
    client.careful =>
        /\ \A c, d \in Underway : calls[c].name = calls[d].name => c = d
        /\ \A c \in Underway : calls[c].op \in {"open", "delete"} => StillAsRead(c)

\* A call that may have left a wallet, or a rotation of its key.
MayLeave(q) ==
    \/ q.st \in {"ok", "lost"}
    \/ q.st = "err" /\ q.op = "import" /\ q.failed

\* Of a careful client, whatever is readable is by such a call.
SaltsEnded ==
    client.careful => \A n \in Name : Readable(n) =>
        LET by == files[path[n]].meta.salt
        IN  by = 0 \/ (by \in DOMAIN calls /\ MayLeave(calls[by]))

\* A storage without metadata has been left by a process that died.
TornLost ==
    \A f \in DOMAIN files : files[f].meta = None =>
        \E c \in DOMAIN calls : calls[c].st = "lost"

IInv == Typed /\ WalletsRight /\ FilesRight /\ CallsRight /\ PathsApart /\ Careful
            /\ OpenOnce /\ SaltsEnded /\ TornLost

\* What fails is counted.
Counted == faults \in Nat

----------------------------------------------------------------------------
(* Operators *)

\* While the client stays the same, so do the types.
LEMMA TypesStay ==
    ASSUME client' = client
    PROVE  /\ Stamp' = Stamp /\ Metadata' = Metadata /\ ItemsType' = ItemsType
           /\ FileType' = FileType /\ ExportType' = ExportType /\ OpCall' = OpCall
BY DEF Stamp, Metadata, ItemsType, FileType, ExportType, OpCall

\* A file with metadata can be told from one without.
LEMMA NoneIsNoMetadata == Typed => None \notin Metadata
<1> SUFFICES ASSUME Typed PROVE None \notin Metadata
  OBVIOUS
<1>1. client \in Clients
  BY DEF Typed
<1> QED
  BY <1>1, WalletAssumption, Zenon DEF Metadata, Stamp

\* A call under way has a name and a key.
LEMMA UnderwayTyped ==
    ASSUME IInv, NEW c \in Underway
    PROVE  calls[c] \in OpCall /\ calls[c].name \in Name /\ calls[c].key \in Pass \X Stamp
<1>1. calls \in Seq(OpCall \cup Ended) /\ c \in DOMAIN calls /\ calls[c].st = "derive"
  BY DEF IInv, Typed, Underway
<1>2. calls[c] \in OpCall
  BY <1>1 DEF Ended
<1> QED
  BY <1>2 DEF OpCall

\* A first half appends its call.
LEMMA BeginEffect ==
    ASSUME Typed, NEW op \in {"create", "open", "delete", "export", "import"},
           NEW n \in Name, NEW key \in Pass \X Stamp,
           NEW other \in (Pass \X Stamp) \cup {None},
           NEW arg \in Metadata \cup Nat \cup {None},
           Begin(op, n, key, other, arg)
    PROVE  /\ calls' \in Seq(OpCall \cup Ended) /\ Len(calls') <= client.calls
           /\ This \notin DOMAIN calls
           /\ DOMAIN calls' = DOMAIN calls \cup {This}
           /\ \A c \in DOMAIN calls : calls'[c] = calls[c]
           /\ calls'[This] = [st |-> "derive", op |-> op, name |-> n,
                              key |-> key, other |-> other, arg |-> arg]
           /\ Underway' = Underway \cup {This}
<1> DEFINE q == [st |-> "derive", op |-> op, name |-> n, key |-> key, other |-> other, arg |-> arg]
<1>1. calls \in Seq(OpCall \cup Ended) /\ Len(calls) < client.calls /\ client.calls \in Nat
  BY WalletAssumption DEF Typed, Begin
<1>2. q \in OpCall
  BY DEF OpCall
<1>3. calls' = Append(calls, q)
  BY DEF Begin
<1>4. q.st = "derive"
  OBVIOUS
<1> HIDE DEF q
<1>5. calls' \in Seq(OpCall \cup Ended) /\ Len(calls') = Len(calls) + 1
  BY <1>1, <1>2, <1>3
<1>6. /\ This \notin DOMAIN calls
      /\ DOMAIN calls' = DOMAIN calls \cup {This}
      /\ \A c \in DOMAIN calls : calls'[c] = calls[c]
      /\ calls'[This] = q
  BY <1>1, <1>2, <1>3 DEF This
<1>7. Underway' = Underway \cup {This}
  BY <1>4, <1>6 DEF Underway
<1> QED
  BY <1>1, <1>5, <1>6, <1>7 DEF q

\* A second half ends its call.
LEMMA AnswerEffect ==
    ASSUME Typed, NEW c \in Underway, NEW st \in {"ok", "err", "nokey"},
           Answer(c, st)
    PROVE  /\ calls' \in Seq(OpCall \cup Ended) /\ Len(calls') = Len(calls)
           /\ DOMAIN calls' = DOMAIN calls
           /\ \A d \in DOMAIN calls \ {c} : calls'[d] = calls[d]
           /\ calls'[c].st = st /\ calls'[c].op = calls[c].op
           /\ calls'[c].failed = (faults' # faults)
           /\ Underway' = Underway \ {c}
           /\ c \in DOMAIN calls /\ calls[c] \in OpCall
           /\ ~MayLeave(calls[c])
           /\ \A d \in DOMAIN calls : calls[d].st = "lost" => calls'[d].st = "lost"
<1>1. calls \in Seq(OpCall \cup Ended) /\ c \in DOMAIN calls /\ calls[c].st = "derive"
  BY DEF Typed, Underway
<1>7. calls[c] \in OpCall
  BY <1>1 DEF Ended
<1>a. PICK q : q = Outcome(c, st)
  OBVIOUS
<1>2. q \in Ended /\ q.st = st /\ q.op = calls[c].op /\ q.failed = (faults' # faults)
  BY <1>7, <1>a DEF Ended, Outcome, OpCall
<1>3. calls' = [calls EXCEPT ![c] = q]
  BY <1>a DEF Answer
<1>4. calls' \in Seq(OpCall \cup Ended) /\ Len(calls') = Len(calls)
  BY <1>1, <1>2, <1>3, ExceptSeq
<1>5. /\ DOMAIN calls' = DOMAIN calls
      /\ \A d \in DOMAIN calls \ {c} : calls'[d] = calls[d]
      /\ calls'[c] = q
  BY <1>1, <1>3
<1>6. Underway' = Underway \ {c}
  BY <1>2, <1>5 DEF Underway
<1>8. ~MayLeave(calls[c])
  BY <1>1 DEF MayLeave
<1> QED
  BY <1>1, <1>2, <1>4, <1>5, <1>6, <1>7, <1>8

\* Records that are encrypted are under the keys they are encrypted with.
LEMMA EncryptType ==
    ASSUME NEW plain \in PlainType, NEW keys \in Stamp
    PROVE  /\ Encrypt(plain, keys) \in ItemsType
           /\ \A r \in Rec : Encrypt(plain, keys)[r] # None => Encrypt(plain, keys)[r].keys = keys
BY DEF PlainType, ItemsType, Encrypt

\* A new wallet has no records.
LEMMA NoItemsType == NoItems \in ItemsType /\ \A r \in Rec : NoItems[r] = None
BY DEF NoItems, ItemsType

\* What is exported is plain text.
LEMMA DecryptType ==
    ASSUME NEW items \in ItemsType
    PROVE  Decrypt(items) \in PlainType
BY DEF Decrypt, ItemsType, PlainType

\* A new storage is one more file, f, under a name that had none.
Stored(n, meta, items, f) ==
    /\ files' \in Seq(FileType)
    /\ f \notin DOMAIN files /\ f # 0
    /\ DOMAIN files' = DOMAIN files \cup {f}
    /\ \A g \in DOMAIN files : files'[g] = files[g]
    /\ files'[f].meta = meta /\ files'[f].items = items
    /\ path' \in [Name -> 0 .. Len(files')]
    /\ path[n] = 0 /\ path'[n] = f
    /\ \A m \in Name \ {n} : path'[m] = path[m]
    /\ \A m \in Name : path[m] # f

\* create_storage makes such a file.
LEMMA CreateStorageEffect ==
    ASSUME Typed, NEW n \in Name, NEW meta \in Metadata \cup {None}, NEW items \in ItemsType,
           NEW f \in Nat, f = Len(files) + 1,
           CreateStorage(n, meta, items)
    PROVE  Stored(n, meta, items, f)
<1>1. /\ files \in Seq(FileType) /\ path \in [Name -> 0 .. Len(files)] /\ Len(files) \in Nat
  BY DEF Typed
<1> DEFINE file == [meta |-> meta, items |-> items]
<1>2. file \in FileType /\ file.meta = meta /\ file.items = items
  BY DEF FileType
<1>3. /\ path[n] = 0
      /\ files' = Append(files, file)
      /\ path' = [path EXCEPT ![n] = f]
  BY DEF CreateStorage
<1> HIDE DEF file
<1>4. /\ files' \in Seq(FileType) /\ Len(files') = f
      /\ DOMAIN files' = DOMAIN files \cup {f} /\ f \notin DOMAIN files /\ f # 0
      /\ \A g \in DOMAIN files : files'[g] = files[g]
      /\ files'[f] = file
  BY <1>1, <1>2, <1>3
<1>5. path' \in [Name -> 0 .. f]
  <2>1. f \in 0 .. f /\ \A x \in 0 .. Len(files) : x \in 0 .. f
    BY <1>1
  <2> QED
    BY <1>1, <1>3, <2>1
<1> QED
  BY <1>1, <1>2, <1>3, <1>4, <1>5 DEF Stored

\* A rotation changes the metadata of one file, and not its keys or records.
LEMMA RotateEffect ==
    ASSUME Typed, NEW f \in DOMAIN files, NEW meta \in Metadata,
           files' = [files EXCEPT ![f].meta = meta]
    PROVE  /\ files' \in Seq(FileType) /\ Len(files') = Len(files)
           /\ DOMAIN files' = DOMAIN files
           /\ \A g \in DOMAIN files : files'[g].items = files[g].items
           /\ \A g \in DOMAIN files \ {f} : files'[g] = files[g]
           /\ files'[f].meta = meta
<1>1. files \in Seq(FileType) /\ files[f] \in FileType
  BY DEF Typed
<1> DEFINE file == [files[f] EXCEPT !.meta = meta]
<1>2. file \in FileType /\ file.meta = meta /\ file.items = files[f].items
  BY <1>1 DEF FileType
<1>3. files' = [files EXCEPT ![f] = file]
  OBVIOUS
<1> HIDE DEF file
<1>4. files' \in Seq(FileType) /\ Len(files') = Len(files)
  BY <1>1, <1>2, <1>3, ExceptSeq
<1> QED
  BY <1>1, <1>2, <1>3, <1>4

----------------------------------------------------------------------------
(* First halves *)

\* What a first half may rely on and must leave for the second: a call of a
\* name that may be called, with its key, and for an opening or a deletion of
\* a closed wallet what was read.
LEMMA FirstHalfKeeps ==
    ASSUME IInv, NEW t, t = This,
           NEW op \in {"create", "open", "delete", "export", "import"},
           NEW n \in Name, NEW key \in Pass \X Stamp,
           NEW other \in (Pass \X Stamp) \cup {None},
           NEW arg \in Metadata \cup Nat \cup {None},
           MayCall(n),
           Begin(op, n, key, other, arg),
           UNCHANGED <<client, disk, wallets, walletIds>>,
           op \in {"create", "import"} => \E p \in Pass : key = MasterKey(p, t),
           \A c \in DOMAIN pendingOpen \ {t} :
               c \in DOMAIN pendingOpen' /\ pendingOpen'[c] = pendingOpen[c],
           \A c \in DOMAIN pendingImport \ {t} :
               c \in DOMAIN pendingImport' /\ pendingImport'[c] = pendingImport[c],
           op \in {"open", "delete"} => NotUsed(n) /\ Readable(n),
           op = "delete" => arg = files[path[n]].meta,
           op = "open" =>
               /\ t \in DOMAIN pendingOpen'
               /\ pendingOpen'[t] = [name |-> n, file |-> path[n],
                                        meta |-> files[path[n]].meta, rekeySalt |-> t]
               /\ other # None => \E p \in Pass : other = MasterKey(p, t),
           op = "import" => t \in DOMAIN pendingImport' /\ pendingImport'[t] \in ExportType
    PROVE  IInv'
<1>1. /\ calls' \in Seq(OpCall \cup Ended) /\ Len(calls') <= client.calls
      /\ t \notin DOMAIN calls
      /\ DOMAIN calls' = DOMAIN calls \cup {t}
      /\ \A c \in DOMAIN calls : calls'[c] = calls[c]
      /\ calls'[t] = [st |-> "derive", op |-> op, name |-> n,
                         key |-> key, other |-> other, arg |-> arg]
      /\ Underway' = Underway \cup {t}
  <2>1. /\ calls' \in Seq(OpCall \cup Ended) /\ Len(calls') <= client.calls
        /\ This \notin DOMAIN calls
        /\ DOMAIN calls' = DOMAIN calls \cup {This}
        /\ \A c \in DOMAIN calls : calls'[c] = calls[c]
        /\ calls'[This] = [st |-> "derive", op |-> op, name |-> n,
                           key |-> key, other |-> other, arg |-> arg]
        /\ Underway' = Underway \cup {This}
    BY BeginEffect DEF IInv
  <2> QED
    BY <2>1
<1>2. UNCHANGED <<client, files, path, exported, wallets, walletIds>>
  BY DEF disk
<1>3. /\ Stamp' = Stamp /\ Metadata' = Metadata /\ ItemsType' = ItemsType
      /\ FileType' = FileType /\ ExportType' = ExportType /\ OpCall' = OpCall
  BY <1>2, TypesStay
<1>4. /\ calls'[t].op = op /\ calls'[t].name = n /\ calls'[t].key = key
      /\ calls'[t].other = other /\ calls'[t].arg = arg
  BY <1>1
<1>5. Underway \subseteq DOMAIN calls
  BY DEF Underway
<1>6. Typed'
  BY <1>1, <1>2, <1>3 DEF IInv, Typed, Ended
<1>7. WalletsRight'
  BY <1>1, <1>2, <1>3 DEF IInv, WalletsRight
<1>8. FilesRight'
  BY <1>2 DEF IInv, FilesRight
<1>9. Readable(n) => /\ path[n] \in DOMAIN files /\ files[path[n]].meta \in Metadata
                     /\ files[path[n]].meta # None
  <2>1. Readable(n) => path[n] \in DOMAIN files /\ files[path[n]] \in FileType
    BY DEF IInv, Typed, Readable
  <2> QED
    BY <2>1 DEF Readable, FileType
<1>10. CallsRight'
  <2>1. ASSUME NEW c \in Underway
        PROVE  /\ calls'[c] = calls[c] /\ c # t
               /\ c \in DOMAIN pendingOpen =>
                     c \in DOMAIN pendingOpen' /\ pendingOpen'[c] = pendingOpen[c]
               /\ c \in DOMAIN pendingImport =>
                     c \in DOMAIN pendingImport' /\ pendingImport'[c] = pendingImport[c]
    BY <1>1, <1>5
  <2>2. \A c \in Underway : CallRight(c)'
    BY <1>2, <1>3, <2>1 DEF IInv, CallsRight, CallRight
  <2>3. CallRight(t)'
    BY <1>2, <1>3, <1>4, <1>9 DEF CallRight
  <2> QED
    BY <1>1, <2>2, <2>3 DEF CallsRight
<1>11. PathsApart'
  BY <1>2 DEF IInv, PathsApart
<1>12. Careful'
  <2> SUFFICES ASSUME client.careful
               PROVE  /\ \A c, d \in Underway' : calls'[c].name = calls'[d].name => c = d
                      /\ \A c \in Underway' : calls'[c].op \in {"open", "delete"} => StillAsRead(c)'
    BY <1>2 DEF Careful
  <2>1. \A c \in Underway : calls'[c] = calls[c] /\ calls[c].name # n
    BY <1>1, <1>5 DEF MayCall
  <2>2. \A c \in Underway : calls[c].op = "open" =>
           c \in DOMAIN pendingOpen /\ pendingOpen'[c] = pendingOpen[c]
    BY <1>1, <1>5 DEF IInv, CallsRight, CallRight
  <2>3. \A c \in Underway : calls'[c].op \in {"open", "delete"} => StillAsRead(c)'
    BY <1>2, <2>1, <2>2 DEF IInv, Careful, StillAsRead, Readable
  <2>4. calls'[t].op \in {"open", "delete"} => StillAsRead(t)'
    BY <1>2, <1>4 DEF StillAsRead, Readable, NotUsed
  <2>5. \A c, d \in Underway : calls[c].name = calls[d].name => c = d
    BY DEF IInv, Careful
  <2> QED
    BY <1>1, <1>4, <2>1, <2>3, <2>4, <2>5
<1>13. OpenOnce'
  BY <1>2 DEF IInv, OpenOnce
<1>14. SaltsEnded'
  BY <1>1, <1>2 DEF IInv, SaltsEnded, Readable
<1>15. TornLost'
  BY <1>1, <1>2 DEF IInv, TornLost
<1> QED
  BY <1>6, <1>7, <1>8, <1>10, <1>11, <1>12, <1>13, <1>14, <1>15 DEF IInv

\* The first half of every call keeps the invariant.
LEMMA FirstHalfIInv ==
    ASSUME IInv, FirstHalf
    PROVE  IInv'
<1>a. Typed /\ client.calls \in Nat
  BY WalletAssumption DEF IInv, Typed
<1>b. PICK t : t = This
  OBVIOUS
<1>c. ASSUME Len(calls) < client.calls PROVE t \in Stamp /\ t \in Nat /\ 0 \in Stamp
  BY <1>a, <1>b, <1>c DEF Typed, This, Stamp
<1>d. ASSUME NEW n \in Name, Readable(n)
      PROVE  /\ files[path[n]].meta \in Metadata /\ files[path[n]].meta.salt \in Stamp
  <2>1. path[n] \in DOMAIN files /\ files[path[n]] \in FileType
    BY <1>a, <1>d DEF Typed, Readable
  <2>2. files[path[n]].meta \in Metadata
    BY <1>d, <2>1 DEF Readable, FileType
  <2> QED
    BY <2>2 DEF Metadata
<1>1. ASSUME NEW n \in Name, NEW p \in Pass, Create(n, p)
      PROVE  IInv'
  <2>1. /\ MayCall(n) /\ Begin("create", n, MasterKey(p, t), None, None)
        /\ UNCHANGED <<client, disk, wallets, walletIds, pendingOpen, pendingImport>>
    BY <1>1, <1>b DEF Create, service
  <2>2. MasterKey(p, t) \in Pass \X Stamp
    BY <1>c, <2>1 DEF MasterKey, Begin
  <2> QED
    BY <1>b, <2>1, <2>2, FirstHalfKeeps
<1>2. ASSUME NEW n \in Name, NEW p \in Pass, Delete(n, p)
      PROVE  IInv'
  <2>1. /\ MayCall(n) /\ NotUsed(n) /\ Readable(n)
        /\ Begin("delete", n, MasterKey(p, files[path[n]].meta.salt), None, files[path[n]].meta)
        /\ UNCHANGED <<client, disk, wallets, walletIds, pendingOpen, pendingImport>>
    BY <1>2 DEF Delete, DeletePrepare, service
  <2>2. files[path[n]].meta \in Metadata /\ MasterKey(p, files[path[n]].meta.salt) \in Pass \X Stamp
    BY <1>d, <2>1 DEF MasterKey
  <2> QED
    BY <1>b, <2>1, <2>2, FirstHalfKeeps
<1>3. ASSUME NEW n \in Name, NEW p \in Pass, NEW rekey \in Pass \cup {None}, Open(n, p, rekey)
      PROVE  IInv'
  <2> DEFINE other == IF rekey = None THEN None ELSE MasterKey(rekey, t)
             w == [name |-> n, file |-> path[n], meta |-> files[path[n]].meta, rekeySalt |-> t]
  <2>1. /\ MayCall(n) /\ NotUsed(n) /\ Readable(n)
        /\ Begin("open", n, MasterKey(p, files[path[n]].meta.salt), other, None)
        /\ pendingOpen' = With(pendingOpen, t, w)
        /\ UNCHANGED <<client, disk, wallets, walletIds, pendingImport>>
    BY <1>3, <1>b DEF Open, OpenPrepare
  <2>2. MasterKey(p, files[path[n]].meta.salt) \in Pass \X Stamp
    BY <1>d, <2>1 DEF MasterKey
  <2>3. /\ other \in (Pass \X Stamp) \cup {None}
        /\ other # None => \E pp \in Pass : other = MasterKey(pp, t)
    BY <1>c, <2>1 DEF MasterKey, Begin
  <2>4. /\ t \in DOMAIN pendingOpen' /\ pendingOpen'[t] = w
        /\ \A c \in DOMAIN pendingOpen \ {t} :
              c \in DOMAIN pendingOpen' /\ pendingOpen'[c] = pendingOpen[c]
    BY <2>1 DEF With
  <2> HIDE DEF other
  <2> QED
    BY <1>b, <2>1, <2>2, <2>3, <2>4, FirstHalfKeeps
<1>4. ASSUME NEW h \in DOMAIN wallets, NEW p \in Pass, Export(h, p)
      PROVE  IInv'
  <2>1. /\ MayCall(wallets[h].name)
        /\ Begin("export", wallets[h].name, MasterKey(p, t), None, h)
        /\ UNCHANGED <<client, disk, wallets, walletIds, pendingOpen, pendingImport>>
    BY <1>4, <1>b DEF Export, service
  <2>2. MasterKey(p, t) \in Pass \X Stamp
    BY <1>c, <2>1 DEF MasterKey, Begin
  <2>3. wallets[h].name \in Name /\ h \in DOMAIN calls
    BY DEF IInv, WalletsRight
  <2>4. h \in Nat
    BY <2>3, <1>a DEF Typed
  <2> QED
    BY <1>b, <2>1, <2>2, <2>3, <2>4, FirstHalfKeeps
<1>5. ASSUME NEW n \in Name, NEW p \in Pass, NEW importPass \in Pass, Import(n, p, importPass)
      PROVE  IInv'
  <2>1. /\ MayCall(n) /\ exported # None
        /\ Begin("import", n, MasterKey(p, t), MasterKey(importPass, exported.salt), None)
        /\ pendingImport' = With(pendingImport, t, exported)
        /\ UNCHANGED <<client, disk, wallets, walletIds, pendingOpen>>
    BY <1>5, <1>b DEF Import, ImportPrepare, Preparsed
  <2>2. exported \in ExportType /\ exported.salt \in Stamp
    BY <1>a, <2>1 DEF Typed, ExportType
  <2>3. /\ MasterKey(p, t) \in Pass \X Stamp
        /\ MasterKey(importPass, exported.salt) \in Pass \X Stamp
    BY <1>c, <2>1, <2>2 DEF MasterKey, Begin
  <2>4. /\ t \in DOMAIN pendingImport' /\ pendingImport'[t] = exported
        /\ \A c \in DOMAIN pendingImport \ {t} :
              c \in DOMAIN pendingImport' /\ pendingImport'[c] = pendingImport[c]
    BY <2>1 DEF With
  <2> QED
    BY <1>b, <2>1, <2>2, <2>3, <2>4, FirstHalfKeeps
<1> QED
  BY <1>1, <1>2, <1>3, <1>4, <1>5 DEF FirstHalf

----------------------------------------------------------------------------
(* Second halves *)

\* The tables of pending calls keep what the other calls under way need.
PendingKept(c) ==
    \A d \in Underway \ {c} :
        /\ d \in DOMAIN pendingOpen =>
              d \in DOMAIN pendingOpen' /\ pendingOpen'[d] = pendingOpen[d]
        /\ d \in DOMAIN pendingImport =>
              d \in DOMAIN pendingImport' /\ pendingImport'[d] = pendingImport[d]

\* No file is changed; one that is new and has no name may be there.
FilesKept ==
    /\ files' \in Seq(FileType)
    /\ Len(files') >= Len(files) /\ DOMAIN files \subseteq DOMAIN files'
    /\ \A g \in DOMAIN files : files'[g] = files[g]
    /\ \A g \in DOMAIN files' \ DOMAIN files : files'[g].meta # None
    /\ FilesRight'

\* A second half that changes no wallet keeps the invariant, whatever it answers.
LEMMA QuietAnswer ==
    ASSUME IInv, NEW c \in Underway, NEW st \in {"ok", "err", "nokey"}, Answer(c, st),
           FilesKept, UNCHANGED <<client, path, wallets, walletIds>>,
           exported' \in ExportType \cup {None},
           PendingKept(c)
    PROVE  IInv'
<1>1. /\ calls' \in Seq(OpCall \cup Ended) /\ Len(calls') = Len(calls)
      /\ DOMAIN calls' = DOMAIN calls
      /\ \A d \in DOMAIN calls \ {c} : calls'[d] = calls[d]
      /\ Underway' = Underway \ {c}
      /\ c \in DOMAIN calls /\ ~MayLeave(calls[c])
      /\ \A d \in DOMAIN calls : calls[d].st = "lost" => calls'[d].st = "lost"
  BY AnswerEffect DEF IInv
<1>2. /\ Stamp' = Stamp /\ Metadata' = Metadata /\ ItemsType' = ItemsType
      /\ FileType' = FileType /\ ExportType' = ExportType /\ OpCall' = OpCall
  BY TypesStay
<1>3. Typed'
  <2>1. Len(files) \in Nat /\ Len(files') \in Nat /\ path \in [Name -> 0 .. Len(files)]
    BY DEF IInv, Typed, FilesKept
  <2>2. path \in [Name -> 0 .. Len(files')]
    BY <2>1 DEF FilesKept
  <2> QED
    BY <1>1, <1>2, <2>2 DEF IInv, Typed, Ended, FilesKept
<1>4. WalletsRight'
  BY <1>1, <1>2 DEF IInv, WalletsRight, FilesKept
<1>5. FilesRight'
  BY DEF FilesKept
<1>6. \A d \in Underway' : d \in Underway /\ d # c /\ calls'[d] = calls[d]
  BY <1>1 DEF Underway
<1>7. CallsRight'
  BY <1>2, <1>6 DEF IInv, CallsRight, CallRight, PendingKept, FilesKept
<1>8. PathsApart'
  BY DEF IInv, PathsApart
<1>a. \A n \in Name : path[n] # 0 => path[n] \in DOMAIN files /\ files'[path[n]] = files[path[n]]
  BY DEF IInv, Typed, FilesKept
<1>9. Careful'
  <2>1. \A d \in Underway' : calls[d].op = "open" => pendingOpen'[d] = pendingOpen[d]
    BY <1>6 DEF IInv, CallsRight, CallRight, PendingKept
  <2>2. \A d \in Underway : calls[d].name \in Name
    BY UnderwayTyped
  <2>3. ASSUME NEW d \in Underway', StillAsRead(d) PROVE StillAsRead(d)'
    BY <1>6, <1>a, <2>1, <2>2, <2>3 DEF StillAsRead, Readable
  <2> QED
    BY <1>6, <2>3 DEF IInv, Careful
<1>10. OpenOnce'
  BY DEF IInv, OpenOnce
<1>11. SaltsEnded'
  BY <1>1, <1>a DEF IInv, SaltsEnded, Readable
<1>12. TornLost'
  BY <1>1 DEF IInv, TornLost, FilesKept
<1> QED
  BY <1>3, <1>4, <1>5, <1>7, <1>8, <1>9, <1>10, <1>11, <1>12 DEF IInv

\* So does one that makes a wallet, if a careful client is told of it or the
\* storage has failed.
LEMMA CreateAnswer ==
    ASSUME IInv, NEW c \in Underway, calls[c].op \in {"create", "import"},
           NEW items \in ItemsType,
           \A r \in Rec : items[r] # None => items[r].keys = c,
           CreateWallet(c, items),
           NEW st \in {"ok", "err"}, Answer(c, st),
           client.careful => st = "ok" \/ (calls[c].op = "import" /\ faults' # faults),
           UNCHANGED <<client, exported, wallets, walletIds>>,
           PendingKept(c)
    PROVE  IInv'
<1>1. /\ calls' \in Seq(OpCall \cup Ended) /\ Len(calls') = Len(calls)
      /\ DOMAIN calls' = DOMAIN calls
      /\ \A d \in DOMAIN calls \ {c} : calls'[d] = calls[d]
      /\ calls'[c].st = st /\ calls'[c].op = calls[c].op
      /\ calls'[c].failed = (faults' # faults)
      /\ Underway' = Underway \ {c}
      /\ c \in DOMAIN calls /\ calls[c] \in OpCall
      /\ ~MayLeave(calls[c])
      /\ \A d \in DOMAIN calls : calls[d].st = "lost" => calls'[d].st = "lost"
  BY AnswerEffect DEF IInv
<1>2. /\ Stamp' = Stamp /\ Metadata' = Metadata /\ ItemsType' = ItemsType
      /\ FileType' = FileType /\ ExportType' = ExportType /\ OpCall' = OpCall
  BY TypesStay
<1>n. PICK n : n = calls[c].name
  OBVIOUS
<1>m. PICK meta : meta = PrepareMetadata(calls[c].key, c, c)
  OBVIOUS
<1>3. n \in Name
  BY <1>1, <1>n DEF OpCall
<1>4. PICK p \in Pass : calls[c].key = MasterKey(p, c)
  BY DEF IInv, CallsRight, CallRight
<1>5. c \in Stamp
  BY <1>1, WalletAssumption DEF IInv, Typed, Stamp
<1>6. /\ meta \in Metadata /\ meta.under = MasterKey(p, c) /\ meta.salt = c /\ meta.keys = c
  BY <1>m, <1>4, <1>5 DEF PrepareMetadata, Metadata, MasterKey
<1>7. meta # None
  BY <1>6, NoneIsNoMetadata DEF IInv
<1>8. PICK f \in Nat : f = Len(files) + 1
  BY DEF IInv, Typed
<1>9. CreateStorage(n, meta, items)
  BY <1>n, <1>m DEF CreateWallet
<1>10. /\ files' \in Seq(FileType)
       /\ f \notin DOMAIN files /\ f # 0
       /\ DOMAIN files' = DOMAIN files \cup {f}
       /\ \A g \in DOMAIN files : files'[g] = files[g]
       /\ files'[f].meta = meta /\ files'[f].items = items
       /\ path' \in [Name -> 0 .. Len(files')]
       /\ path[n] = 0 /\ path'[n] = f
       /\ \A m \in Name \ {n} : path'[m] = path[m]
       /\ \A m \in Name : path[m] # f
  <2>1. Typed /\ meta \in Metadata \cup {None}
    BY <1>6 DEF IInv
  <2>2. Stored(n, meta, items, f)
    BY <1>3, <1>8, <1>9, <2>1, CreateStorageEffect
  <2> QED
    BY <2>2 DEF Stored
<1>11. Typed'
  BY <1>1, <1>2, <1>10 DEF IInv, Typed, Ended
<1>12. WalletsRight'
  BY <1>1, <1>2, <1>10 DEF IInv, WalletsRight
<1>13. FilesRight'
  <2>1. Restores(meta, MasterKey(p, meta.salt))
    BY <1>6 DEF Restores
  <2> QED
    BY <1>6, <1>7, <1>10, <2>1 DEF IInv, FilesRight
<1>14. \A d \in Underway' : d \in Underway /\ d # c /\ calls'[d] = calls[d]
  BY <1>1 DEF Underway
<1>15. CallsRight'
  BY <1>2, <1>10, <1>14 DEF IInv, CallsRight, CallRight, PendingKept
<1>16. PathsApart'
  BY <1>10 DEF IInv, PathsApart
<1>17. \A m \in Name : path[m] # 0 => m # n /\ path'[m] = path[m] /\ files'[path[m]] = files[path[m]]
  BY <1>10 DEF IInv, Typed
<1>18. Careful'
  <2> SUFFICES ASSUME client.careful
               PROVE  /\ \A d, e \in Underway' : calls'[d].name = calls'[e].name => d = e
                      /\ \A d \in Underway' : calls'[d].op \in {"open", "delete"} => StillAsRead(d)'
    BY DEF Careful
  <2>1. \A d \in Underway' : calls[d].op = "open" => pendingOpen'[d] = pendingOpen[d]
    BY <1>14 DEF IInv, CallsRight, CallRight, PendingKept
  <2>2. \A d \in Underway : calls[d].name \in Name
    BY UnderwayTyped
  <2>3. \A d \in Underway' : calls'[d].op \in {"open", "delete"} => StillAsRead(d)'
    BY <1>14, <1>17, <2>1, <2>2 DEF IInv, Careful, StillAsRead, Readable
  <2> QED
    BY <1>14, <2>3 DEF IInv, Careful
<1>19. OpenOnce'
  <2>1. \A h \in DOMAIN wallets : wallets[h].file \in DOMAIN files /\ wallets[h].name \in Name
    BY DEF IInv, WalletsRight
  <2>2. 0 \notin DOMAIN files
    BY DEF IInv, Typed
  <2> QED
    BY <1>17, <2>1, <2>2 DEF IInv, OpenOnce
<1>20. SaltsEnded'
  <2> SUFFICES ASSUME client.careful, NEW m \in Name, Readable(m)'
               PROVE  LET by == files'[path'[m]].meta.salt
                      IN  by = 0 \/ (by \in DOMAIN calls' /\ MayLeave(calls'[by]))
    BY DEF SaltsEnded
  <2>1. MayLeave(calls'[c])
    BY <1>1 DEF MayLeave
  <2>2. CASE m = n
    BY <1>1, <1>6, <1>10, <2>1, <2>2
  <2>3. CASE m # n
    <3>1. path'[m] = path[m] /\ path[m] # 0 /\ files'[path[m]] = files[path[m]] /\ Readable(m)
      BY <1>10, <1>17, <2>3 DEF Readable
    <3> QED
      BY <1>1, <3>1 DEF IInv, SaltsEnded
  <2> QED
    BY <2>2, <2>3
<1>21. TornLost'
  BY <1>1, <1>7, <1>10 DEF IInv, TornLost
<1> QED
  BY <1>11, <1>12, <1>13, <1>15, <1>16, <1>18, <1>19, <1>20, <1>21 DEF IInv

\* An import that is undone leaves a file without a name.
LEMMA UndoKeeps ==
    ASSUME IInv, NEW c \in Underway, calls[c].op = "import",
           NEW items \in ItemsType,
           \A r \in Rec : items[r] # None => items[r].keys = c,
           CreateAndUndo(c, items)
    PROVE  FilesKept
<1>1. PICK p \in Pass : calls[c].key = MasterKey(p, c)
  BY DEF IInv, CallsRight, CallRight
<1>2. c \in Stamp /\ files \in Seq(FileType)
  BY WalletAssumption DEF IInv, Typed, Stamp, Underway
<1>3. PICK meta : meta = PrepareMetadata(calls[c].key, c, c)
  OBVIOUS
<1>4. /\ meta \in Metadata /\ meta.under = MasterKey(p, c) /\ meta.salt = c /\ meta.keys = c
  BY <1>1, <1>2, <1>3 DEF PrepareMetadata, Metadata, MasterKey
<1>5. meta # None
  BY <1>4, NoneIsNoMetadata DEF IInv
<1>6. PICK file : file = [meta |-> meta, items |-> items]
  OBVIOUS
<1>7. file \in FileType /\ file.meta = meta /\ file.items = items
  BY <1>4, <1>6 DEF FileType
<1>8. files' = Append(files, file)
  BY <1>3, <1>6 DEF CreateAndUndo
<1>9. PICK f \in Nat : f = Len(files) + 1
  BY <1>2
<1>10. /\ files' \in Seq(FileType) /\ Len(files') >= Len(files)
       /\ DOMAIN files' = DOMAIN files \cup {f}
       /\ \A g \in DOMAIN files : files'[g] = files[g]
       /\ files'[f] = file
  BY <1>2, <1>7, <1>8, <1>9
<1>11. FilesRight'
  <2>1. Restores(meta, MasterKey(p, meta.salt))
    BY <1>4 DEF Restores
  <2> QED
    BY <1>4, <1>5, <1>7, <1>10, <2>1 DEF IInv, FilesRight
<1> QED
  BY <1>5, <1>7, <1>10, <1>11 DEF FilesKept

\* What opening call c does to the file it has opened: nothing, or a rotation
\* to a key that is derived from the salt drawn for it.
Rotated(c, f) ==
    /\ files' \in Seq(FileType) /\ Len(files') = Len(files) /\ DOMAIN files' = DOMAIN files
    /\ \A g \in DOMAIN files :
          /\ files'[g].items = files[g].items
          /\ files'[g].meta = None <=> files[g].meta = None
          /\ files[g].meta # None => files'[g].meta.keys = files[g].meta.keys
    /\ \A g \in DOMAIN files \ {f} : files'[g] = files[g]
    /\ \/ files' = files
       \/ files'[f].meta.salt = c /\ \E p \in Pass : files'[f].meta.under = MasterKey(p, c)

\* An opening that restores the keys does that, whether it ends or not.
LEMMA OpenRotates ==
    ASSUME IInv, NEW c \in Underway, calls[c].op = "open",
           NEW f \in DOMAIN files, f = pendingOpen[c].file,
           Rotate(pendingOpen[c], calls[c].other, pendingOpen[c].rekeySalt)
    PROVE  Rotated(c, f)
<1>1. Typed /\ CallRight(c)
  BY DEF IInv, CallsRight
<1>2. c \in Stamp
  BY <1>1, WalletAssumption DEF Typed, Stamp, Underway
<1>3. CASE calls[c].other = None
  BY <1>1, <1>3 DEF Rotate, Rotated, Typed
<1>4. CASE calls[c].other # None
  <2>1. PICK p \in Pass : calls[c].other = MasterKey(p, c)
    BY <1>1, <1>4 DEF CallRight
  <2>2. PICK meta : meta = PrepareMetadata(calls[c].other, c, pendingOpen[c].meta.keys)
    OBVIOUS
  <2>3. pendingOpen[c].meta.keys \in Stamp
    BY <1>1 DEF CallRight, Metadata
  <2>4. /\ meta \in Metadata /\ meta.under = MasterKey(p, c) /\ meta.salt = c
        /\ meta.keys = pendingOpen[c].meta.keys
    BY <1>2, <2>1, <2>2, <2>3 DEF PrepareMetadata, Metadata, MasterKey
  <2>5. meta # None
    BY <1>1, <2>4, NoneIsNoMetadata
  <2>6. files' = [files EXCEPT ![f].meta = meta]
    BY <1>1, <1>4, <2>2 DEF Rotate, CallRight
  <2>7. /\ files' \in Seq(FileType) /\ Len(files') = Len(files)
        /\ DOMAIN files' = DOMAIN files
        /\ \A g \in DOMAIN files : files'[g].items = files[g].items
        /\ \A g \in DOMAIN files \ {f} : files'[g] = files[g]
        /\ files'[f].meta = meta
    BY <1>1, <2>4, <2>6, RotateEffect
  <2>8. files[f].meta # None /\ pendingOpen[c].meta.keys = files[f].meta.keys
    BY <1>1 DEF CallRight
  <2> QED
    BY <2>4, <2>5, <2>7, <2>8 DEF Rotated
<1> QED
  BY <1>3, <1>4

\* A rotation leaves every file readable, and every open wallet its keys.
LEMMA RotatedReadable ==
    ASSUME IInv, NEW c, NEW f, Rotated(c, f)
    PROVE  FilesRight'
<1>1. ASSUME NEW g \in DOMAIN files, files'[g].meta # None
      PROVE  \E p \in Pass : Restores(files'[g].meta, MasterKey(p, files'[g].meta.salt))
  <2>1. CASE files'[g] = files[g]
    BY <1>1, <2>1 DEF IInv, FilesRight
  <2>2. CASE files'[g] # files[g]
    BY <1>1, <2>2 DEF Rotated, Restores
  <2> QED
    BY <2>1, <2>2
<1>2. ASSUME NEW g \in DOMAIN files, NEW r \in Rec, files'[g].items[r] # None
      PROVE  files'[g].meta # None /\ files'[g].items[r].keys = files'[g].meta.keys
  BY <1>2 DEF IInv, FilesRight, Rotated
<1>3. DOMAIN files' = DOMAIN files
  BY DEF Rotated
<1> QED
  BY <1>1, <1>2, <1>3 DEF FilesRight

\* A second half that opens a wallet keeps the invariant.
LEMMA OpenAnswer ==
    ASSUME IInv, NEW c \in Underway, calls[c].op = "open",
           Rotate(pendingOpen[c], calls[c].other, pendingOpen[c].rekeySalt),
           wallets' = With(wallets, c, [name |-> pendingOpen[c].name,
                                        file |-> pendingOpen[c].file,
                                        keys |-> pendingOpen[c].meta.keys]),
           walletIds' = walletIds \cup {pendingOpen[c].name},
           Answer(c, "ok"),
           UNCHANGED <<client, path, exported>>,
           PendingKept(c)
    PROVE  IInv'
<1>1. /\ calls' \in Seq(OpCall \cup Ended) /\ Len(calls') = Len(calls)
      /\ DOMAIN calls' = DOMAIN calls
      /\ \A d \in DOMAIN calls \ {c} : calls'[d] = calls[d]
      /\ calls'[c].st = "ok"
      /\ Underway' = Underway \ {c}
      /\ c \in DOMAIN calls /\ calls[c] \in OpCall
      /\ ~MayLeave(calls[c])
      /\ \A d \in DOMAIN calls : calls[d].st = "lost" => calls'[d].st = "lost"
  BY AnswerEffect DEF IInv
<1>2. /\ Stamp' = Stamp /\ Metadata' = Metadata /\ ItemsType' = ItemsType
      /\ FileType' = FileType /\ ExportType' = ExportType /\ OpCall' = OpCall
  BY TypesStay
<1>3. PICK n \in Name : n = calls[c].name
  BY <1>1 DEF OpCall
<1>4. CallRight(c)
  BY DEF IInv, CallsRight
<1>5. PICK f \in DOMAIN files : f = pendingOpen[c].file
  BY <1>4 DEF CallRight
<1>6. PICK keys \in Stamp : keys = pendingOpen[c].meta.keys
  BY <1>4 DEF CallRight, Metadata
<1>7. Rotated(c, f)
  BY <1>5, OpenRotates
<1>8. /\ DOMAIN wallets' = DOMAIN wallets \cup {c}
      /\ wallets'[c].name = n /\ wallets'[c].file = f /\ wallets'[c].keys = keys
      /\ \A h \in DOMAIN wallets \ {c} : wallets'[h] = wallets[h]
      /\ walletIds' = walletIds \cup {n}
  BY <1>3, <1>4, <1>5, <1>6 DEF With, CallRight
<1>9. c \notin DOMAIN wallets
  BY DEF IInv, WalletsRight
<1>10. files[f].meta # None /\ files[f].meta.keys = keys
  BY <1>4, <1>5, <1>6 DEF CallRight
<1>11. Typed'
  BY <1>1, <1>2, <1>7, <1>8 DEF IInv, Typed, Ended, Rotated
<1>12. WalletsRight'
  BY <1>1, <1>2, <1>7, <1>8, <1>9, <1>10 DEF IInv, WalletsRight, Rotated
<1>13. FilesRight'
  BY <1>7, RotatedReadable
<1>14. \A d \in Underway' : d \in Underway /\ d # c /\ calls'[d] = calls[d]
  BY <1>1 DEF Underway
<1>15. CallsRight'
  BY <1>2, <1>7, <1>14 DEF IInv, CallsRight, CallRight, PendingKept, Rotated
<1>16. PathsApart'
  BY DEF IInv, PathsApart
<1>17. ASSUME client.careful PROVE n \notin walletIds /\ path[n] = f /\ path[n] # 0
  BY <1>3, <1>5, <1>17 DEF IInv, Careful, StillAsRead, Readable
<1>18. ASSUME client.careful, NEW m \in Name, m # n, path[m] # 0
       PROVE  files'[path[m]] = files[path[m]]
  <2>1. path[m] \in DOMAIN files /\ path[m] # f
    BY <1>17, <1>18 DEF IInv, Typed, PathsApart
  <2> QED
    BY <1>7, <2>1 DEF Rotated
<1>19. Careful'
  <2> SUFFICES ASSUME client.careful
               PROVE  /\ \A d, e \in Underway' : calls'[d].name = calls'[e].name => d = e
                      /\ \A d \in Underway' : calls'[d].op \in {"open", "delete"} => StillAsRead(d)'
    BY DEF Careful
  <2>1. \A d \in Underway' : calls[d].op = "open" => pendingOpen'[d] = pendingOpen[d]
    BY <1>14 DEF IInv, CallsRight, CallRight, PendingKept
  <2>2. \A d \in Underway' : calls[d].name \in Name /\ calls[d].name # n
    BY <1>3, <1>14, UnderwayTyped DEF IInv, Careful
  <2>3. \A d \in Underway' : calls'[d].op \in {"open", "delete"} => StillAsRead(d)'
    BY <1>8, <1>14, <1>18, <2>1, <2>2 DEF IInv, Careful, StillAsRead, Readable
  <2> QED
    BY <1>14, <2>3 DEF IInv, Careful
<1>20. OpenOnce'
  <2> SUFFICES ASSUME client.careful
               PROVE  /\ \A h, i \in DOMAIN wallets' : wallets'[h].name = wallets'[i].name => h = i
                      /\ walletIds' = {wallets'[h].name : h \in DOMAIN wallets'}
                      /\ \A h \in DOMAIN wallets' : path'[wallets'[h].name] = wallets'[h].file
    BY DEF OpenOnce
  <2>1. /\ \A h, i \in DOMAIN wallets : wallets[h].name = wallets[i].name => h = i
        /\ walletIds = {wallets[h].name : h \in DOMAIN wallets}
        /\ \A h \in DOMAIN wallets : path[wallets[h].name] = wallets[h].file
    BY DEF IInv, OpenOnce
  <2> QED
    BY <1>8, <1>9, <1>17, <2>1
<1>21. SaltsEnded'
  <2> SUFFICES ASSUME client.careful, NEW m \in Name, Readable(m)'
               PROVE  LET by == files'[path'[m]].meta.salt
                      IN  by = 0 \/ (by \in DOMAIN calls' /\ MayLeave(calls'[by]))
    BY DEF SaltsEnded
  <2>1. path[m] \in DOMAIN files /\ path[m] # 0
    BY DEF IInv, Typed, Readable
  <2>2. Readable(m)
    BY <1>7, <2>1 DEF Readable, Rotated
  <2>3. MayLeave(calls'[c])
    BY <1>1 DEF MayLeave
  <2>4. CASE files'[path[m]] = files[path[m]]
    BY <1>1, <2>2, <2>4 DEF IInv, SaltsEnded
  <2>5. CASE files'[path[m]] # files[path[m]]
    BY <1>1, <1>7, <2>1, <2>3, <2>5 DEF Rotated
  <2> QED
    BY <2>4, <2>5
<1>22. TornLost'
  BY <1>1, <1>7 DEF IInv, TornLost, Rotated
<1> QED
  BY <1>11, <1>12, <1>13, <1>15, <1>16, <1>19, <1>20, <1>21, <1>22 DEF IInv

\* So does one that deletes a wallet.
LEMMA DeleteAnswer ==
    ASSUME IInv, NEW c \in Underway, calls[c].op = "delete",
           DeleteStorage(calls[c].name), Answer(c, "ok"),
           UNCHANGED <<client, wallets, walletIds>>,
           PendingKept(c)
    PROVE  IInv'
<1>1. /\ calls' \in Seq(OpCall \cup Ended) /\ Len(calls') = Len(calls)
      /\ DOMAIN calls' = DOMAIN calls
      /\ \A d \in DOMAIN calls \ {c} : calls'[d] = calls[d]
      /\ calls'[c].st = "ok"
      /\ Underway' = Underway \ {c}
      /\ c \in DOMAIN calls /\ calls[c] \in OpCall
      /\ ~MayLeave(calls[c])
      /\ \A d \in DOMAIN calls : calls[d].st = "lost" => calls'[d].st = "lost"
  BY AnswerEffect DEF IInv
<1>2. /\ Stamp' = Stamp /\ Metadata' = Metadata /\ ItemsType' = ItemsType
      /\ FileType' = FileType /\ ExportType' = ExportType /\ OpCall' = OpCall
  BY TypesStay
<1>3. PICK n \in Name : n = calls[c].name
  BY <1>1 DEF OpCall
<1>4. /\ files' = files /\ exported' = exported
      /\ path' = [path EXCEPT ![n] = 0]
  BY <1>3 DEF DeleteStorage
<1>5. Typed /\ path \in [Name -> 0 .. Len(files)] /\ Len(files) \in Nat
  BY DEF IInv, Typed
<1>6. path'[n] = 0 /\ \A m \in Name \ {n} : path'[m] = path[m]
  BY <1>4, <1>5
<1>7. Typed'
  <2>1. path' \in [Name -> 0 .. Len(files)]
    BY <1>4, <1>5
  <2> QED
    BY <1>1, <1>2, <1>4, <2>1 DEF IInv, Typed, Ended
<1>8. WalletsRight'
  BY <1>1, <1>2, <1>4 DEF IInv, WalletsRight
<1>9. FilesRight'
  BY <1>4 DEF IInv, FilesRight
<1>10. \A d \in Underway' : d \in Underway /\ d # c /\ calls'[d] = calls[d]
  BY <1>1 DEF Underway
<1>11. CallsRight'
  BY <1>2, <1>4, <1>10 DEF IInv, CallsRight, CallRight, PendingKept
<1>12. PathsApart'
  BY <1>6 DEF IInv, PathsApart
<1>13. Careful'
  <2> SUFFICES ASSUME client.careful
               PROVE  /\ \A d, e \in Underway' : calls'[d].name = calls'[e].name => d = e
                      /\ \A d \in Underway' : calls'[d].op \in {"open", "delete"} => StillAsRead(d)'
    BY DEF Careful
  <2>1. \A d \in Underway' : calls[d].op = "open" => pendingOpen'[d] = pendingOpen[d]
    BY <1>10 DEF IInv, CallsRight, CallRight, PendingKept
  <2>2. \A d \in Underway' : calls[d].name \in Name /\ calls[d].name # n
    BY <1>3, <1>10, UnderwayTyped DEF IInv, Careful
  <2>3. \A d \in Underway' : calls'[d].op \in {"open", "delete"} => StillAsRead(d)'
    BY <1>4, <1>6, <1>10, <2>1, <2>2 DEF IInv, Careful, StillAsRead, Readable
  <2> QED
    BY <1>10, <2>3 DEF IInv, Careful
<1>14. OpenOnce'
  <2> SUFFICES ASSUME client.careful
               PROVE  /\ \A h, i \in DOMAIN wallets : wallets[h].name = wallets[i].name => h = i
                      /\ walletIds = {wallets[h].name : h \in DOMAIN wallets}
                      /\ \A h \in DOMAIN wallets : path'[wallets[h].name] = wallets[h].file
    BY DEF OpenOnce
  <2>1. n \notin walletIds
    BY <1>3 DEF IInv, Careful, StillAsRead
  <2>2. \A h \in DOMAIN wallets : wallets[h].name \in Name \ {n}
    BY <2>1 DEF IInv, WalletsRight, OpenOnce
  <2> QED
    BY <1>6, <2>2 DEF IInv, OpenOnce
<1>15. SaltsEnded'
  BY <1>1, <1>4, <1>6 DEF IInv, SaltsEnded, Readable
<1>16. TornLost'
  BY <1>1, <1>4 DEF IInv, TornLost
<1> QED
  BY <1>7, <1>8, <1>9, <1>11, <1>12, <1>13, <1>14, <1>15, <1>16 DEF IInv

\* What an import adds is under the keys of the new wallet.
LEMMA ImportedType ==
    ASSUME IInv, NEW c \in Underway, c \in Stamp, calls[c].op = "import",
           NEW records, records = Imported(pendingImport[c], calls[c].other, c)
    PROVE  /\ NoItems \in ItemsType /\ \A r \in Rec : NoItems[r] # None => NoItems[r].keys = c
           /\ records \in ItemsType /\ \A r \in Rec : records[r] # None => records[r].keys = c
           /\ \A items \in SomeOf(records) :
                 items \in ItemsType /\ \A r \in Rec : items[r] # None => items[r].keys = c
<1>1. pendingImport[c].plain \in PlainType
  BY DEF IInv, CallsRight, CallRight, ExportType
<1>2. /\ Encrypt(pendingImport[c].plain, c) \in ItemsType
      /\ \A r \in Rec : Encrypt(pendingImport[c].plain, c)[r] # None =>
            Encrypt(pendingImport[c].plain, c)[r].keys = c
  BY <1>1, EncryptType
<1>3. records \in ItemsType /\ \A r \in Rec : records[r] # None => records[r].keys = c
  BY <1>2, NoItemsType DEF Imported
<1>4. ASSUME NEW items \in SomeOf(records)
      PROVE  items \in ItemsType /\ \A r \in Rec : items[r] # None => items[r].keys = c
  <2>1. PICK S \in SUBSET Rec : items = [r \in Rec |-> IF r \in S THEN records[r] ELSE None]
    BY DEF SomeOf
  <2> QED
    BY <1>3, <2>1 DEF ItemsType
<1> QED
  BY <1>3, <1>4, NoItemsType

\* What an export writes has the type of an exported file.
LEMMA ExportWritten ==
    ASSUME IInv, NEW c \in Underway, c \in Stamp, calls[c].arg \in DOMAIN wallets,
           NEW part \in {"all", "some", "none"}, WriteExport(c, part)
    PROVE  exported' \in ExportType \cup {None}
<1>1. files[wallets[calls[c].arg].file] \in FileType
  BY DEF IInv, WalletsRight, Typed
<1>2. Decrypt(files[wallets[calls[c].arg].file].items) \in PlainType
  BY <1>1, DecryptType DEF FileType
<1>3. calls[c].key \in Pass \X Stamp
  BY UnderwayTyped
<1> QED
  BY <1>2, <1>3 DEF WriteExport, ExportType

\* The second half of every call keeps the invariant.
LEMMA SecondHalfIInv ==
    ASSUME IInv, faults \in Nat, NEW c \in Underway,
           \/ DeriveFails(c)
           \/ CreateContinue(c) \/ OpenContinue(c) \/ DeleteContinue(c)
           \/ ExportContinue(c) \/ ImportContinue(c)
    PROVE  IInv'
<1>a. Typed /\ exported \in ExportType \cup {None}
  BY DEF IInv, Typed
<1>b. c \in Stamp
  BY <1>a, WalletAssumption DEF Typed, Stamp, Underway
<1>c. UNCHANGED <<pendingOpen, pendingImport>> => PendingKept(c)
  BY DEF PendingKept
<1>d. UNCHANGED <<client, files>> => FilesKept
  BY TypesStay DEF IInv, Typed, FilesRight, FilesKept
<1>1. CASE DeriveFails(c)
  <2>1. /\ Answer(c, "nokey") /\ UNCHANGED <<pendingOpen, pendingImport>>
        /\ UNCHANGED <<client, files, path, exported, wallets, walletIds>>
    BY <1>1 DEF DeriveFails, disk, service
  <2> QED
    BY <1>a, <1>c, <1>d, <2>1, QuietAnswer
<1>2. CASE CreateContinue(c)
  <2>1. /\ calls[c].op = "create" /\ PendingKept(c)
        /\ UNCHANGED <<client, wallets, walletIds>>
    BY <1>2, <1>c DEF CreateContinue, service
  <2>2. CASE CreateWallet(c, NoItems) /\ Answer(c, "ok") /\ UNCHANGED exported
    BY <2>1, <2>2, CreateAnswer, NoItemsType
  <2>3. CASE Answer(c, "err") /\ UNCHANGED disk
    <3>1. UNCHANGED <<files, path, exported>>
      BY <2>3 DEF disk
    <3> QED
      BY <1>a, <1>d, <2>1, <2>3, <3>1, QuietAnswer
  <2> QED
    BY <1>2, <2>2, <2>3 DEF CreateContinue
<1>3. CASE OpenContinue(c)
  <2>1. /\ calls[c].op = "open" /\ UNCHANGED <<client, path, exported, pendingImport>>
        /\ pendingOpen' = Without(pendingOpen, c)
    BY <1>3 DEF OpenContinue
  <2>2. PendingKept(c)
    BY <2>1 DEF PendingKept, Without, Restrict
  <2>3. CASE /\ Rotate(pendingOpen[c], calls[c].other, pendingOpen[c].rekeySalt)
             /\ wallets' = With(wallets, c, [name |-> pendingOpen[c].name,
                                             file |-> pendingOpen[c].file,
                                             keys |-> pendingOpen[c].meta.keys])
             /\ walletIds' = walletIds \cup {pendingOpen[c].name}
             /\ Answer(c, "ok")
    BY <2>1, <2>2, <2>3, OpenAnswer
  <2>4. CASE Answer(c, "err") /\ UNCHANGED <<files, wallets, walletIds>>
    BY <1>a, <1>d, <2>1, <2>2, <2>4, QuietAnswer
  <2> QED
    BY <1>3, <2>3, <2>4 DEF OpenContinue
<1>4. CASE DeleteContinue(c)
  <2>1. /\ calls[c].op = "delete" /\ PendingKept(c)
        /\ UNCHANGED <<client, wallets, walletIds>>
    BY <1>4, <1>c DEF DeleteContinue, service
  <2>2. CASE DeleteStorage(calls[c].name) /\ Answer(c, "ok")
    BY <2>1, <2>2, DeleteAnswer
  <2>3. CASE Answer(c, "err") /\ UNCHANGED disk
    <3>1. UNCHANGED <<files, path, exported>>
      BY <2>3 DEF disk
    <3> QED
      BY <1>a, <1>d, <2>1, <2>3, <3>1, QuietAnswer
  <2> QED
    BY <1>4, <2>2, <2>3 DEF DeleteContinue
<1>5. CASE ExportContinue(c)
  <2>1. /\ calls[c].op = "export" /\ PendingKept(c)
        /\ UNCHANGED <<client, files, path, wallets, walletIds>>
    BY <1>5, <1>c DEF ExportContinue, service
  <2>2. ASSUME calls[c].arg \in DOMAIN wallets, NEW part \in {"all", "some", "none"},
               WriteExport(c, part)
        PROVE  exported' \in ExportType \cup {None}
    BY <1>b, <2>2, ExportWritten
  <2>3. \E st \in {"ok", "err"} : Answer(c, st) /\ exported' \in ExportType \cup {None}
    BY <1>5, <1>a, <2>2 DEF ExportContinue
  <2> QED
    BY <1>d, <2>1, <2>3, QuietAnswer
<1>6. CASE ImportContinue(c)
  <2>1. /\ calls[c].op = "import" /\ UNCHANGED <<client, exported, wallets, walletIds, pendingOpen>>
        /\ pendingImport' = Without(pendingImport, c)
    BY <1>6 DEF ImportContinue
  <2>2. PendingKept(c)
    BY <2>1 DEF PendingKept, Without, Restrict
  <2>3. CASE Answer(c, "err") /\ UNCHANGED <<files, path>>
    BY <1>a, <1>d, <2>1, <2>2, <2>3, QuietAnswer
  <2>4. PICK records : records = Imported(pendingImport[c], calls[c].other, c)
    OBVIOUS
  <2>5. /\ NoItems \in ItemsType /\ \A r \in Rec : NoItems[r] # None => NoItems[r].keys = c
        /\ records \in ItemsType /\ \A r \in Rec : records[r] # None => records[r].keys = c
        /\ \A items \in SomeOf(records) :
              items \in ItemsType /\ \A r \in Rec : items[r] # None => items[r].keys = c
    BY <1>b, <2>1, <2>4, ImportedType
  <2>7. CASE CreateWallet(c, records) /\ Answer(c, "ok")
    BY <2>1, <2>2, <2>5, <2>7, CreateAnswer
  <2>8. ASSUME NEW items \in SomeOf(records), CreateAndUndo(c, items), Answer(c, "err")
        PROVE  IInv'
    <3>1. FilesKept
      BY <2>1, <2>5, <2>8, UndoKeeps
    <3>2. UNCHANGED path
      BY <2>8 DEF CreateAndUndo
    <3> QED
      BY <1>a, <2>1, <2>2, <2>8, <3>1, <3>2, QuietAnswer
  <2>9. ASSUME NEW items \in SomeOf(records), CreateWallet(c, items), Fails, Answer(c, "err")
        PROVE  IInv'
    <3>1. faults' # faults
      BY <2>9 DEF Fails
    <3> QED
      BY <2>1, <2>2, <2>5, <2>9, <3>1, CreateAnswer
  <2>6. CASE ~NotUsed(calls[c].name) /\ CreateWallet(c, NoItems) /\ Answer(c, "err")
    <3>1. ~client.careful
      <4>1. path[calls[c].name] = 0
        BY <2>6 DEF CreateWallet, CreateStorage
      <4>2. ASSUME client.careful PROVE FALSE
        <5>1. PICK h \in DOMAIN wallets : wallets[h].name = calls[c].name
          BY <2>6, <4>2 DEF IInv, OpenOnce, NotUsed
        <5>2. path[calls[c].name] = wallets[h].file
          BY <4>2, <5>1 DEF IInv, OpenOnce
        <5> QED
          BY <1>a, <4>1, <5>2 DEF IInv, WalletsRight, Typed
      <4> QED
        BY <4>2
    <3> QED
      BY <2>1, <2>2, <2>6, <3>1, CreateAnswer, NoItemsType
  <2> QED
    BY <1>6, <2>3, <2>4, <2>6, <2>7, <2>8, <2>9 DEF ImportContinue
<1> QED
  BY <1>1, <1>2, <1>3, <1>4, <1>5, <1>6

----------------------------------------------------------------------------
(* Closing, records, and the death of the process *)

\* Closing a wallet keeps the invariant.
LEMMA CloseIInv ==
    ASSUME IInv, NEW h \in DOMAIN wallets, Close(h)
    PROVE  IInv'
<1>1. /\ UNCHANGED <<client, files, path, exported, pendingOpen, pendingImport, calls>>
      /\ walletIds' = walletIds \ {wallets[h].name}
      /\ DOMAIN wallets' = DOMAIN wallets \ {h}
      /\ \A i \in DOMAIN wallets \ {h} : wallets'[i] = wallets[i]
  BY DEF Close, Without, Restrict, disk
<1>2. /\ Stamp' = Stamp /\ Metadata' = Metadata /\ ItemsType' = ItemsType
      /\ FileType' = FileType /\ ExportType' = ExportType /\ OpCall' = OpCall
  BY <1>1, TypesStay
<1>3. Underway' = Underway
  BY <1>1 DEF Underway
<1>4. Typed'
  BY <1>1, <1>2 DEF IInv, Typed, Ended
<1>5. WalletsRight'
  BY <1>1, <1>2, <1>3 DEF IInv, WalletsRight
<1>6. FilesRight' /\ PathsApart'
  BY <1>1 DEF IInv, FilesRight, PathsApart
<1>7. CallsRight'
  BY <1>1, <1>2, <1>3 DEF IInv, CallsRight, CallRight
<1>8. Careful'
  BY <1>1, <1>3 DEF IInv, Careful, StillAsRead, Readable
<1>9. OpenOnce'
  <2> SUFFICES ASSUME client.careful
               PROVE  /\ \A g, i \in DOMAIN wallets' : wallets'[g].name = wallets'[i].name => g = i
                      /\ walletIds' = {wallets'[g].name : g \in DOMAIN wallets'}
                      /\ \A g \in DOMAIN wallets' : path'[wallets'[g].name] = wallets'[g].file
    BY <1>1 DEF OpenOnce
  <2>1. /\ \A g, i \in DOMAIN wallets : wallets[g].name = wallets[i].name => g = i
        /\ walletIds = {wallets[g].name : g \in DOMAIN wallets}
        /\ \A g \in DOMAIN wallets : path[wallets[g].name] = wallets[g].file
    BY DEF IInv, OpenOnce
  <2> QED
    BY <1>1, <2>1
<1>10. SaltsEnded' /\ TornLost'
  BY <1>1 DEF IInv, SaltsEnded, Readable, TornLost
<1> QED
  BY <1>4, <1>5, <1>6, <1>7, <1>8, <1>9, <1>10 DEF IInv

\* So does writing or deleting a record of an open wallet.
LEMMA PutIInv ==
    ASSUME IInv, NEW h \in DOMAIN wallets, NEW r \in Rec,
           NEW item \in [val : Val, keys : Stamp] \cup {None},
           item # None => item.keys = wallets[h].keys,
           Put(h, r, item)
    PROVE  IInv'
<1>1. UNCHANGED <<client, path, exported, wallets, walletIds, pendingOpen, pendingImport, calls>>
  BY DEF Put, service
<1>2. PICK f \in DOMAIN files : f = wallets[h].file
  BY DEF IInv, WalletsRight
<1>3. files \in Seq(FileType) /\ files[f] \in FileType
  BY DEF IInv, Typed
<1>4. PICK items : items = [files[f].items EXCEPT ![r] = item]
  OBVIOUS
<1>5. items \in ItemsType /\ items[r] = item /\ \A s \in Rec \ {r} : items[s] = files[f].items[s]
  BY <1>3, <1>4 DEF FileType, ItemsType
<1>6. PICK file : file = [files[f] EXCEPT !.items = items]
  OBVIOUS
<1>7. file \in FileType /\ file.meta = files[f].meta /\ file.items = items
  BY <1>3, <1>5, <1>6 DEF FileType
<1>8. files' = [files EXCEPT ![f] = file]
  BY <1>2, <1>4, <1>6 DEF Put
<1>9. /\ files' \in Seq(FileType) /\ Len(files') = Len(files) /\ DOMAIN files' = DOMAIN files
      /\ \A g \in DOMAIN files \ {f} : files'[g] = files[g]
      /\ files'[f] = file
  BY <1>3, <1>7, <1>8, ExceptSeq
<1>10. \A g \in DOMAIN files : files'[g].meta = files[g].meta
  BY <1>7, <1>9
<1>11. /\ Stamp' = Stamp /\ Metadata' = Metadata /\ ItemsType' = ItemsType
       /\ FileType' = FileType /\ ExportType' = ExportType /\ OpCall' = OpCall
  BY <1>1, TypesStay
<1>12. Underway' = Underway
  BY <1>1 DEF Underway
<1>13. Typed'
  BY <1>1, <1>9, <1>11 DEF IInv, Typed, Ended
<1>14. WalletsRight'
  BY <1>1, <1>9, <1>10, <1>11, <1>12 DEF IInv, WalletsRight
<1>15. FilesRight'
  <2>1. \A g \in DOMAIN files : files'[g].meta # None =>
           \E p \in Pass : Restores(files'[g].meta, MasterKey(p, files'[g].meta.salt))
    BY <1>10 DEF IInv, FilesRight
  <2>2. files[f].meta # None /\ wallets[h].keys = files[f].meta.keys
    BY <1>2 DEF IInv, WalletsRight
  <2>3. \A g \in DOMAIN files, s \in Rec : files'[g].items[s] # None =>
           files'[g].meta # None /\ files'[g].items[s].keys = files'[g].meta.keys
    BY <1>5, <1>7, <1>9, <2>2 DEF IInv, FilesRight
  <2> QED
    BY <1>9, <2>1, <2>3 DEF FilesRight
<1>16. CallsRight'
  BY <1>1, <1>9, <1>10, <1>11, <1>12 DEF IInv, CallsRight, CallRight
<1>17. \A n \in Name : path[n] # 0 => path[n] \in DOMAIN files
  BY DEF IInv, Typed
<1>18. \A c \in Underway : calls[c].name \in Name
  BY UnderwayTyped
<1>19. Careful'
  BY <1>1, <1>10, <1>12, <1>17, <1>18 DEF IInv, Careful, StillAsRead, Readable
<1>20. PathsApart' /\ OpenOnce'
  BY <1>1 DEF IInv, PathsApart, OpenOnce
<1>21. SaltsEnded'
  BY <1>1, <1>10, <1>17 DEF IInv, SaltsEnded, Readable
<1>22. TornLost'
  BY <1>1, <1>9, <1>10 DEF IInv, TornLost
<1> QED
  BY <1>13, <1>14, <1>15, <1>16, <1>19, <1>20, <1>21, <1>22 DEF IInv

\* So does what happens at once.
LEMMA AtOnceIInv ==
    ASSUME IInv, AtOnce
    PROVE  IInv'
<1> SUFFICES ASSUME NEW h \in DOMAIN wallets,
                    \/ Close(h)
                    \/ \E r \in Rec : DeleteRecord(h, r)
                    \/ \E r \in Rec, v \in Val : AddRecord(h, r, v) \/ UpdateRecordValue(h, r, v)
             PROVE  IInv'
  BY DEF AtOnce
<1>1. CASE Close(h)
  BY <1>1, CloseIInv
<1>2. ASSUME NEW r \in Rec, DeleteRecord(h, r) PROVE IInv'
  BY <1>2, PutIInv DEF DeleteRecord
<1>3. ASSUME NEW r \in Rec, NEW v \in Val, AddRecord(h, r, v) \/ UpdateRecordValue(h, r, v)
      PROVE  IInv'
  <2>1. PICK item : item = Item(h, v)
    OBVIOUS
  <2>2. item \in [val : Val, keys : Stamp] /\ item.keys = wallets[h].keys
    BY <2>1 DEF Item, IInv, WalletsRight
  <2>3. Put(h, r, item)
    BY <1>3, <2>1 DEF AddRecord, UpdateRecordValue
  <2> QED
    BY <2>2, <2>3, PutIInv
<1> QED
  BY <1>1, <1>2, <1>3

\* So does a death of the process, wherever a second half is cut short.
LEMMA CrashIInv ==
    ASSUME IInv, Crash
    PROVE  IInv'
<1>a. Typed
  BY DEF IInv
<1>1. /\ UNCHANGED client
      /\ calls' = [c \in DOMAIN calls |-> IF c \in Underway THEN Outcome(c, "lost") ELSE calls[c]]
      /\ DOMAIN wallets' = {} /\ walletIds' = {}
  BY DEF Crash, Nothing
<1>2. /\ Stamp' = Stamp /\ Metadata' = Metadata /\ ItemsType' = ItemsType
      /\ FileType' = FileType /\ ExportType' = ExportType /\ OpCall' = OpCall
  BY <1>1, TypesStay
<1>3. /\ calls' \in Seq(OpCall \cup Ended) /\ Len(calls') = Len(calls)
      /\ DOMAIN calls' = DOMAIN calls
      /\ \A c \in DOMAIN calls \ Underway : calls'[c] = calls[c]
      /\ \A c \in Underway : c \in DOMAIN calls /\ calls'[c].st = "lost"
  <2>1. calls \in Seq(OpCall \cup Ended) /\ Len(calls) \in Nat /\ DOMAIN calls = 1 .. Len(calls)
    BY <1>a DEF Typed
  <2>6. ASSUME NEW c \in Underway
        PROVE  c \in DOMAIN calls /\ calls'[c] \in Ended /\ calls'[c].st = "lost"
    <3>1. c \in DOMAIN calls /\ calls[c] \in OpCall
      BY <2>1 DEF Underway, Ended
    <3> QED
      BY <1>1, <3>1 DEF Ended, Outcome, OpCall
  <2>7. \A c \in DOMAIN calls \ Underway : calls'[c] = calls[c]
    BY <1>1
  <2>2. \A c \in DOMAIN calls : calls'[c] \in OpCall \cup Ended
    BY <2>1, <2>6, <2>7
  <2>3. calls' \in [1 .. Len(calls) -> OpCall \cup Ended]
    BY <1>1, <2>1, <2>2
  <2>4. calls' \in Seq(OpCall \cup Ended)
    BY <2>1, <2>3
  <2>5. Len(calls') = Len(calls)
    BY <2>1, <2>3, <2>4
  <2> QED
    BY <1>1, <2>4, <2>5, <2>6, <2>7
<1>4. Underway' = {} /\ \A c \in Underway : MayLeave(calls'[c])
  BY <1>3 DEF Underway, MayLeave
<1>5. /\ WalletsRight' /\ CallsRight' /\ Careful' /\ OpenOnce'
  BY <1>1, <1>4 DEF WalletsRight, CallsRight, Careful, OpenOnce
<1>6. ASSUME NEW by, by \in DOMAIN calls, MayLeave(calls[by])
      PROVE  by \in DOMAIN calls' /\ MayLeave(calls'[by])
  BY <1>3, <1>4, <1>6
<1>t. /\ \A c \in DOMAIN calls : calls[c].st = "lost" => calls'[c].st = "lost"
      /\ Underway # {} => \E c \in DOMAIN calls' : calls'[c].st = "lost"
  BY <1>3
<1>7. SUFFICES /\ files' \in Seq(FileType) /\ path' \in [Name -> 0 .. Len(files')]
               /\ exported' \in ExportType \cup {None}
               /\ FilesRight' /\ PathsApart' /\ SaltsEnded' /\ TornLost'
  BY <1>1, <1>2, <1>3, <1>5, <1>a DEF IInv, Typed, Ended
<1>8. CASE UNCHANGED <<files, path>> /\ exported' \in ExportType \cup {None}
  <2>1. FilesRight' /\ PathsApart'
    BY <1>8 DEF IInv, FilesRight, PathsApart
  <2>3. TornLost'
    BY <1>3, <1>8, <1>t DEF IInv, TornLost
  <2>2. SaltsEnded'
    BY <1>1, <1>3, <1>6, <1>8 DEF IInv, SaltsEnded, Readable
  <2> QED
    BY <1>8, <1>a, <2>1, <2>2, <2>3 DEF Typed
<1>9. ASSUME NEW c \in Underway, CutShort(c)
      PROVE  /\ files' \in Seq(FileType) /\ path' \in [Name -> 0 .. Len(files')]
             /\ exported' \in ExportType \cup {None}
             /\ FilesRight' /\ PathsApart' /\ SaltsEnded' /\ TornLost'
  <2>1. c \in Stamp /\ c \in DOMAIN calls /\ calls[c] \in OpCall
    BY <1>a, WalletAssumption DEF Typed, Stamp, Underway, Ended
  <2>2. CallRight(c)
    BY DEF IInv, CallsRight
  <2>3. PICK n \in Name : n = calls[c].name
    BY <2>1 DEF OpCall
  <2>t. TornLost'
    BY <1>t DEF TornLost
  <2>4. ASSUME calls[c].op \in {"create", "import"},
               NEW meta \in {None, PrepareMetadata(calls[c].key, c, c)},
               NEW items \in ItemsType,
               \A r \in Rec : items[r] # None => meta # None /\ items[r].keys = c,
               CreateStorage(n, meta, items)
        PROVE  /\ files' \in Seq(FileType) /\ path' \in [Name -> 0 .. Len(files')]
               /\ FilesRight' /\ PathsApart' /\ SaltsEnded'
    <3>1. PICK p \in Pass : calls[c].key = MasterKey(p, c)
      BY <2>2, <2>4 DEF CallRight
    <3>2. /\ meta \in Metadata \cup {None}
          /\ meta # None => meta.under = MasterKey(p, c) /\ meta.salt = c /\ meta.keys = c
      BY <2>1, <2>4, <3>1 DEF PrepareMetadata, Metadata, MasterKey
    <3>3. PICK f \in Nat : f = Len(files) + 1
      BY <1>a DEF Typed
    <3>4. Stored(n, meta, items, f)
      BY <1>a, <2>4, <3>2, <3>3, CreateStorageEffect
    <3>5. FilesRight'
      <4>1. meta # None => Restores(meta, MasterKey(p, meta.salt))
        BY <3>2 DEF Restores
      <4> QED
        BY <2>4, <3>2, <3>4, <4>1 DEF IInv, FilesRight, Stored
    <3>6. PathsApart'
      BY <3>4 DEF IInv, PathsApart, Stored
    <3>7. SaltsEnded'
      <4> SUFFICES ASSUME client.careful, NEW m \in Name, Readable(m)'
                   PROVE  LET by == files'[path'[m]].meta.salt
                          IN  by = 0 \/ (by \in DOMAIN calls' /\ MayLeave(calls'[by]))
        BY <1>1 DEF SaltsEnded
      <4>1. CASE m = n
        BY <1>3, <1>4, <2>1, <3>2, <3>4, <4>1 DEF Stored, Readable
      <4>2. CASE m # n
        <5>1. /\ path'[m] = path[m] /\ path[m] # 0 /\ path[m] \in DOMAIN files
          BY <1>a, <3>4, <4>2 DEF Stored, Readable, Typed
        <5>2. files'[path[m]] = files[path[m]] /\ Readable(m)
          BY <3>4, <5>1 DEF Stored, Readable
        <5> QED
          BY <1>6, <5>1, <5>2 DEF IInv, SaltsEnded
      <4> QED
        BY <4>1, <4>2
    <3> QED
      BY <3>4, <3>5, <3>6, <3>7 DEF Stored
  <2>5. ASSUME calls[c].op = "open",
               Rotate(pendingOpen[c], calls[c].other, pendingOpen[c].rekeySalt), UNCHANGED path
        PROVE  /\ files' \in Seq(FileType) /\ path' \in [Name -> 0 .. Len(files')]
               /\ FilesRight' /\ PathsApart' /\ SaltsEnded'
    <3>1. PICK f \in DOMAIN files : f = pendingOpen[c].file
      BY <2>2, <2>5 DEF CallRight
    <3>2. Rotated(c, f)
      BY <2>5, <3>1, OpenRotates
    <3>3. FilesRight'
      BY <3>2, RotatedReadable
    <3>4. PathsApart'
      BY <2>5 DEF IInv, PathsApart
    <3>5. SaltsEnded'
      <4> SUFFICES ASSUME client.careful, NEW m \in Name, Readable(m)'
                   PROVE  LET by == files'[path'[m]].meta.salt
                          IN  by = 0 \/ (by \in DOMAIN calls' /\ MayLeave(calls'[by]))
        BY <1>1 DEF SaltsEnded
      <4>1. path[m] \in DOMAIN files /\ path[m] # 0
        BY <1>a, <2>5 DEF Typed, Readable
      <4>2. Readable(m)
        BY <2>5, <3>2, <4>1 DEF Readable, Rotated
      <4>3. CASE files'[path[m]] = files[path[m]]
        BY <1>6, <2>5, <4>2, <4>3 DEF IInv, SaltsEnded
      <4>4. CASE files'[path[m]] # files[path[m]]
        BY <1>3, <1>4, <2>5, <3>2, <4>1, <4>4 DEF Rotated
      <4> QED
        BY <4>3, <4>4
    <3> QED
      BY <1>a, <2>5, <3>2, <3>3, <3>4, <3>5 DEF Rotated, Typed
  <2>6. CASE /\ calls[c].op \in {"create", "import"} /\ UNCHANGED exported
             /\ \E meta \in {None, PrepareMetadata(calls[c].key, c, c)} :
                   CreateStorage(calls[c].name, meta, NoItems)
    BY <1>a, <2>3, <2>4, <2>6, <2>t, NoItemsType DEF Typed
  <2>7. CASE /\ calls[c].op = "import" /\ UNCHANGED exported
             /\ \E items \in SomeOf(Imported(pendingImport[c], calls[c].other, c)) :
                   CreateWallet(c, items)
    <3>1. PICK records : records = Imported(pendingImport[c], calls[c].other, c)
      OBVIOUS
    <3>2. PICK items \in SomeOf(records) : CreateWallet(c, items)
      BY <2>7, <3>1
    <3>3. items \in ItemsType /\ \A r \in Rec : items[r] # None => items[r].keys = c
      BY <2>1, <2>7, <3>1, <3>2, ImportedType
    <3>4. PICK meta : meta = PrepareMetadata(calls[c].key, c, c)
      OBVIOUS
    <3>5. calls[c].key \in Pass \X Stamp
      BY <2>1 DEF OpCall
    <3>6. meta # None
      BY <1>a, <2>1, <3>4, <3>5, NoneIsNoMetadata DEF PrepareMetadata, Metadata
    <3>7. CreateStorage(n, meta, items)
      BY <2>3, <3>2, <3>4 DEF CreateWallet
    <3> QED
      BY <1>a, <2>4, <2>7, <2>t, <3>3, <3>4, <3>6, <3>7 DEF Typed
  <2>8. CASE /\ calls[c].op = "open" /\ UNCHANGED <<path, exported>>
             /\ Rotate(pendingOpen[c], calls[c].other, pendingOpen[c].rekeySalt)
    BY <1>a, <2>5, <2>8, <2>t DEF Typed
  <2>9. CASE /\ calls[c].op = "export" /\ calls[c].arg \in DOMAIN wallets
             /\ \E part \in {"all", "some", "none"} : WriteExport(c, part)
             /\ UNCHANGED <<files, path>>
    BY <1>8, <2>1, <2>9, ExportWritten
  <2> QED
    BY <1>9, <2>6, <2>7, <2>8, <2>9 DEF CutShort
<1> QED
  BY <1>8, <1>9, <1>a DEF Crash, disk, Typed

----------------------------------------------------------------------------
(* The theorems *)

\* The invariant holds when an earlier process has made a wallet.
LEMMA InitIInv == Init => IInv
<1> SUFFICES ASSUME Init PROVE IInv
  OBVIOUS
<1>1. PICK n \in Name, p \in Pass, plain \in [Rec -> Val] :
          /\ files = <<[meta |-> PrepareMetadata(MasterKey(p, 0), 0, 0),
                        items |-> Encrypt(plain, 0)]>>
          /\ path = [m \in Name |-> IF m = n THEN 1 ELSE 0]
          /\ exported \in {None, [under |-> MasterKey(p, 0), salt |-> 0, part |-> "all",
                                  plain |-> plain]}
  BY DEF Init
<1>2. /\ client \in Clients /\ client.calls \in Nat /\ 0 \in Stamp
      /\ DOMAIN wallets = {} /\ walletIds = {} /\ calls = <<>>
  BY WalletAssumption DEF Init, Nothing, Stamp
<1>3. plain \in PlainType
  BY DEF PlainType
<1>4. /\ Encrypt(plain, 0) \in ItemsType
      /\ \A r \in Rec : Encrypt(plain, 0)[r] # None => Encrypt(plain, 0)[r].keys = 0
  BY <1>2, <1>3, EncryptType
<1>5. PICK meta : meta = PrepareMetadata(MasterKey(p, 0), 0, 0)
  OBVIOUS
<1>6. meta \in Metadata /\ meta.under = MasterKey(p, 0) /\ meta.salt = 0 /\ meta.keys = 0
  BY <1>2, <1>5 DEF PrepareMetadata, MasterKey, Metadata
<1>7. PICK file : file = [meta |-> meta, items |-> Encrypt(plain, 0)]
  OBVIOUS
<1>8. file \in FileType /\ file.meta = meta /\ file.items = Encrypt(plain, 0)
  BY <1>4, <1>6, <1>7 DEF FileType
<1>9. files = <<file>>
  BY <1>1, <1>5, <1>7
<1>10. files \in Seq(FileType) /\ Len(files) = 1 /\ DOMAIN files = {1} /\ files[1] = file
  BY <1>8, <1>9
<1>11. Underway = {}
  BY <1>2 DEF Underway
<1>12. Typed
  <2>1. path \in [Name -> 0 .. 1]
    BY <1>1
  <2>2. exported \in ExportType \cup {None}
    BY <1>1, <1>2, <1>3 DEF ExportType, MasterKey
  <2> QED
    BY <1>2, <1>10, <2>1, <2>2 DEF Typed
<1>13. meta # None
  BY <1>6, <1>12, NoneIsNoMetadata
<1>14. FilesRight
  <2>1. Restores(meta, MasterKey(p, meta.salt))
    BY <1>6 DEF Restores
  <2> QED
    BY <1>4, <1>6, <1>8, <1>10, <1>13, <2>1 DEF FilesRight
<1>15. WalletsRight /\ CallsRight /\ Careful /\ OpenOnce
  BY <1>2, <1>11 DEF WalletsRight, CallsRight, Careful, OpenOnce
<1>16. PathsApart
  BY <1>1 DEF PathsApart
<1>17. SaltsEnded
  BY <1>1, <1>6, <1>8, <1>10 DEF SaltsEnded, Readable
<1>18. TornLost
  BY <1>8, <1>10, <1>13 DEF TornLost
<1> QED
  BY <1>12, <1>14, <1>15, <1>16, <1>17, <1>18 DEF IInv

\* Every step keeps it.
LEMMA NextIInv == IInv /\ Counted /\ [Next]_vars => IInv'
<1> SUFFICES ASSUME IInv, faults \in Nat, [Next]_vars PROVE IInv'
  BY DEF Counted
<1>1. CASE FirstHalf
  BY <1>1, FirstHalfIInv
<1>2. CASE SecondHalf
  BY <1>2, SecondHalfIInv DEF SecondHalf
<1>3. CASE AtOnce
  BY <1>3, AtOnceIInv
<1>4. CASE Crash
  BY <1>4, CrashIInv
<1>5. CASE UNCHANGED vars
  <2>1. /\ UNCHANGED <<client, files, path, exported, wallets, walletIds, pendingOpen,
                       pendingImport, calls>>
    BY <1>5 DEF vars, disk, service
  <2>2. /\ Stamp' = Stamp /\ Metadata' = Metadata /\ ItemsType' = ItemsType
        /\ FileType' = FileType /\ ExportType' = ExportType /\ OpCall' = OpCall
    BY <2>1, TypesStay
  <2>3. Underway' = Underway
    BY <2>1 DEF Underway
  <2>4. Typed' /\ WalletsRight' /\ FilesRight' /\ PathsApart'
    BY <2>1, <2>2, <2>3 DEF IInv, Typed, Ended, WalletsRight, FilesRight, PathsApart
  <2>5. CallsRight'
    BY <2>1, <2>2, <2>3 DEF IInv, CallsRight, CallRight
  <2>6. Careful' /\ OpenOnce' /\ SaltsEnded' /\ TornLost'
    BY <2>1, <2>3 DEF IInv, Careful, StillAsRead, Readable, OpenOnce, SaltsEnded, TornLost
  <2> QED
    BY <2>4, <2>5, <2>6 DEF IInv
<1> QED
  BY <1>1, <1>2, <1>3, <1>4, <1>5 DEF Next

\* Every step counts what fails.
LEMMA NextCounts == Counted /\ [Next]_vars => Counted'
<1> SUFFICES ASSUME faults \in Nat, [Next]_vars PROVE faults' = faults \/ Fails
  BY DEF Fails, Counted
<1>1. CASE FirstHalf
  BY <1>1 DEF FirstHalf, Create, Delete, Open, Export, Import
<1>2. ASSUME NEW c \in Underway,
             \/ DeriveFails(c)
             \/ CreateContinue(c) \/ OpenContinue(c) \/ DeleteContinue(c)
             \/ ExportContinue(c) \/ ImportContinue(c)
      PROVE  faults' = faults \/ Fails
  BY <1>2 DEF DeriveFails, CreateContinue, OpenContinue, DeleteContinue, ExportContinue,
              ImportContinue, Works
<1>3. CASE AtOnce
  BY <1>3 DEF AtOnce, Close, AddRecord, UpdateRecordValue, DeleteRecord, Put
<1>4. CASE Crash
  BY <1>4 DEF Crash
<1>5. CASE UNCHANGED vars
  BY <1>5 DEF vars
<1> QED
  BY <1>1, <1>2, <1>3, <1>4, <1>5 DEF Next, SecondHalf

\* It holds along every behaviour.
LEMMA SpecIInv == Spec => []IInv
<1>1. Init => Counted
  BY DEF Init, Counted
<1> QED
  BY <1>1, InitIInv, NextIInv, NextCounts, PTL DEF Spec

\* What is stored can be read again, for any client: no order of openings,
\* rotations and crashes leaves metadata whose salt is not the one of the key
\* they are under, or records under keys that the metadata do not hold.
THEOREM AlwaysReadable == Spec => []StillReadable
<1>1. IInv => StillReadable
  BY DEF IInv, FilesRight, WalletsRight, StillReadable
<1> QED
  BY SpecIInv, <1>1, PTL

\* For a careful client a wallet has one handle, wallet_ids is right, and what
\* is open is still there.
THEOREM OneHandle == Spec => []OpenOnce
<1>1. IInv => OpenOnce
  BY DEF IInv
<1> QED
  BY SpecIInv, <1>1, PTL

\* For a careful client a wallet on disk is by a call that was reported or that
\* the process died in, or by an import in which the storage failed; for any
\* client a file without metadata is left by the death of the process alone.
THEOREM ErrorsAreUndone == Spec => []ErrorsUndone
<1>1. ASSUME IInv PROVE ErrorsUndone
  <2>1. ASSUME client.careful, NEW n \in Name, Readable(n)
        PROVE  LET by == files[path[n]].meta.salt
               IN  \/ by = 0
                   \/ calls[by].st \in {"ok", "lost"}
                   \/ calls[by].st = "err" /\ calls[by].op = "import" /\ calls[by].failed
    BY <1>1, <2>1 DEF IInv, SaltsEnded, MayLeave
  <2>2. ASSUME NEW n \in Name, path[n] # 0, ~Readable(n)
        PROVE  \E c \in DOMAIN calls : calls[c].st = "lost"
    <3>1. path[n] \in DOMAIN files /\ files[path[n]].meta = None
      BY <1>1, <2>2 DEF IInv, Typed, Readable
    <3> QED
      BY <1>1, <3>1 DEF IInv, TornLost
  <2> QED
    BY <2>1, <2>2 DEF ErrorsUndone
<1> QED
  BY SpecIInv, <1>1, PTL

\* Only the second half of a deletion takes a name away.
LEMMA OnlyDeleteRemoves ==
    ASSUME IInv, Next, NEW n \in Name, path[n] # 0, path'[n] = 0
    PROVE  \E c \in Underway : /\ calls[c].op = "delete" /\ calls[c].name = n
                              /\ Restores(calls[c].arg, calls[c].key)
<1>a. path \in [Name -> 0 .. Len(files)] /\ Len(files) \in Nat
  BY DEF IInv, Typed
<1>b. ASSUME NEW m, NEW meta, NEW items, CreateStorage(m, meta, items) PROVE FALSE
  BY <1>a, <1>b DEF CreateStorage
<1>c. ASSUME UNCHANGED path PROVE FALSE
  BY <1>c
<1>1. CASE FirstHalf
  BY <1>1, <1>c DEF FirstHalf, Create, Delete, Open, Export, Import, disk
<1>2. CASE AtOnce
  BY <1>2, <1>c DEF AtOnce, Close, DeleteRecord, AddRecord, UpdateRecordValue, Put, disk
<1>3. CASE Crash
  BY <1>3, <1>b, <1>c DEF Crash, CutShort, CreateWallet, disk
<1>4. ASSUME NEW c \in Underway,
             \/ DeriveFails(c) \/ CreateContinue(c) \/ OpenContinue(c) \/ ExportContinue(c)
             \/ ImportContinue(c)
      PROVE  FALSE
  BY <1>4, <1>b, <1>c DEF DeriveFails, CreateContinue, OpenContinue, ExportContinue,
                          ImportContinue, CreateWallet, CreateAndUndo, disk
<1>5. ASSUME NEW c \in Underway, DeleteContinue(c)
      PROVE  /\ calls[c].op = "delete" /\ calls[c].name = n
             /\ Restores(calls[c].arg, calls[c].key)
  <2>1. calls[c].op = "delete"
    BY <1>5 DEF DeleteContinue
  <2>2. Restores(calls[c].arg, calls[c].key) /\ DeleteStorage(calls[c].name)
    BY <1>5, <1>c DEF DeleteContinue, disk
  <2>3. calls[c].name = n
    BY <2>2, <1>a DEF DeleteStorage
  <2> QED
    BY <2>1, <2>2, <2>3
<1> QED
  BY <1>1, <1>2, <1>3, <1>4, <1>5 DEF Next, SecondHalf

\* For a careful client a wallet goes only by a call with the key that opens it
\* as it is then.
THEOREM DeletionsHaveTheKey == Spec => DeletedWithItsKey
<1>1. ASSUME IInv, Next, NEW n \in Name, client.careful, path[n] # 0, path'[n] = 0
      PROVE  /\ Readable(n)
             /\ \E c \in Underway : /\ calls[c].op = "delete" /\ calls[c].name = n
                                   /\ Restores(files[path[n]].meta, calls[c].key)
  <2>1. PICK c \in Underway : /\ calls[c].op = "delete" /\ calls[c].name = n
                              /\ Restores(calls[c].arg, calls[c].key)
    BY <1>1, OnlyDeleteRemoves
  <2>2. StillAsRead(c)
    BY <1>1, <2>1 DEF IInv, Careful
  <2> QED
    BY <2>1, <2>2 DEF StillAsRead
<1>2. IInv /\ [Next]_vars =>
        [\A n \in Name : client.careful /\ path[n] # 0 /\ path'[n] = 0 =>
            /\ Readable(n)
            /\ \E c \in Underway : /\ calls[c].op = "delete" /\ calls[c].name = n
                                  /\ Restores(files[path[n]].meta, calls[c].key)]_vars
  BY <1>1
<1> QED
  BY SpecIInv, <1>2, PTL DEF Spec, DeletedWithItsKey
=============================================================================
