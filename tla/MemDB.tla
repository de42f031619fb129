-------------------------------- MODULE MemDB --------------------------------
(***************************************************************************)
(* The record database of an instance: cubelib/memdb.  A list of records   *)
(* per type, keyed by the digest of the records' index elements, filled    *)
(* from the JSON descriptions an instance reads when it starts and from    *)
(* memdb_store; and the walk over a list (basefunc.c), whose position is   *)
(* kept in the list itself, so that every thread that looks a template up  *)
(* moves the same cursor.                                                  *)
(*                                                                         *)
(* A digest is modelled by what it is computed from.  A name list is a     *)
(* sequence of entries [v, n] with growing values (namelist_set_text_value *)
(* refuses any other).  A structure is [el, ref]: its elements, and the    *)
(* name of the structure it contains; el alone is in the index.  A list    *)
(* is kept in walking order; where a new record comes in that order is     *)
(* decided by its digest, here by a choice.                                *)
(***************************************************************************)
EXTENDS Integers, Sequences, SequencesExt

CONSTANTS
    DbDescs,     \* the JSON descriptions that may be read, [kind, name, ...]
    DbData,      \* the records modules store, [type, key, rest]
    DbThreads,   \* threads that look up templates
    DbMaxReads   \* bound on the descriptions read and the records stored

ASSUME DbNamesAssumption ==
    \A d \in DbDescs : d.name \notin {"typeenumlist", "baseenumlist"}
ASSUME DbMaxReadsAssumption == DbMaxReads \in Nat

VARIABLES
    db,        \* the static lists: type -> sequence of records
    dyn,       \* the dynamic lists: registered type -> sequence of records
    recno,     \* record_no of each static list
    typeenum,  \* memdb_base->typeenumlist
    cursor,    \* curr_head of the DB_RECORDTYPE list: a position, 0 is NULL
    walk,      \* each thread's lookup in progress
    dbcrash,   \* memdb_store used a list it did not find
    reads      \* the descriptions read so far

dbvars == <<db, dyn, recno, typeenum, cursor, walk, dbcrash, reads>>

StaticTypes == {"NAMELIST", "STRUCT_DESC", "TYPELIST", "SUBTYPELIST", "RECORDTYPE"}

EntryValues(list) == {list[k].v : k \in DOMAIN list}
DbNil == "nil"

-----------------------------------------------------------------------------
(* Name lists *)

(* Mutant: a value of both lists is taken from both. *)
MergeNamelist_Dup(l1, l2) == SortSeq(l1 \o l2, LAMBDA e, f : e.v < f.v)

(* Mutant: what is left of the first list is not copied. *)
MergeNamelist_Cut(l1, l2) ==
    SelectSeq(MergeNamelist_Dup(l1, l2), LAMBDA e : \E v \in EntryValues(l2) : e.v <= v)

(* _merge_namelist: entries of both in the order of their values; for a    *)
(* value in both, the entry of the first.                                  *)
MergeNamelist(l1, l2) ==
    LET kept == SelectSeq(l2, LAMBDA e : e.v \notin EntryValues(l1))
    IN  SortSeq(l1 \o kept, LAMBDA e, f : e.v < f.v)

(* _get_value_namelist, memdb_get_typeno: 0 for a name that is not there *)
GetTypeno(list, n) ==
    LET at == {k \in DOMAIN list : list[k].n = n}
    IN  IF at = {} THEN 0 ELSE list[CHOOSE k \in at : \A j \in at : k <= j].v

(* _get_str_namelist, memdb_get_typestr *)
GetTypestr(list, v) ==
    LET at == {k \in DOMAIN list : list[k].v = v}
    IN  IF at = {} THEN DbNil ELSE list[CHOOSE k \in at : \A j \in at : k <= j].n

(* recordtype_get_text_value over typeenum: as memdb_get_typestr, and 0 is *)
(* "NULL"                                                                  *)
RecordtypeText(list, v) ==
    CASE GetTypestr(list, v) # DbNil -> GetTypestr(list, v)
      [] v = 0                       -> "NULL"
      [] OTHER                       -> DbNil

(* recordtype_set_text_value: -1 for -EINVAL *)
RecordtypeValue(list, n) ==
    CASE n = "NULL" -> 0
      [] n # "NULL" /\ \E k \in DOMAIN list : list[k].n = n -> GetTypeno(list, n)
      [] OTHER -> -1

(* elemenumlist, which memdb_init merges from the types of the structure   *)
(* code and those of the database (here some of them), and the conversions *)
(* over it                                                                 *)
ElemEnum == MergeNamelist(<<[v |-> 1, n |-> "STRING"], [v |-> 3, n |-> "INT"]>>,
                          <<[v |-> 129, n |-> "TYPE"]>>)
EnumtypeText(v) == RecordtypeText(ElemEnum, v)
EnumtypeValue(n) == RecordtypeValue(ElemEnum, n)

-----------------------------------------------------------------------------
(* The names of a record: head.name, and names, the further ones *)

(* _memdb_record_find_name: 1 the head, i+2 for names[i] *)
NameSite(r, n) ==
    LET at == {k \in DOMAIN r.names : r.names[k] = n}
    IN  CASE r.head = n -> 1
          [] r.head # n /\ at # {} -> (CHOOSE k \in at : \A j \in at : k <= j) + 1
          [] OTHER -> 0

(* Mutant: a record that has a name keeps to it. *)
AddName_Head(r, n) == IF r.head = "" THEN [r EXCEPT !.head = n] ELSE r

(* _memdb_record_add_name *)
AddName(r, n) ==
    IF n = DbNil \/ NameSite(r, n) > 0 THEN r
    ELSE [r EXCEPT !.names = Append(@, n),
                   !.nameNo = (IF r.names = <<>> THEN (IF r.head = "" THEN 0 ELSE 1)
                               ELSE @) + 1]

(* _memdb_record_remove_name, as the sequence of what is left of the record:*)
(* empty when it was removed.  The further name at names[i] is site i + 2,  *)
(* but the entry that is dropped is names[site - 1], the one behind it.     *)
RemoveName(r, n) ==
    LET s == NameSite(r, n)
    IN  CASE s = 0 -> <<r>>
          [] s = 1 /\ r.nameNo = 1 -> <<>>
          [] s = 1 /\ r.nameNo # 1 ->
               <<[r EXCEPT !.head = r.names[1], !.names = Tail(@), !.nameNo = @ - 1]>>
          [] s > 1 /\ Len(r.names) < s -> <<r>>
          [] OTHER -> <<[r EXCEPT !.names = RemoveAt(@, s), !.nameNo = @ - 1]>>

(* _memdb_record_remove_name returns -EINVAL *)
RemoveFails(r, n) == NameSite(r, n) > 1 /\ Len(r.names) < NameSite(r, n)

-----------------------------------------------------------------------------
(* Lists and lookups *)

(* hashlist_find_elem: the position of a digest, or 0 *)
FindUuid(list, u) ==
    LET at == {k \in DOMAIN list : list[k].uuid = u}
    IN  IF at = {} THEN 0 ELSE CHOOSE k \in at : \A j \in at : k <= j

(* memdb_find_byname, undisturbed *)
FindByname(list, n) ==
    LET at == {k \in DOMAIN list : NameSite(list[k], n) > 0}
    IN  IF at = {} THEN 0 ELSE CHOOSE k \in at : \A j \in at : k <= j

(* memdb_get_recordtype, undisturbed *)
GetRecordtype(t) ==
    LET at == {k \in DOMAIN db["RECORDTYPE"] : db["RECORDTYPE"][k].data.type = t}
    IN  IF at = {} THEN 0 ELSE CHOOSE k \in at : \A j \in at : k <= j

(* memdb_get_template of a dynamic type, and memdb_comp_uuid with it: the  *)
(* elements with the INDEX flag, all of them or the key                    *)
Described(t) == GetRecordtype(t) # 0
Template(t) == db["RECORDTYPE"][GetRecordtype(t)].tail
CompUuid(d, template) == IF template.index = "all" THEN d ELSE [d EXCEPT !.rest = 0]

(* memdb_get_subtypelist: the name list of the first one for the type, <<>>*)
(* for NULL                                                                *)
GetSubtypelist(t) ==
    LET list == db["SUBTYPELIST"]
        at == {k \in DOMAIN list : list[k].data.type = t}
    IN  IF at = {} THEN <<>> ELSE list[CHOOSE k \in at : \A j \in at : k <= j].tail

(* subtype_get_text_value: DbNil stands for -EINVAL *)
SubtypeText(t, v) ==
    CASE v = 0 -> "NULL"
      [] v # 0 /\ GetSubtypelist(t) = <<>> -> "digits"
      [] OTHER -> GetTypestr(GetSubtypelist(t), v)

(* subtype_set_text_value *)
SubtypeValue(t, n) ==
    CASE n = "NULL" -> 0
      [] n # "NULL" /\ GetSubtypelist(t) = <<>> -> -1
      [] OTHER -> IF \E k \in DOMAIN GetSubtypelist(t) : GetSubtypelist(t)[k].n = n
                  THEN GetTypeno(GetSubtypelist(t), n) ELSE -1

(* A DB_RECORD as memdb_read_desc makes it: name_no stays 0 *)
NewRecord(u, d, n, t) == [uuid |-> u, data |-> d, head |-> n, names |-> <<>>,
                          nameNo |-> 0, tail |-> t]

(* hashlist_add_elem: behind the records of its bucket, wherever that is *)
AddElem(list, r) == {InsertAt(list, p, r) : p \in 1 .. Len(list) + 1}

(* Mutant: a record with the digest is not looked for. *)
Stored_Blind(list, r, n) == AddElem(list, r)

(* memdb_store_record and memdb_store on a list: a record with the digest  *)
(* gets the new data and the name n, and keeps its tail; otherwise the     *)
(* record is added.                                                        *)
Stored(list, r, n) ==
    LET k == FindUuid(list, r.uuid)
    IN  IF k = 0 THEN AddElem(list, r)
        ELSE {[list EXCEPT ![k] = AddName([@ EXCEPT !.data = r.data], n)]}

-----------------------------------------------------------------------------
(* memdb_init: the base list of types is stored under both its names *)
BaseList == <<[v |-> 1, n |-> "MESSAGE"]>>

DbInit ==
    /\ db = [t \in StaticTypes |->
               IF t = "NAMELIST"
               THEN <<[NewRecord(BaseList, BaseList, "typeenumlist", BaseList)
                        EXCEPT !.names = <<"baseenumlist">>, !.nameNo = 2]>>
               ELSE <<>>]
    /\ recno = [t \in StaticTypes |-> IF t = "NAMELIST" THEN 1 ELSE 0]
    /\ dyn = <<>> /\ typeenum = BaseList
    /\ cursor = 0 /\ walk = [h \in DbThreads |-> [pc |-> "idle"]]
    /\ dbcrash = FALSE /\ reads = 0

Quiet == \A h \in DbThreads : walk[h].pc = "idle"

(* memdb_read_desc, when no thread looks up a template yet *)
Read == Quiet /\ reads < DbMaxReads /\ ~dbcrash /\ reads' = reads + 1

(* Mutant: memdb_remove leaves record_no. *)
Counted_Up(new) ==
    recno' = [t \in StaticTypes |-> recno[t] + (IF new[t] = db[t] THEN 0 ELSE 1)]

(* record_no goes up with every record added, down with every one removed *)
Counted(new) == recno' = [t \in StaticTypes |-> recno[t] + Len(new[t]) - Len(db[t])]

(* read_namelist_json_desc with _namelist_tail_func *)
ReadNamelist(n, l) ==
    /\ Read
    /\ \E list \in Stored(db["NAMELIST"], NewRecord(l, l, n, l), n) :
         db' = [db EXCEPT !["NAMELIST"] = list] /\ Counted(db')
    /\ UNCHANGED <<dyn, typeenum, cursor, walk, dbcrash>>

(* The merged list is stored by memdb_store, which gives a new record      *)
(* name_no 1, under the name the old list has just lost.                   *)
Restored(list, merged) ==
    Stored(list, [NewRecord(merged, merged, "typeenumlist", merged) EXCEPT !.nameNo = 1],
           "typeenumlist")

Spliced(list, k, rs) == SubSeq(list, 1, k - 1) \o rs \o SubSeq(list, k + 1, Len(list))

(* The name list a description holds, stored without a name, or the one    *)
(* that is there already.                                                  *)
ItsNamelist(l, inline) ==
    IF inline THEN Stored(db["NAMELIST"], NewRecord(l, l, "", l), "") ELSE {db["NAMELIST"]}

(* read_typelist_json_desc with _typelist_tail_func: the description holds *)
(* the name list, which is stored without a name, or the digest of one.    *)
(* The type list is stored; the name list is merged into "typeenumlist"    *)
(* unless that name cannot be removed from its record.                     *)
ReadTypelist(n, l, inline) ==
    /\ Read
    /\ inline \/ FindUuid(db["NAMELIST"], l) # 0
    /\ \E nl \in ItsNamelist(l, inline),
          tl \in Stored(db["TYPELIST"], NewRecord(l, l, n, l), n) :
         \E k \in {FindByname(nl, "typeenumlist")} :
           IF RemoveFails(nl[k], "typeenumlist")
           THEN /\ db' = [db EXCEPT !["NAMELIST"] = nl, !["TYPELIST"] = tl]
                /\ UNCHANGED typeenum
           ELSE \E merged \in {MergeNamelist(nl[k].data, l)} :
                  /\ typeenum' = merged
                  /\ \E fin \in Restored(Spliced(nl, k, RemoveName(nl[k], "typeenumlist")),
                                         merged) :
                       db' = [db EXCEPT !["NAMELIST"] = fin, !["TYPELIST"] = tl]
    /\ Counted(db')
    /\ UNCHANGED <<dyn, cursor, walk, dbcrash>>

(* read_subtypelist_json_desc with _subtypelist_tail_func: an unknown type *)
(* name gives type 0, which its check of the sign lets pass.               *)
ReadSubtypelist(n, l, tn, inline) ==
    /\ Read
    /\ inline \/ FindUuid(db["NAMELIST"], l) # 0
    /\ \E nl \in ItsNamelist(l, inline),
          sl \in {[type |-> GetTypeno(typeenum, tn), list |-> l]} :
         \E ul \in Stored(db["SUBTYPELIST"], NewRecord(sl, sl, n, l), n) :
           /\ db' = [db EXCEPT !["NAMELIST"] = nl, !["SUBTYPELIST"] = ul]
           /\ Counted(db')
    /\ UNCHANGED <<dyn, typeenum, cursor, walk, dbcrash>>

(* _struct_octet_to_attr: the description of the contained structure must  *)
(* be there; what is kept of it is its tail.                               *)
Resolves(d) == d.ref = "" \/ FindByname(db["STRUCT_DESC"], d.ref) # 0

AttrOf(d) ==
    [el |-> d.el,
     sub |-> IF d.ref = "" THEN DbNil
             ELSE db["STRUCT_DESC"][FindByname(db["STRUCT_DESC"], d.ref)].tail.el]

(* read_default_json_desc of a DB_STRUCT_DESC with _struct_desc_tail_func *)
StoreStruct(n, d) ==
    IF Resolves(d) THEN Stored(db["STRUCT_DESC"], NewRecord(d.el, d, n, AttrOf(d)), n) ELSE {}

ReadStruct(n, d) ==
    /\ Read
    /\ \E list \in StoreStruct(n, d) : db' = [db EXCEPT !["STRUCT_DESC"] = list]
    /\ Counted(db')
    /\ UNCHANGED <<dyn, typeenum, cursor, walk, dbcrash>>

(* memdb_get_dblist of a dynamic type is not NULL *)
HasDblist(t) == t \in DOMAIN dyn

(* Mutant: a record type does not register its list. *)
RegisterDynamic_None(t) == dyn

(* memdb_register_dynamicdb: refused when the list is there *)
RegisterDynamic(t) ==
    [s \in DOMAIN dyn \cup {t} |-> IF s \in DOMAIN dyn THEN dyn[s] ELSE <<>>]

(* read_recordtype_json_desc with _recordtype_tail_func, for the structures*)
(* sds and the digest u of the one meant.  The template has the INDEX flag *)
(* on all elements or on the key.                                          *)
StoreRecordtype(n, t, sds, u, idx) ==
    /\ \E rt \in {[type |-> t, uuid |-> u, index |-> idx]},
          tl \in {sds[FindUuid(sds, u)].tail} :
         \E list \in Stored(db["RECORDTYPE"],
                            NewRecord(rt, rt, n, [desc |-> tl, index |-> idx]), n) :
           db' = [db EXCEPT !["STRUCT_DESC"] = sds, !["RECORDTYPE"] = list]
    /\ Counted(db')
    /\ dyn' = RegisterDynamic(t)
    /\ UNCHANGED <<typeenum, cursor, walk, dbcrash>>

(* The description names the structure, or holds it; then the structure is *)
(* stored first, under the name of the record type.                        *)
ReadRecordtypeNamed(n, t, sn, idx) ==
    /\ Read /\ FindByname(db["STRUCT_DESC"], sn) # 0
    /\ StoreRecordtype(n, t, db["STRUCT_DESC"],
                       db["STRUCT_DESC"][FindByname(db["STRUCT_DESC"], sn)].uuid, idx)

ReadRecordtypeOwn(n, t, d, idx) ==
    /\ Read
    /\ \E sds \in StoreStruct(n, d) : StoreRecordtype(n, t, sds, d.el, idx)

(* Mutant: the digest is computed of the whole record. *)
ReadRecord_Whole(n, t, d) ==
    /\ Read /\ HasDblist(t) /\ Described(t)
    /\ \E list \in Stored(dyn[t], NewRecord(d, d, n, DbNil), n) :
         dyn' = [dyn EXCEPT ![t] = list]
    /\ UNCHANGED <<db, recno, typeenum, cursor, walk, dbcrash>>

(* read_default_json_desc of a dynamic type and memdb_store_record: both   *)
(* refuse a type without template or list                                  *)
ReadRecord(n, t, d) ==
    /\ Read /\ HasDblist(t) /\ Described(t)
    /\ \E list \in Stored(dyn[t], NewRecord(CompUuid(d, Template(t)), d, n, DbNil), n) :
         dyn' = [dyn EXCEPT ![t] = list]
    /\ UNCHANGED <<db, recno, typeenum, cursor, walk, dbcrash>>

(* memdb_store by a module, without a name: a missing list is registered   *)
(* when the type has a description, but the pointer to it stays NULL and   *)
(* is used.                                                                *)
Store(t, d) ==
    /\ Read /\ Described(t)
    /\ IF HasDblist(t)
       THEN /\ \E list \in Stored(dyn[t],
                    NewRecord(CompUuid(d, Template(t)), d, "", DbNil), DbNil) :
                 dyn' = [dyn EXCEPT ![t] = list]
            /\ UNCHANGED dbcrash
       ELSE dbcrash' = TRUE /\ dyn' = RegisterDynamic(t)
    /\ UNCHANGED <<db, recno, typeenum, cursor, walk>>

-----------------------------------------------------------------------------
(* memdb_get_recordtype of a thread, one hashlist call at a time *)

(* hashlist_get_first and the comparison: hit is the position of the match *)
Hit(t, k) == k \in DOMAIN db["RECORDTYPE"] /\ db["RECORDTYPE"][k].data.type = t

Walked(h, t, k, alone) ==
    /\ walk' = [g \in DbThreads |->
         CASE g = h /\ Hit(t, k) -> [pc |-> "done", type |-> t, got |-> k, alone |-> alone]
           [] g = h /\ k \notin DOMAIN db["RECORDTYPE"]
                -> [pc |-> "done", type |-> t, got |-> 0, alone |-> alone]
           [] g = h /\ k \in DOMAIN db["RECORDTYPE"] /\ ~Hit(t, k)
                -> [pc |-> "walk", type |-> t, alone |-> alone]
           [] g # h /\ walk[g].pc = "walk" -> [walk[g] EXCEPT !.alone = FALSE]
           [] OTHER -> walk[g]]
    /\ UNCHANGED <<db, dyn, recno, typeenum, dbcrash, reads>>

(* Mutant: the cursor is left behind the last record. *)
Landed_Past(h, t, k, alone) == cursor' = k /\ Walked(h, t, k, alone)

Landed(h, t, k, alone) ==
    /\ cursor' = IF k \in DOMAIN db["RECORDTYPE"] THEN k ELSE 0
    /\ Walked(h, t, k, alone)

GetFirst(h, t) ==
    /\ walk[h].pc = "idle" /\ ~dbcrash
    /\ Landed(h, t, 1, \A g \in DbThreads \ {h} : walk[g].pc # "walk")

(* Mutant: the walk starts behind the first record. *)
GetNext_Skip(h) ==
    /\ walk[h].pc = "walk"
    /\ Landed(h, walk[h].type, IF cursor = 0 THEN 0 ELSE cursor + 2, walk[h].alone)

(* hashlist_get_next: nothing once the cursor is NULL *)
GetNext(h) ==
    /\ walk[h].pc = "walk"
    /\ Landed(h, walk[h].type, IF cursor = 0 THEN 0 ELSE cursor + 1, walk[h].alone)

Return(h) ==
    /\ walk[h].pc = "done"
    /\ walk' = [walk EXCEPT ![h] = [pc |-> "idle"]]
    /\ UNCHANGED <<db, dyn, recno, typeenum, cursor, dbcrash, reads>>

(* memdb_read_desc *)
ReadDesc(d) ==
    \/ d.kind = "NAMELIST" /\ ReadNamelist(d.name, d.list)
    \/ d.kind = "TYPELIST" /\ ReadTypelist(d.name, d.list, d.inline)
    \/ d.kind = "SUBTYPELIST" /\ ReadSubtypelist(d.name, d.list, d.of, d.inline)
    \/ d.kind = "STRUCT_DESC" /\ ReadStruct(d.name, d.struct)
    \/ d.kind = "RECORDTYPE" /\ ReadRecordtypeNamed(d.name, d.type, d.struct, d.index)
    \/ d.kind = "RECORDTYPE_OWN" /\ ReadRecordtypeOwn(d.name, d.type, d.struct, d.index)
    \/ d.kind = "RECORD" /\ ReadRecord(d.name, d.data.type, d.data)

TypesMeant == {d.type : d \in {e \in DbDescs : e.kind \in {"RECORDTYPE", "RECORDTYPE_OWN"}}}

DbNext ==
    \/ \E d \in DbDescs : ReadDesc(d)
    \/ \E d \in DbData : Store(d.type, d)
    \/ \E h \in DbThreads, t \in TypesMeant : GetFirst(h, t)
    \/ \E h \in DbThreads : GetNext(h) \/ Return(h)

DbSpec == DbInit /\ [][DbNext]_dbvars

-----------------------------------------------------------------------------
(* Properties *)

ListOK(list) == \A k \in DOMAIN list : list[k].nameNo \in 0 .. DbMaxReads + 2

(* The type invariant. *)
DbTypeOK ==
    /\ \A t \in StaticTypes : ListOK(db[t])
    /\ DOMAIN dyn \subseteq TypesMeant /\ \A t \in DOMAIN dyn : ListOK(dyn[t])
    /\ cursor \in 0 .. Len(db["RECORDTYPE"]) /\ reads \in 0 .. DbMaxReads
    /\ \A h \in DbThreads : walk[h].pc \in {"idle", "walk", "done"}

Keyed(list) == \A j, k \in DOMAIN list : list[j].uuid = list[k].uuid => j = k

(* Whatever is read or stored, in whatever order and however often, no     *)
(* list holds two records with one digest, and record_no counts them.      *)
DbKeyed ==
    /\ \A t \in StaticTypes : Keyed(db[t])
    /\ \A t \in DOMAIN dyn : Keyed(dyn[t])

DbCounted == \A t \in StaticTypes : recno[t] = Len(db[t])

Bearers == {k \in DOMAIN db["NAMELIST"] : NameSite(db["NAMELIST"][k], "typeenumlist") > 0}

(* Reading a type list takes the name "typeenumlist" from one record and   *)
(* gives it to another: it is never lost, and while one record bears it    *)
(* this record and memdb_base->typeenumlist list the same types.           *)
DbTypeEnumNamed ==
    /\ Bearers # {}
    /\ \A k \in Bearers :
         Bearers = {k} => EntryValues(db["NAMELIST"][k].data) = EntryValues(typeenum)

(* No type is forgotten by reading a description, while one record bears   *)
(* the name "typeenumlist".  (With two, the older list may be merged.)     *)
DbTypesKept ==
    [][ (\A j, k \in Bearers : j = k)
            => EntryValues(typeenum) \subseteq EntryValues(typeenum') ]_dbvars

(* The text of an element type, a type or a subtype and its number convert *)
(* into each other, also after lists with common values were merged.       *)
DbTextReadsBack ==
    /\ \A k \in DOMAIN ElemEnum : EnumtypeText(EnumtypeValue(ElemEnum[k].n)) = ElemEnum[k].n
    /\ \A k \in DOMAIN typeenum :
         RecordtypeText(typeenum, RecordtypeValue(typeenum, typeenum[k].n)) = typeenum[k].n
    /\ \A t \in EntryValues(typeenum) \cup {0} : \A k \in DOMAIN GetSubtypelist(t) :
         \E n \in {GetSubtypelist(t)[k].n} : SubtypeText(t, SubtypeValue(t, n)) = n

(* memdb_store never meets a type that has a description but no list, the  *)
(* case in which it uses a NULL list.                                      *)
DbNoCrash == ~dbcrash

OneRecordtype(t) ==
    \A j, k \in DOMAIN db["RECORDTYPE"] :
      db["RECORDTYPE"][j].data.type = t /\ db["RECORDTYPE"][k].data.type = t => j = k

(* While a type is described once, the digest a record is filed under is   *)
(* that of the data it holds, also after the data were replaced.           *)
DbFiledUnderItsData ==
    \A t \in DOMAIN dyn : OneRecordtype(t) =>
      \A k \in DOMAIN dyn[t] : dyn[t][k].uuid = CompUuid(dyn[t][k].data, Template(t))

(* A lookup that no other thread's lookup overlaps finds the first record  *)
(* of its type, and one that returns a record returns one of its type,     *)
(* overlapped or not.                                                      *)
DbLookup ==
    \A h \in DbThreads : walk[h].pc = "done" =>
      /\ walk[h].got > 0 => db["RECORDTYPE"][walk[h].got].data.type = walk[h].type
      /\ walk[h].alone => walk[h].got = GetRecordtype(walk[h].type)

(* The database: every list holds each record once, under the key of its   *)
(* data and found by it, whatever was read, stored, registered and looked  *)
(* up at the same time (memdb_init.c:539-1116).                            *)
DbSound ==
    /\ DbTypeOK /\ DbKeyed /\ DbCounted
    /\ DbNoCrash /\ DbFiledUnderItsData /\ DbLookup

(* Names and numbers of types agree in every list that has them, and what  *)
(* type_subtype_ops.c writes for a type it reads back.                     *)
DbNamesAgree == DbTypeEnumNamed /\ DbTextReadsBack
=============================================================================
