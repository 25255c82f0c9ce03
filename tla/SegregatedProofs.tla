--------------------------- MODULE SegregatedProofs ---------------------------
(***************************************************************************)
(* Proofs about SegregatedStore, for any organisations, records, values    *)
(* and number of transactions in flight.                                   *)
(*                                                                         *)
(* The first layer of the invariant says that a transaction in flight is   *)
(* current: endorsed again in the present state it would read and write    *)
(* the same.  That is what MVCC validation gives.  It holds with and       *)
(* without calls on records of several owners.  The second layer is about  *)
(* the parts of a record in several stores, and needs calls on the records *)
(* of one owner.                                                           *)
(***************************************************************************)
EXTENDS SegregatedStore, TLAPS

AllAttributes == {"id", "owner", "pub", "priv", "shared"}

\* A record is a function on some attributes; its owner is an organisation.
Records ==
    {r \in UNION {[attrs -> Orgs \cup Values \cup {TRUE}] : attrs \in SUBSET AllAttributes} :
        "owner" \in DOMAIN r => r["owner"] \in Orgs}

Classes == [shape : Shapes, mirrored : BOOLEAN]

\* What is stored for a record.
StoreStands(id) ==
    /\ \A c \in Collections : Stored(c, id) # Absent =>
          /\ Stored(c, id) \in Records
          /\ DOMAIN Stored(c, id) \subseteq KeysOf(c)
          /\ class.shape = "whole" /\ c \in Orgs => "id" \in DOMAIN Stored(c, id)
    /\ Stored(Public, id) # Absent =>
          /\ Stored(Public, id) \in Records
          /\ DOMAIN Stored(Public, id) = PlacedIn("public")
          /\ class.shape # "whole"

\* A record that create or update may write.
Writable(r) ==
    /\ r \in Records
    /\ DOMAIN r \subseteq Attributes
    /\ PlacedIn("public") \cup {"id"} \subseteq DOMAIN r

\* The writes w are those of prepare for these records, in these collections.
Saving(w, cols, records, public) ==
    \A id \in Ids :
        /\ <<Mirror, id>> \in DOMAIN w <=> class.mirrored /\ id \in DOMAIN records
        /\ <<Mirror, id>> \in DOMAIN w => w[<<Mirror, id>>] = records[id]
        /\ \A c \in Collections :
              /\ <<c, id>> \in DOMAIN w <=> c \in cols /\ id \in DOMAIN records
              /\ <<c, id>> \in DOMAIN w =>
                    w[<<c, id>>] = Restricted(records[id], KeysOf(c))
        /\ <<Public, id>> \in DOMAIN w <=>
              /\ public /\ id \in DOMAIN records
              /\ DOMAIN records[id] \cap PlacedIn("public") # {}
        /\ <<Public, id>> \in DOMAIN w =>
              w[<<Public, id>>] = Restricted(records[id], PlacedIn("public"))

\* The writes w delete the record from these stores.
Deleting(w, stores, id) ==
    \A s \in Stores, i \in Ids :
        /\ <<s, i>> \in DOMAIN w => w[<<s, i>>] = Absent /\ i = id
        /\ s # Mirror /\ <<s, i>> \in DOMAIN w => s \in stores
        /\ s \in stores => <<s, id>> \in DOMAIN w

CreateStands(p) ==
    LET call == p.call
    IN  /\ NoneExists(call.ids)
        /\ PlacedIn("public") \subseteq {"id", "owner"} \cup DOMAIN call.data
        /\ {Public} \X call.ids \subseteq p.reads
        /\ \E records \in [call.ids -> Records] :
              /\ \A id \in call.ids : records[id] = NewRecord(call.org, call.data)
              /\ Saving(p.writes, CollectionsOf(call.org), records, ~IsFullySegregated)

UpdateStands(p) ==
    LET call == p.call
    IN  /\ \A id \in call.ids : Found(call.org, id)
        /\ ReadKeys(call.org, call.ids) \subseteq p.reads
        /\ \E records \in [call.ids -> Records] :
              /\ \A id \in call.ids : records[id] = Updated(call.org, id, call.data)
              /\ MixedOwners \/ \E o \in Orgs : \A id \in call.ids :
                    OwnerOf(records[id], call.org) = o
              /\ Saving(p.writes, UpdateCollections(call.org, records), records, TRUE)

DeleteStands(p) ==
    LET call == p.call
    IN  \E id \in Ids, cols \in SUBSET Collections :
            /\ call.ids = {id}
            /\ Found(call.org, id)
            /\ ReadKeys(call.org, {id}) \subseteq p.reads
            /\ cols \X {id} \subseteq p.reads
            /\ CollectionsOf(OwnerOf(ReadAs(call.org, id), call.org)) \subseteq cols
            /\ \A c \in cols : Stored(c, id) # Absent
            /\ Deleting(p.writes,
                        cols \cup (IF IsFullySegregated THEN {} ELSE {Public}), id)

\* The transaction would be endorsed again, with the same outcome.
Current(p) ==
    /\ p.call.org \in Orgs /\ MayWrite(p.call.org)
    /\ p.call.ids \in SUBSET Ids
    /\ \/ /\ p.call.op = "create"
          /\ p.call.data \in Records
          /\ DOMAIN p.call.data \subseteq Attributes \ {"id", "owner"}
          /\ CreateStands(p)
       \/ /\ p.call.op = "update"
          /\ p.call.data \in Records
          /\ DOMAIN p.call.data \subseteq Attributes \ {"id", "owner"}
          /\ UpdateStands(p)
       \/ p.call.op = "delete" /\ DeleteStands(p)

StoreInv ==
    /\ class \in Classes
    /\ phase \in [Txs -> Ledger!Phases]
    /\ proposal = [t \in Txs |-> proposal[t]]
    /\ \A id \in Ids : StoreStands(id)
    /\ \A t \in Txs : phase[t] = "endorsed" => Current(proposal[t])

\* The parts of a record of a class with a public part.
PartsStand(id) ==
    LET public == Stored(Public, id)
        owner == public["owner"]
    IN  /\ public = Absent => \A c \in Collections : Stored(c, id) = Absent
        /\ public # Absent =>
              /\ Stored(owner, id) # Absent /\ Stored(Shared, id) # Absent
              /\ \A org \in Orgs : Stored(org, id) # Absent => org = owner
              /\ class.mirrored =>
                    /\ owner # MirrorMsp
                    /\ Stored(Mirror, id)
                        = Merged(Merged(public, Stored(owner, id)), Stored(Shared, id))
                    /\ Stored(Mirror, id) # Absent

PartsInv == HasPublicPart => \A id \in Ids : PartsStand(id)

-----------------------------------------------------------------------------
\* Records and places.

LEMMA RecordsAre ==
    ASSUME NEW r
    PROVE  r \in Records <=>
              /\ DOMAIN r \subseteq AllAttributes
              /\ r \in [DOMAIN r -> Orgs \cup Values \cup {TRUE}]
              /\ "owner" \in DOMAIN r => r["owner"] \in Orgs
BY DEF Records

LEMMA AbsentIsNoRecord == Absent \notin Records
BY StoreAssumption DEF Records, AllAttributes

LEMMA RestrictedIs ==
    ASSUME NEW r \in Records, NEW attrs
    PROVE  /\ Restricted(r, attrs) \in Records
           /\ DOMAIN Restricted(r, attrs) = DOMAIN r \cap attrs
           /\ \A a \in DOMAIN r \cap attrs : Restricted(r, attrs)[a] = r[a]
<1>1. /\ DOMAIN Restricted(r, attrs) = DOMAIN r \cap attrs
      /\ \A a \in DOMAIN r \cap attrs : Restricted(r, attrs)[a] = r[a]
  BY DEF Restricted
<1>2. /\ DOMAIN r \subseteq AllAttributes
      /\ r \in [DOMAIN r -> Orgs \cup Values \cup {TRUE}]
      /\ "owner" \in DOMAIN r => r["owner"] \in Orgs
  BY RecordsAre
<1>3. Restricted(r, attrs) \in [DOMAIN r \cap attrs -> Orgs \cup Values \cup {TRUE}]
  BY <1>2 DEF Restricted
<1> QED
  BY <1>1, <1>2, <1>3, RecordsAre

LEMMA MergedIs ==
    ASSUME NEW r \in Records, NEW over \in Records
    PROVE  /\ Merged(r, over) \in Records
           /\ DOMAIN Merged(r, over) = DOMAIN r \cup DOMAIN over
           /\ \A a \in DOMAIN r \cup DOMAIN over :
                 Merged(r, over)[a] = IF a \in DOMAIN over THEN over[a] ELSE r[a]
<1>1. /\ DOMAIN Merged(r, over) = DOMAIN r \cup DOMAIN over
      /\ \A a \in DOMAIN r \cup DOMAIN over :
            Merged(r, over)[a] = IF a \in DOMAIN over THEN over[a] ELSE r[a]
  BY DEF Merged
<1>2. /\ DOMAIN r \subseteq AllAttributes /\ DOMAIN over \subseteq AllAttributes
      /\ r \in [DOMAIN r -> Orgs \cup Values \cup {TRUE}]
      /\ over \in [DOMAIN over -> Orgs \cup Values \cup {TRUE}]
      /\ "owner" \in DOMAIN r => r["owner"] \in Orgs
      /\ "owner" \in DOMAIN over => over["owner"] \in Orgs
  BY RecordsAre
<1>3. Merged(r, over) \in [DOMAIN r \cup DOMAIN over -> Orgs \cup Values \cup {TRUE}]
  BY <1>2 DEF Merged
<1> QED
  BY <1>1, <1>2, <1>3, RecordsAre

LEMMA EmptyRecord == <<>> \in Records /\ DOMAIN <<>> = {}
<1>1. <<>> \in [{} -> Orgs \cup Values \cup {TRUE}] /\ DOMAIN <<>> = {}
  OBVIOUS
<1> QED
  BY <1>1, RecordsAre

LEMMA KeyRecordIs ==
    ASSUME NEW v, NEW S, v \in S
    PROVE  DOMAIN [id |-> v] = {"id"} /\ [id |-> v] \in [{"id"} -> S]
OBVIOUS

LEMMA OwnedRecordIs ==
    ASSUME NEW v, NEW w, NEW S, v \in S, w \in S
    PROVE  /\ DOMAIN [id |-> v, owner |-> w] = {"id", "owner"}
           /\ [id |-> v, owner |-> w]["owner"] = w
           /\ [id |-> v, owner |-> w] \in [{"id", "owner"} -> S]
<1> DEFINE b == [id |-> v, owner |-> w]
<1>1. DOMAIN b = {"id", "owner"} /\ b["owner"] = w /\ b["id"] = v
  OBVIOUS
<1>2. b = [a \in {"id", "owner"} |-> b[a]]
  OBVIOUS
<1> HIDE DEF b
<1>3. b \in [{"id", "owner"} -> S]
  BY <1>1, <1>2
<1> QED
  BY <1>1, <1>3 DEF b

LEMMA KeyRecord == [id |-> TRUE] \in Records /\ DOMAIN [id |-> TRUE] = {"id"}
<1> DEFINE v == TRUE
<1>1. v \in Orgs \cup Values \cup {TRUE}
  OBVIOUS
<1> HIDE DEF v
<1> DEFINE r == [id |-> v]
<1>2. DOMAIN r = {"id"} /\ r \in [{"id"} -> Orgs \cup Values \cup {TRUE}]
  BY <1>1, KeyRecordIs
<1> HIDE DEF r
<1>3. r \in Records
  BY <1>2, RecordsAre DEF AllAttributes
<1> QED
  BY <1>2, <1>3 DEF r, v

LEMMA Places ==
    ASSUME class \in Classes
    PROVE  /\ class.shape \in Shapes /\ class.mirrored \in BOOLEAN
           /\ class.shape = "mixed" =>
                 /\ Attributes = AllAttributes
                 /\ PlacedIn("public") = {"id", "owner", "pub"}
                 /\ PlacedIn("private") = {"priv"} /\ PlacedIn("shared") = {"shared"}
                 /\ ~IsFullySegregated
           /\ class.shape = "property" =>
                 /\ Attributes = {"id", "priv", "shared"}
                 /\ PlacedIn("public") = {"id"}
                 /\ PlacedIn("private") = {"priv"} /\ PlacedIn("shared") = {"shared"}
                 /\ IsFullySegregated
           /\ class.shape = "whole" =>
                 /\ Attributes = {"id", "owner", "priv"}
                 /\ PlacedIn("public") = {}
                 /\ PlacedIn("private") = {"id", "owner", "priv"} /\ PlacedIn("shared") = {}
                 /\ IsFullySegregated
<1>1. class.shape \in Shapes /\ class.mirrored \in BOOLEAN
  BY DEF Classes
<1>2. ASSUME class.shape = "mixed"
      PROVE  /\ Attributes = AllAttributes
             /\ PlacedIn("public") = {"id", "owner", "pub"}
             /\ PlacedIn("private") = {"priv"} /\ PlacedIn("shared") = {"shared"}
  <2>1. Attributes = AllAttributes
    BY <1>2 DEF Attributes, Placement, AllAttributes
  <2>2. \A place : PlacedIn(place) = {a \in AllAttributes : Placement["mixed"][a] = place}
    BY <1>2, <2>1 DEF PlacedIn
  <2>3. /\ Placement["mixed"]["id"] = "public" /\ Placement["mixed"]["owner"] = "public"
        /\ Placement["mixed"]["pub"] = "public" /\ Placement["mixed"]["priv"] = "private"
        /\ Placement["mixed"]["shared"] = "shared"
    BY DEF Placement
  <2> QED
    BY <2>1, <2>2, <2>3 DEF AllAttributes
<1>3. ASSUME class.shape = "property"
      PROVE  /\ Attributes = {"id", "priv", "shared"}
             /\ PlacedIn("public") = {"id"}
             /\ PlacedIn("private") = {"priv"} /\ PlacedIn("shared") = {"shared"}
  <2>1. Attributes = {"id", "priv", "shared"}
    BY <1>3 DEF Attributes, Placement
  <2>2. \A place : PlacedIn(place)
                    = {a \in {"id", "priv", "shared"} : Placement["property"][a] = place}
    BY <1>3, <2>1 DEF PlacedIn
  <2>3. /\ Placement["property"]["id"] = "public" /\ Placement["property"]["priv"] = "private"
        /\ Placement["property"]["shared"] = "shared"
    BY DEF Placement
  <2> QED
    BY <2>1, <2>2, <2>3
<1>4. ASSUME class.shape = "whole"
      PROVE  /\ Attributes = {"id", "owner", "priv"}
             /\ PlacedIn("public") = {}
             /\ PlacedIn("private") = {"id", "owner", "priv"} /\ PlacedIn("shared") = {}
  <2>1. Attributes = {"id", "owner", "priv"}
    BY <1>4 DEF Attributes, Placement
  <2>2. \A place : PlacedIn(place)
                    = {a \in {"id", "owner", "priv"} : Placement["whole"][a] = place}
    BY <1>4, <2>1 DEF PlacedIn
  <2>3. /\ Placement["whole"]["id"] = "private" /\ Placement["whole"]["owner"] = "private"
        /\ Placement["whole"]["priv"] = "private"
    BY DEF Placement
  <2> QED
    BY <2>1, <2>2, <2>3
<1> QED
  BY <1>1, <1>2, <1>3, <1>4 DEF IsFullySegregated

LEMMA Names ==
    /\ Public \notin Collections /\ Mirror \notin Collections /\ Public # Mirror
    /\ Shared \in Collections /\ Shared \notin Orgs /\ Orgs \subseteq Collections
    /\ Collections \subseteq Stores /\ Public \in Stores /\ Mirror \in Stores
BY StoreAssumption DEF Collections, Stores

\* The collections of an owner: its own, and the shared one if the class has it.
LEMMA CollectionsAre ==
    ASSUME class \in Classes, NEW org \in Orgs
    PROVE  /\ KeysOf(org) = PlacedIn("private") /\ KeysOf(Shared) = PlacedIn("shared")
           /\ org \in CollectionsOf(org)
           /\ CollectionsOf(org) \subseteq {org, Shared}
           /\ Shared \in CollectionsOf(org) <=> class.shape # "whole"
           /\ CollectionsOf(org) \subseteq Collections
<1>1. KeysOf(org) = PlacedIn("private") /\ KeysOf(Shared) = PlacedIn("shared")
  BY Names DEF KeysOf
<1>2. PlacedIn("private") # {} /\ (PlacedIn("shared") # {} <=> class.shape # "whole")
  BY Places DEF Shapes
<1> QED
  BY <1>1, <1>2, Names DEF CollectionsOf

-----------------------------------------------------------------------------
\* What is read, and the records that are written.

LEMMA ReadIs ==
    ASSUME class \in Classes, NEW org \in Orgs, MayWrite(org), NEW id
    PROVE  /\ ~ReadsMirror(org)
           /\ ReadAs(org, id) =
                Merged(Merged(IF class.shape = "mixed" THEN Contents(Public, id) ELSE <<>>,
                              Contents(org, id)),
                       IF class.shape # "whole" THEN Contents(Shared, id) ELSE <<>>)
           /\ Found(org, id) <=>
                /\ class.shape = "mixed" => Stored(Public, id) # Absent
                /\ DOMAIN ReadAs(org, id) # {}
<1>1. ~ReadsMirror(org)
  BY DEF MayWrite, ReadsMirror
<1>2. IsFullySegregated <=> class.shape # "mixed"
  BY Places DEF Shapes
<1>3. Shared \in ReadCollections(org) <=> class.shape # "whole"
  BY CollectionsAre DEF ReadCollections
<1> QED
  BY <1>1, <1>2, <1>3 DEF ReadAs, Found

LEMMA ContentsAre ==
    ASSUME class \in Classes, NEW id, StoreStands(id)
    PROVE  /\ \A c \in Collections :
                 /\ Contents(c, id) \in Records
                 /\ DOMAIN Contents(c, id) \subseteq KeysOf(c)
           /\ Contents(Public, id) \in Records
           /\ DOMAIN Contents(Public, id) \subseteq PlacedIn("public")
BY EmptyRecord DEF StoreStands, Contents

LEMMA ReadIsTyped ==
    ASSUME class \in Classes, NEW org \in Orgs, MayWrite(org), NEW id, StoreStands(id)
    PROVE  /\ ReadAs(org, id) \in Records
           /\ DOMAIN ReadAs(org, id) \subseteq Attributes
           /\ class.shape = "mixed" /\ Found(org, id) =>
                /\ {"id", "owner", "pub"} \subseteq DOMAIN ReadAs(org, id)
                /\ ReadAs(org, id)["owner"] = Stored(Public, id)["owner"]
           /\ class.shape = "whole" /\ Found(org, id) => "id" \in DOMAIN ReadAs(org, id)
<1> DEFINE public == IF class.shape = "mixed" THEN Contents(Public, id) ELSE <<>>
           own == Contents(org, id)
           shared == IF class.shape # "whole" THEN Contents(Shared, id) ELSE <<>>
<1>1. ReadAs(org, id) = Merged(Merged(public, own), shared)
  BY ReadIs
<1>2. /\ public \in Records /\ own \in Records /\ shared \in Records
      /\ DOMAIN public \subseteq PlacedIn("public")
      /\ DOMAIN own \subseteq PlacedIn("private")
      /\ DOMAIN shared \subseteq PlacedIn("shared")
  <2>1. KeysOf(org) = PlacedIn("private") /\ KeysOf(Shared) = PlacedIn("shared")
    BY CollectionsAre
  <2> QED
    BY <2>1, ContentsAre, EmptyRecord, Names
<1>3. class.shape = "mixed" /\ Found(org, id) =>
          /\ DOMAIN public = PlacedIn("public") /\ public = Stored(Public, id)
  BY ReadIs DEF Contents, StoreStands
<1>4. class.shape = "whole" /\ "id" \notin DOMAIN own => DOMAIN own = {}
  BY Names, EmptyRecord DEF Contents, StoreStands
<1>5. class.shape = "whole" => DOMAIN public = {} /\ DOMAIN shared = {}
  BY EmptyRecord
<1>6. Found(org, id) => DOMAIN ReadAs(org, id) # {}
  BY ReadIs
<1> HIDE DEF public, own, shared
<1>7. /\ Merged(public, own) \in Records
      /\ DOMAIN Merged(public, own) = DOMAIN public \cup DOMAIN own
      /\ \A a \in DOMAIN public \cup DOMAIN own :
            Merged(public, own)[a] = IF a \in DOMAIN own THEN own[a] ELSE public[a]
  BY <1>2, MergedIs
<1> DEFINE both == Merged(public, own)
<1> HIDE DEF both
<1>8. /\ Merged(both, shared) \in Records
      /\ DOMAIN Merged(both, shared) = DOMAIN both \cup DOMAIN shared
      /\ \A a \in DOMAIN both \cup DOMAIN shared :
            Merged(both, shared)[a] = IF a \in DOMAIN shared THEN shared[a] ELSE both[a]
  BY <1>2, <1>7, MergedIs DEF both
<1>9. /\ DOMAIN ReadAs(org, id) = DOMAIN public \cup DOMAIN own \cup DOMAIN shared
      /\ ReadAs(org, id) \in Records
  BY <1>1, <1>7, <1>8 DEF both
<1>10. PlacedIn("public") \cup PlacedIn("private") \cup PlacedIn("shared") \subseteq Attributes
  BY DEF PlacedIn
<1>11. DOMAIN ReadAs(org, id) \subseteq Attributes
  BY <1>2, <1>9, <1>10
<1>12. ASSUME class.shape = "mixed", Found(org, id)
       PROVE  /\ {"id", "owner", "pub"} \subseteq DOMAIN ReadAs(org, id)
              /\ ReadAs(org, id)["owner"] = Stored(Public, id)["owner"]
  <2>1. DOMAIN public = {"id", "owner", "pub"} /\ public = Stored(Public, id)
        /\ DOMAIN own \subseteq {"priv"} /\ DOMAIN shared \subseteq {"shared"}
    BY <1>2, <1>3, <1>12, Places
  <2>2. both["owner"] = public["owner"] /\ "owner" \in DOMAIN both
    BY <1>7, <2>1 DEF both
  <2>3. Merged(both, shared)["owner"] = both["owner"]
    BY <1>8, <2>1, <2>2
  <2> QED
    BY <1>1, <1>9, <2>1, <2>2, <2>3 DEF both
<1>13. class.shape = "whole" /\ Found(org, id) => "id" \in DOMAIN ReadAs(org, id)
  BY <1>4, <1>5, <1>6, <1>9
<1> QED
  BY <1>9, <1>11, <1>12, <1>13

DataOf(data) == data \in Records /\ DOMAIN data \subseteq Attributes \ {"id", "owner"}

LEMMA UpdatedIs ==
    ASSUME class \in Classes, NEW org \in Orgs, MayWrite(org), NEW id, StoreStands(id),
           Found(org, id), NEW data, DataOf(data)
    PROVE  /\ Writable(Updated(org, id, data))
           /\ OwnerOf(Updated(org, id, data), org) = OwnerOf(ReadAs(org, id), org)
           /\ OwnerOf(Updated(org, id, data), org) \in Orgs
           /\ class.shape = "mixed" =>
                OwnerOf(Updated(org, id, data), org) = Stored(Public, id)["owner"]
           /\ class.shape = "mixed" =>
                Updated(org, id, data)["owner"] = Stored(Public, id)["owner"]
<1> DEFINE key == [id |-> TRUE]
           read == ReadAs(org, id)
           new == Merged(read, data)
           r == Merged(key, new)
<1>1. r = Updated(org, id, data)
  BY DEF Updated
<1>2. key \in Records /\ DOMAIN key = {"id"}
  BY KeyRecord
<1>3. /\ read \in Records /\ DOMAIN read \subseteq Attributes
      /\ class.shape = "mixed" =>
                /\ {"id", "owner", "pub"} \subseteq DOMAIN read
                /\ read["owner"] = Stored(Public, id)["owner"]
      /\ class.shape = "whole" => "id" \in DOMAIN read
  BY ReadIsTyped
<1> HIDE DEF key, read
<1>4. /\ new \in Records /\ DOMAIN new = DOMAIN read \cup DOMAIN data
      /\ \A a \in DOMAIN read \cup DOMAIN data :
            new[a] = IF a \in DOMAIN data THEN data[a] ELSE read[a]
  BY <1>3, MergedIs DEF DataOf
<1> HIDE DEF new
<1>5. /\ r \in Records /\ DOMAIN r = {"id"} \cup DOMAIN new
      /\ \A a \in {"id"} \cup DOMAIN new : r[a] = IF a \in DOMAIN new THEN new[a] ELSE key[a]
  BY <1>2, <1>4, MergedIs
<1> HIDE DEF r
<1>6. DOMAIN data \subseteq Attributes /\ "owner" \notin DOMAIN data
  BY DEF DataOf
<1>7. "id" \in Attributes /\ (class.shape # "mixed" => PlacedIn("public") \subseteq {"id"})
      /\ (class.shape = "mixed" => PlacedIn("public") = {"id", "owner", "pub"})
  BY Places DEF Shapes, AllAttributes
<1>8. Writable(r)
  BY <1>3, <1>4, <1>5, <1>6, <1>7 DEF Writable
<1>9. "owner" \in DOMAIN r <=> "owner" \in DOMAIN read
  BY <1>4, <1>5, <1>6
<1>10. "owner" \in DOMAIN r => r["owner"] = read["owner"]
  BY <1>4, <1>5, <1>6
<1>11. OwnerOf(r, org) = OwnerOf(read, org)
  BY <1>9, <1>10 DEF OwnerOf
<1>12. OwnerOf(read, org) \in Orgs
  BY <1>3, RecordsAre DEF OwnerOf
<1> QED
  BY <1>1, <1>3, <1>8, <1>9, <1>10, <1>11, <1>12 DEF read, OwnerOf

LEMMA NewIs ==
    ASSUME class \in Classes, NEW org \in Orgs, NEW data, DataOf(data),
           PlacedIn("public") \subseteq {"id", "owner"} \cup DOMAIN data
    PROVE  /\ Writable(NewRecord(org, data))
           /\ class.shape # "property" => NewRecord(org, data)["owner"] = org
<1> DEFINE both == [id |-> TRUE, owner |-> org]
           given == Restricted(both, Attributes)
           r == Merged(data, given)
<1>1. r = NewRecord(org, data)
  BY DEF NewRecord
<1>2. both \in Records /\ DOMAIN both = {"id", "owner"} /\ both["owner"] = org
  <2> DEFINE v == TRUE
             b == [id |-> v, owner |-> org]
  <2>1. v \in Orgs \cup Values \cup {TRUE}
    OBVIOUS
  <2> HIDE DEF v
  <2>2. /\ DOMAIN b = {"id", "owner"} /\ b["owner"] = org
        /\ b \in [{"id", "owner"} -> Orgs \cup Values \cup {TRUE}]
    BY <2>1, OwnedRecordIs
  <2> HIDE DEF b
  <2>3. b \in Records
    BY <2>2, RecordsAre DEF AllAttributes
  <2> QED
    BY <2>2, <2>3 DEF b, v
<1> HIDE DEF both
<1>3. /\ given \in Records /\ DOMAIN given = {"id", "owner"} \cap Attributes
      /\ "owner" \in DOMAIN given => given["owner"] = org
  BY <1>2, RestrictedIs
<1> HIDE DEF given
<1>4. /\ r \in Records /\ DOMAIN r = DOMAIN data \cup DOMAIN given
      /\ "owner" \in DOMAIN given => r["owner"] = org
  BY <1>3, MergedIs DEF DataOf
<1> HIDE DEF r
<1>5. "id" \in Attributes /\ PlacedIn("public") \subseteq Attributes
      /\ (class.shape # "property" => "owner" \in Attributes)
  BY Places DEF Shapes, AllAttributes, PlacedIn
<1>6. Writable(r)
  BY <1>3, <1>4, <1>5 DEF Writable, DataOf
<1> QED
  BY <1>1, <1>3, <1>4, <1>5, <1>6

-----------------------------------------------------------------------------
\* What the calls write.

LEMMA EmptyOrNot ==
    ASSUME NEW r \in Records
    PROVE  r = <<>> <=> DOMAIN r = {}
<1>1. r \in [DOMAIN r -> Orgs \cup Values \cup {TRUE}]
  BY RecordsAre
<1>2. <<>> \in [{} -> Orgs \cup Values \cup {TRUE}]
  OBVIOUS
<1>3. ASSUME DOMAIN r = {} PROVE r = <<>>
  BY <1>1, <1>2, <1>3
<1> QED
  BY <1>3, EmptyRecord

LEMMA SavingIs ==
    ASSUME class \in Classes, NEW ids \in SUBSET Ids, NEW cols \in SUBSET Collections,
           NEW records \in [ids -> Records], NEW flag \in BOOLEAN,
           NEW public, public = IF flag THEN PublicWrites(records) ELSE <<>>,
           NEW w, w = Merged(Merged(MirrorWrites(records), SegregatedWrites(cols, records)),
                             public)
    PROVE  Saving(w, cols, records, flag)
<1> DEFINE mirror == MirrorWrites(records)
           parts == SegregatedWrites(cols, records)
           both == Merged(mirror, parts)
           some == {id \in ids : DOMAIN records[id] \cap PlacedIn("public") # {}}
<1>1. DOMAIN records = ids
  OBVIOUS
<1>2. /\ DOMAIN mirror = IF class.mirrored THEN {Mirror} \X ids ELSE {}
      /\ \A k \in DOMAIN mirror : mirror[k] = records[k[2]]
  BY <1>1, EmptyRecord DEF MirrorWrites
<1>3. /\ DOMAIN parts = cols \X ids
      /\ \A k \in DOMAIN parts : parts[k] = Restricted(records[k[2]], KeysOf(k[1]))
  BY <1>1 DEF SegregatedWrites
<1>4. /\ DOMAIN PublicWrites(records) = {Public} \X some
      /\ \A k \in {Public} \X some :
            PublicWrites(records)[k] = Restricted(records[k[2]], PlacedIn("public"))
  <2>1. \A id \in ids : Restricted(records[id], PlacedIn("public")) # <<>>
                          <=> DOMAIN records[id] \cap PlacedIn("public") # {}
    BY RestrictedIs, EmptyOrNot
  <2>2. some = {id \in DOMAIN records : Restricted(records[id], PlacedIn("public")) # <<>>}
    BY <1>1, <2>1
  <2> HIDE DEF some
  <2> QED
    BY <2>2 DEF PublicWrites
<1> HIDE DEF mirror, parts, some
<1>5. /\ DOMAIN both = DOMAIN mirror \cup DOMAIN parts
      /\ \A k \in DOMAIN both : both[k] = IF k \in DOMAIN parts THEN parts[k] ELSE mirror[k]
  BY DEF Merged
<1> HIDE DEF both
<1>6. /\ DOMAIN w = DOMAIN both \cup DOMAIN public
      /\ \A k \in DOMAIN w : w[k] = IF k \in DOMAIN public THEN public[k] ELSE both[k]
  BY DEF Merged, both, mirror, parts
<1>7. (flag => public = PublicWrites(records)) /\ (~flag => DOMAIN public = {})
  BY EmptyRecord
<1> SUFFICES ASSUME NEW id \in Ids
             PROVE  /\ <<Mirror, id>> \in DOMAIN w <=> class.mirrored /\ id \in ids
                    /\ <<Mirror, id>> \in DOMAIN w => w[<<Mirror, id>>] = records[id]
                    /\ \A c \in Collections :
                          /\ <<c, id>> \in DOMAIN w <=> c \in cols /\ id \in ids
                          /\ <<c, id>> \in DOMAIN w =>
                                w[<<c, id>>] = Restricted(records[id], KeysOf(c))
                    /\ <<Public, id>> \in DOMAIN w <=>
                          flag /\ id \in some
                    /\ <<Public, id>> \in DOMAIN w =>
                          w[<<Public, id>>] = Restricted(records[id], PlacedIn("public"))
  BY <1>1 DEF Saving, some
<1>8. /\ <<Mirror, id>> \in DOMAIN mirror <=> class.mirrored /\ id \in ids
      /\ <<Mirror, id>> \notin DOMAIN parts
      /\ <<Mirror, id>> \notin DOMAIN public
  BY <1>2, <1>3, <1>4, <1>7, Names
<1>9. /\ <<Public, id>> \notin DOMAIN mirror
      /\ <<Public, id>> \notin DOMAIN parts
      /\ <<Public, id>> \in DOMAIN public <=> flag /\ id \in some
  BY <1>2, <1>3, <1>4, <1>7, Names
<1>10. ASSUME NEW c \in Collections
       PROVE  /\ <<c, id>> \notin DOMAIN mirror
              /\ <<c, id>> \in DOMAIN parts <=> c \in cols /\ id \in ids
              /\ <<c, id>> \notin DOMAIN public
  BY <1>2, <1>3, <1>4, <1>7, Names
<1>11. <<Mirror, id>> \in DOMAIN w => w[<<Mirror, id>>] = records[id]
  BY <1>2, <1>5, <1>6, <1>8
<1>12. \A c \in Collections : <<c, id>> \in DOMAIN w =>
           w[<<c, id>>] = Restricted(records[id], KeysOf(c))
  BY <1>3, <1>5, <1>6, <1>10
<1>13. <<Public, id>> \in DOMAIN w =>
           w[<<Public, id>>] = Restricted(records[id], PlacedIn("public"))
  <2>1. ASSUME <<Public, id>> \in DOMAIN w
        PROVE  flag /\ <<Public, id>> \in {Public} \X some
    BY <1>4, <1>5, <1>6, <1>9, <2>1
  <2> QED
    BY <1>4, <1>6, <1>7, <2>1
<1>14. <<Mirror, id>> \in DOMAIN w <=> class.mirrored /\ id \in ids
  BY <1>5, <1>6, <1>8
<1>15. \A c \in Collections : <<c, id>> \in DOMAIN w <=> c \in cols /\ id \in ids
  BY <1>5, <1>6, <1>10
<1>16. <<Public, id>> \in DOMAIN w <=> flag /\ id \in some
  BY <1>5, <1>6, <1>9
<1> QED
  BY <1>11, <1>12, <1>13, <1>14, <1>15, <1>16

-----------------------------------------------------------------------------
\* A transaction in flight stays current while nobody writes what it has read.

LEMMA SameClass ==
    ASSUME class' = class
    PROVE  /\ \A place : PlacedIn(place)' = PlacedIn(place)
           /\ Attributes' = Attributes
           /\ IsFullySegregated' <=> IsFullySegregated
           /\ \A c : KeysOf(c)' = KeysOf(c)
           /\ \A org : CollectionsOf(org)' = CollectionsOf(org)
           /\ \A org : ReadCollections(org)' = ReadCollections(org)
           /\ \A org : MayWrite(org)' <=> MayWrite(org)
           /\ \A org : ReadsMirror(org)' <=> ReadsMirror(org)
<1>1. \A place : PlacedIn(place)' = PlacedIn(place)
  BY DEF PlacedIn, Attributes
<1>2. Attributes' = Attributes
  BY DEF Attributes
<1>3. IsFullySegregated' <=> IsFullySegregated
  BY <1>1 DEF IsFullySegregated
<1>4. \A c : KeysOf(c)' = KeysOf(c)
  BY DEF KeysOf, PlacedIn, Attributes
<1>5. \A org : CollectionsOf(org)' = CollectionsOf(org)
  BY DEF CollectionsOf, KeysOf, PlacedIn, Attributes
<1>6. \A org : ReadCollections(org)' = ReadCollections(org)
  BY DEF ReadCollections, CollectionsOf, KeysOf, PlacedIn, Attributes
<1> QED
  BY <1>1, <1>2, <1>3, <1>4, <1>5, <1>6 DEF MayWrite, ReadsMirror

LEMMA SameRead ==
    ASSUME class \in Classes, class' = class, NEW org \in Orgs, MayWrite(org), NEW id \in Ids,
           \A k \in ReadKeys(org, {id}) : k \in Keys => world'[k] = world[k]
    PROVE  /\ ReadAs(org, id)' = ReadAs(org, id)
           /\ Found(org, id)' <=> Found(org, id)
<1>1. /\ IsFullySegregated' <=> IsFullySegregated
      /\ ReadCollections(org)' = ReadCollections(org)
      /\ ReadsMirror(org)' <=> ReadsMirror(org)
  BY SameClass
<1>2. ~ReadsMirror(org)
  BY ReadIs
<1>3. org \in ReadCollections(org)
  BY CollectionsAre DEF ReadCollections
<1>4. \A s \in Stores : <<s, id>> \in Keys
  BY DEF Keys
<1>5. \A s : s \in ReadCollections(org) \/ (~IsFullySegregated /\ s = Public)
               => <<s, id>> \in ReadKeys(org, {id})
  BY DEF ReadKeys
<1>6. Stored(org, id)' = Stored(org, id)
  BY <1>3, <1>4, <1>5, Names DEF Stored
<1>7. Shared \in ReadCollections(org) => Stored(Shared, id)' = Stored(Shared, id)
  BY <1>4, <1>5, Names DEF Stored
<1>8. ~IsFullySegregated => Stored(Public, id)' = Stored(Public, id)
  BY <1>4, <1>5, Names DEF Stored
<1>9. ReadAs(org, id)' = ReadAs(org, id)
  BY <1>1, <1>2, <1>6, <1>7, <1>8 DEF ReadAs, Contents
<1> QED
  BY <1>1, <1>2, <1>8, <1>9 DEF Found

LEMMA CurrentStays ==
    ASSUME class \in Classes, class' = class, NEW p, Current(p),
           \A k \in p.reads : k \in Keys => world'[k] = world[k]
    PROVE  Current(p)'
<1> DEFINE call == p.call
           org == call.org
           ids == call.ids
<1>1. org \in Orgs /\ MayWrite(org) /\ ids \in SUBSET Ids /\ MayWrite(org)'
  BY SameClass DEF Current
<1>2. CASE call.op = "create"
  <2>1. CreateStands(p)
    BY <1>2 DEF Current
  <2>2. \A id \in ids : <<Public, id>> \in p.reads /\ <<Public, id>> \in Keys
    BY <1>1, <2>1, Names DEF CreateStands, Keys
  <2>3. NoneExists(ids)'
    BY <2>1, <2>2 DEF CreateStands, NoneExists, Stored
  <2>4. NewRecord(org, call.data)' = NewRecord(org, call.data)
    BY SameClass DEF NewRecord
  <2>5. PICK records \in [ids -> Records] :
            /\ \A id \in ids : records[id] = NewRecord(org, call.data)
            /\ Saving(p.writes, CollectionsOf(org), records, ~IsFullySegregated)
    BY <2>1 DEF CreateStands
  <2>6. Saving(p.writes, CollectionsOf(org), records, ~IsFullySegregated)'
    BY <2>5, SameClass DEF Saving
  <2>7. CreateStands(p)'
    BY <2>1, <2>3, <2>4, <2>5, <2>6, SameClass DEF CreateStands
  <2> QED
    BY <1>1, <1>2, <2>7, SameClass DEF Current
<1>3. CASE call.op = "update"
  <2>1. UpdateStands(p)
    BY <1>3 DEF Current
  <2>2. ASSUME NEW id \in ids
        PROVE  ReadAs(org, id)' = ReadAs(org, id) /\ (Found(org, id)' <=> Found(org, id))
    <3>1. ReadKeys(org, {id}) \subseteq p.reads
      BY <2>1 DEF UpdateStands, ReadKeys
    <3> QED
      BY <1>1, <3>1, SameRead
  <2>3. \A id \in ids : Updated(org, id, call.data)' = Updated(org, id, call.data)
    BY <2>2 DEF Updated
  <2>4. PICK records \in [ids -> Records] :
            /\ \A id \in ids : records[id] = Updated(org, id, call.data)
            /\ MixedOwners \/ \E o \in Orgs : \A id \in ids : OwnerOf(records[id], org) = o
            /\ Saving(p.writes, UpdateCollections(org, records), records, TRUE)
    BY <2>1 DEF UpdateStands
  <2>5. UpdateCollections(org, records)' = UpdateCollections(org, records)
    BY SameClass DEF UpdateCollections
  <2>6. Saving(p.writes, UpdateCollections(org, records), records, TRUE)'
    BY <2>4, <2>5, SameClass DEF Saving
  <2>7. ReadKeys(org, ids)' = ReadKeys(org, ids)
    BY SameClass DEF ReadKeys
  <2>8. UpdateStands(p)'
    BY <2>1, <2>2, <2>3, <2>4, <2>6, <2>7 DEF UpdateStands
  <2> QED
    BY <1>1, <1>3, <2>8, SameClass DEF Current
<1>4. CASE call.op = "delete"
  <2>1. PICK id \in Ids, cols \in SUBSET Collections :
            /\ ids = {id}
            /\ Found(org, id)
            /\ ReadKeys(org, {id}) \subseteq p.reads
            /\ cols \X {id} \subseteq p.reads
            /\ CollectionsOf(OwnerOf(ReadAs(org, id), org)) \subseteq cols
            /\ \A c \in cols : Stored(c, id) # Absent
            /\ Deleting(p.writes,
                        cols \cup (IF IsFullySegregated THEN {} ELSE {Public}), id)
    BY <1>4 DEF Current, DeleteStands
  <2>2. ReadAs(org, id)' = ReadAs(org, id) /\ (Found(org, id)' <=> Found(org, id))
    BY <1>1, <2>1, SameRead
  <2>3. \A c \in cols : Stored(c, id)' = Stored(c, id)
    BY <2>1, Names DEF Stored, Keys
  <2>4. ReadKeys(org, {id})' = ReadKeys(org, {id})
    BY SameClass DEF ReadKeys
  <2>5. CollectionsOf(OwnerOf(ReadAs(org, id), org))'
          = CollectionsOf(OwnerOf(ReadAs(org, id), org))
    BY <2>2, SameClass DEF CollectionsOf, KeysOf, PlacedIn, Attributes
  <2>6. DeleteStands(p)'
    BY <2>1, <2>2, <2>3, <2>4, <2>5, SameClass DEF DeleteStands
  <2> QED
    BY <1>1, <1>4, <2>6, SameClass DEF Current
<1> QED
  BY <1>2, <1>3, <1>4 DEF Current

-----------------------------------------------------------------------------
\* What is endorsed is current.

LEMMA DataIsTyped ==
    ASSUME class \in Classes, NEW data \in Data
    PROVE  DataOf(data)
<1> DEFINE settable == Attributes \ {"id", "owner"}
           choices == {{a} : a \in settable} \cup {settable}
<1>0. \E v \in Values, attrs \in choices : data \in [attrs -> {v}]
  BY DEF Data
<1>1. PICK v \in Values, attrs \in SUBSET settable : data \in [attrs -> {v}]
  BY <1>0
<1>2. Attributes \subseteq AllAttributes
  BY Places DEF Shapes, AllAttributes
<1>3. DOMAIN data = attrs /\ data \in [attrs -> Orgs \cup Values \cup {TRUE}]
  BY <1>1
<1> QED
  BY <1>1, <1>2, <1>3, RecordsAre DEF DataOf

\* The new transaction takes its slot.
LEMMA EndorseKeeps ==
    ASSUME StoreInv, NEW t \in Txs, NEW call, NEW reads, NEW writes,
           Ledger!Endorse(t, call, reads, writes), class' = class,
           Current([call |-> call, reads |-> reads, writes |-> writes])
    PROVE  StoreInv'
<1> DEFINE p == [call |-> call, reads |-> reads, writes |-> writes]
<1>1. /\ phase' = [phase EXCEPT ![t] = "endorsed"]
      /\ proposal' = [proposal EXCEPT ![t] = p]
      /\ world' = world
  BY DEF Ledger!Endorse
<1>2. /\ class \in Classes /\ phase \in [Txs -> Ledger!Phases]
      /\ proposal = [u \in Txs |-> proposal[u]]
  BY DEF StoreInv
<1> HIDE DEF p
<1>3. ASSUME NEW u \in Txs, phase'[u] = "endorsed" PROVE Current(proposal[u])'
  <2>1. PICK q : q = proposal'[u]
    OBVIOUS
  <2>2. Current(q)
    <3>1. CASE u = t
      BY <1>1, <1>2, <2>1, <3>1 DEF p
    <3>2. CASE u # t
      BY <1>1, <1>2, <1>3, <2>1, <3>2 DEF StoreInv
    <3> QED
      BY <3>1, <3>2
  <2>3. Current(q)'
    BY <1>1, <1>2, <2>2, CurrentStays
  <2> QED
    BY <2>1, <2>3
<1>4. ASSUME NEW id \in Ids PROVE StoreStands(id)'
  <2>1. StoreStands(id)
    BY DEF StoreInv
  <2> QED
    BY <1>1, <2>1, SameClass DEF StoreStands, Stored
<1>5. phase' \in [Txs -> Ledger!Phases] /\ proposal' = [u \in Txs |-> proposal'[u]]
  BY <1>1, <1>2 DEF Ledger!Phases
<1> QED
  BY <1>2, <1>3, <1>4, <1>5 DEF StoreInv

LEMMA CreateKeeps ==
    ASSUME StoreInv, NEW t \in Txs, NEW org \in Orgs, NEW ids \in SUBSET Ids,
           NEW data \in Data, Create(t, org, ids, data)
    PROVE  StoreInv'
<1> DEFINE records == [id \in ids |-> NewRecord(org, data)]
           call == [op |-> "create", org |-> org, ids |-> ids, data |-> data]
           reads == {Public} \X ids
           cols == CollectionsOf(org)
           public == IF IsFullySegregated THEN <<>> ELSE PublicWrites(records)
           writes == Merged(Merged(MirrorWrites(records), SegregatedWrites(cols, records)), public)
           p == [call |-> call, reads |-> reads, writes |-> writes]
<1>1. /\ MayWrite(org) /\ NoneExists(ids) /\ class' = class
      /\ PlacedIn("public") \subseteq {"id", "owner"} \cup DOMAIN data
      /\ Ledger!Endorse(t, call, reads, writes)
  BY DEF Create
<1>2. class \in Classes /\ DataOf(data)
  BY DataIsTyped DEF StoreInv
<1>3. records \in [ids -> Records] /\ \A id \in ids : records[id] = NewRecord(org, data)
  BY <1>1, <1>2, NewIs DEF Writable
<1> HIDE DEF records
<1>4. cols \in SUBSET Collections
  BY <1>2, CollectionsAre
<1> HIDE DEF cols
<1>5. Saving(writes, cols, records, ~IsFullySegregated)
  <2>1. (~IsFullySegregated) \in BOOLEAN
    OBVIOUS
  <2>2. public = IF ~IsFullySegregated THEN PublicWrites(records) ELSE <<>>
    OBVIOUS
  <2> HIDE DEF public
  <2> QED
    BY <1>2, <1>3, <1>4, <2>1, <2>2, SavingIs
<1> HIDE DEF writes
<1>6. /\ call.op = "create" /\ call.org = org /\ call.ids = ids /\ call.data = data
      /\ p.call = call /\ p.reads = reads /\ p.writes = writes
  OBVIOUS
<1> HIDE DEF call, p
<1>7. CreateStands(p)
  BY <1>1, <1>3, <1>5, <1>6 DEF CreateStands, cols
<1>8. Current(p)
  BY <1>1, <1>2, <1>6, <1>7 DEF Current, DataOf
<1> QED
  BY <1>1, <1>8, EndorseKeeps DEF p

LEMMA UpdateKeeps ==
    ASSUME StoreInv, NEW t \in Txs, NEW org \in Orgs, NEW ids \in SUBSET Ids,
           NEW data \in Data, Update(t, org, ids, data)
    PROVE  StoreInv'
<1> DEFINE records == [id \in ids |-> Updated(org, id, data)]
           call == [op |-> "update", org |-> org, ids |-> ids, data |-> data]
           reads == ReadKeys(org, ids)
           cols == UpdateCollections(org, records)
           writes == Merged(Merged(MirrorWrites(records), SegregatedWrites(cols, records)),
                            PublicWrites(records))
           p == [call |-> call, reads |-> reads, writes |-> writes]
<1>1. /\ MayWrite(org) /\ class' = class
      /\ \A id \in ids : Found(org, id)
      /\ MixedOwners \/ \E o \in Orgs : {OwnerOf(records[id], org) : id \in ids} = {o}
      /\ Ledger!Endorse(t, call, reads, writes)
  BY DEF Update
<1>2. class \in Classes /\ DataOf(data) /\ \A id \in ids : StoreStands(id)
  BY DataIsTyped DEF StoreInv
<1>3. /\ records \in [ids -> Records] /\ DOMAIN records = ids
      /\ \A id \in ids : records[id] = Updated(org, id, data)
  BY <1>1, <1>2, UpdatedIs DEF Writable
<1>4. \A id \in ids : OwnerOf(records[id], org) \in Orgs
  BY <1>1, <1>2, <1>3, UpdatedIs
<1> HIDE DEF records
<1>5. cols \in SUBSET Collections
  BY <1>2, <1>3, <1>4, CollectionsAre DEF UpdateCollections
<1>6. MixedOwners \/ \E o \in Orgs : \A id \in ids : OwnerOf(records[id], org) = o
  BY <1>1
<1> HIDE DEF cols
<1>7. Saving(writes, cols, records, TRUE)
  <2> DEFINE public == PublicWrites(records)
  <2>1. public = IF TRUE THEN PublicWrites(records) ELSE <<>>
    OBVIOUS
  <2> HIDE DEF public
  <2>2. writes = Merged(Merged(MirrorWrites(records), SegregatedWrites(cols, records)), public)
    BY DEF public
  <2> HIDE DEF writes
  <2> QED
    BY <1>2, <1>3, <1>5, <2>1, <2>2, SavingIs
<1> HIDE DEF writes
<1>8. /\ call.op = "update" /\ call.org = org /\ call.ids = ids /\ call.data = data
      /\ p.call = call /\ p.reads = reads /\ p.writes = writes
  OBVIOUS
<1> HIDE DEF call, p
<1>9. UpdateStands(p)
  BY <1>1, <1>3, <1>6, <1>7, <1>8 DEF UpdateStands, cols
<1>10. Current(p)
  BY <1>1, <1>2, <1>8, <1>9 DEF Current, DataOf
<1> QED
  BY <1>1, <1>10, EndorseKeeps DEF p

LEMMA DeleteKeeps ==
    ASSUME StoreInv, NEW t \in Txs, NEW org \in Orgs, NEW id \in Ids, Delete(t, org, id)
    PROVE  StoreInv'
<1> DEFINE call == [op |-> "delete", org |-> org, ids |-> {id}, data |-> <<>>]
<1>1. PICK cols \in DeleteCollections(org, ReadAs(org, id)), mirrored \in MirrorDeletes(id) :
          LET stores == cols \cup (IF IsFullySegregated THEN {} ELSE {Public})
          IN  /\ MayWrite(org)
              /\ Found(org, id)
              /\ \A c \in cols : Stored(c, id) # Absent
              /\ Ledger!Endorse(t, call,
                   ReadKeys(org, {id}) \cup (cols \X {id}) \cup ({Mirror} \X {id}),
                   Merged(mirrored, [k \in stores \X {id} |-> Absent]))
              /\ UNCHANGED class
  BY DEF Delete
<1> DEFINE stores == cols \cup (IF IsFullySegregated THEN {} ELSE {Public})
           reads == ReadKeys(org, {id}) \cup (cols \X {id}) \cup ({Mirror} \X {id})
           writes == Merged(mirrored, [k \in stores \X {id} |-> Absent])
           p == [call |-> call, reads |-> reads, writes |-> writes]
<1>2. class \in Classes /\ StoreStands(id)
  BY DEF StoreInv
<1>3. OwnerOf(ReadAs(org, id), org) \in Orgs
  BY <1>1, <1>2, ReadIsTyped, RecordsAre DEF OwnerOf
<1>4. /\ cols \in SUBSET Collections
      /\ CollectionsOf(OwnerOf(ReadAs(org, id), org)) \subseteq cols
  BY <1>2, <1>3, CollectionsAre DEF DeleteCollections, ReadCollections
<1>5. stores \subseteq Collections \cup {Public}
  BY <1>4
<1>6. Deleting(writes, stores, id)
  <2>1. /\ DOMAIN mirrored \subseteq {<<Mirror, id>>}
        /\ \A k \in DOMAIN mirrored : mirrored[k] = Absent
    <3>1. CASE mirrored = <<>>
      BY <3>1, EmptyRecord
    <3>2. CASE mirrored = [k \in {<<Mirror, id>>} |-> Absent]
      BY <3>2
    <3> QED
      BY <3>1, <3>2 DEF MirrorDeletes
  <2> HIDE DEF stores
  <2>2. /\ DOMAIN writes = DOMAIN mirrored \cup (stores \X {id})
        /\ \A k \in DOMAIN writes : writes[k] = Absent
    BY <2>1 DEF Merged
  <2> HIDE DEF writes
  <2>3. ASSUME NEW s \in Stores, NEW i \in Ids
        PROVE  /\ <<s, i>> \in DOMAIN writes => writes[<<s, i>>] = Absent /\ i = id
               /\ s # Mirror /\ <<s, i>> \in DOMAIN writes => s \in stores
               /\ s \in stores => <<s, id>> \in DOMAIN writes
    BY <2>1, <2>2
  <2> QED
    BY <2>3 DEF Deleting
<1>7. Ledger!Endorse(t, call, reads, writes) /\ class' = class
  BY <1>1
<1> HIDE DEF writes
<1>8. /\ call.op = "delete" /\ call.org = org /\ call.ids = {id}
      /\ p.call = call /\ p.reads = reads /\ p.writes = writes
  OBVIOUS
<1> HIDE DEF call, p
<1>9. DeleteStands(p)
  <2>1. ReadKeys(org, {id}) \subseteq p.reads /\ cols \X {id} \subseteq p.reads
    BY <1>8
  <2> QED
    BY <1>1, <1>4, <1>6, <1>8, <2>1 DEF DeleteStands
<1>10. Current(p)
  BY <1>1, <1>8, <1>9 DEF Current
<1> QED
  BY <1>7, <1>10, EndorseKeeps DEF p

-----------------------------------------------------------------------------
\* A transaction is committed.

Applied(w) ==
    \A s \in Stores, id \in Ids :
        Stored(s, id)' = IF <<s, id>> \in DOMAIN w THEN w[<<s, id>>] ELSE Stored(s, id)

LEMMA SavedStands ==
    ASSUME class \in Classes, class' = class, NEW id \in Ids, StoreStands(id),
           NEW w, NEW cols, NEW records, NEW flag \in BOOLEAN,
           Saving(w, cols, records, flag), Applied(w),
           id \in DOMAIN records => Writable(records[id])
    PROVE  StoreStands(id)'
<1>1. ASSUME NEW c \in Collections, Stored(c, id)' # Absent
      PROVE  /\ Stored(c, id)' \in Records
             /\ DOMAIN Stored(c, id)' \subseteq KeysOf(c)
             /\ class.shape = "whole" /\ c \in Orgs => "id" \in DOMAIN Stored(c, id)'
  <2>1. CASE <<c, id>> \in DOMAIN w
    <3>1. id \in DOMAIN records /\ Stored(c, id)' = Restricted(records[id], KeysOf(c))
      BY <2>1, Names DEF Saving, Applied
    <3>2. records[id] \in Records /\ "id" \in DOMAIN records[id]
      BY <3>1 DEF Writable
    <3>3. class.shape = "whole" /\ c \in Orgs => "id" \in KeysOf(c)
      BY CollectionsAre, Places
    <3>4. PICK r, keys : r = records[id] /\ keys = KeysOf(c)
      OBVIOUS
    <3>5. /\ Restricted(r, keys) \in Records
          /\ DOMAIN Restricted(r, keys) = DOMAIN r \cap keys
      BY <3>2, <3>4, RestrictedIs
    <3> QED
      BY <3>1, <3>2, <3>3, <3>4, <3>5
  <2>2. CASE <<c, id>> \notin DOMAIN w
    BY <1>1, <2>2, Names DEF Applied, StoreStands
  <2> QED
    BY <2>1, <2>2
<1>2. ASSUME Stored(Public, id)' # Absent
      PROVE  /\ Stored(Public, id)' \in Records
             /\ DOMAIN Stored(Public, id)' = PlacedIn("public")
             /\ class.shape # "whole"
  <2>1. CASE <<Public, id>> \in DOMAIN w
    <3>1. /\ id \in DOMAIN records
          /\ Stored(Public, id)' = Restricted(records[id], PlacedIn("public"))
          /\ DOMAIN records[id] \cap PlacedIn("public") # {}
      BY <2>1, Names DEF Saving, Applied
    <3>2. records[id] \in Records /\ PlacedIn("public") \subseteq DOMAIN records[id]
      BY <3>1 DEF Writable
    <3>3. class.shape # "whole"
      BY <3>1, Places
    <3> QED
      BY <3>1, <3>2, <3>3, RestrictedIs
  <2>2. CASE <<Public, id>> \notin DOMAIN w
    BY <1>2, <2>2, Names DEF Applied, StoreStands
  <2> QED
    BY <2>1, <2>2
<1>3. /\ \A c : KeysOf(c)' = KeysOf(c)
      /\ PlacedIn("public")' = PlacedIn("public")
  BY SameClass
<1> QED
  BY <1>1, <1>2, <1>3 DEF StoreStands

LEMMA DeletedStands ==
    ASSUME class' = class, NEW id \in Ids, StoreStands(id),
           NEW w, NEW stores, NEW gone \in Ids, Deleting(w, stores, gone), Applied(w)
    PROVE  StoreStands(id)'
<1>1. \A s \in Stores : Stored(s, id)' \in {Stored(s, id), Absent}
  BY DEF Deleting, Applied
<1>2. /\ \A c : KeysOf(c)' = KeysOf(c)
      /\ PlacedIn("public")' = PlacedIn("public")
  BY SameClass
<1>3. \A c \in Collections : Stored(c, id)' # Absent => Stored(c, id)' = Stored(c, id)
  BY <1>1, Names
<1>4. Stored(Public, id)' # Absent => Stored(Public, id)' = Stored(Public, id)
  BY <1>1, Names
<1> QED
  BY <1>2, <1>3, <1>4 DEF StoreStands

\* What create and update have in common.
LEMMA SavesWritable ==
    ASSUME StoreInv, NEW p, Current(p), p.call.op # "delete"
    PROVE  \E cols, records : \E flag \in BOOLEAN :
              /\ DOMAIN records = p.call.ids
              /\ \A id \in p.call.ids : Writable(records[id])
              /\ Saving(p.writes, cols, records, flag)
<1> DEFINE call == p.call
           org == call.org
           ids == call.ids
<1>1. class \in Classes /\ \A id \in Ids : StoreStands(id)
  BY DEF StoreInv
<1>2. /\ org \in Orgs /\ MayWrite(org) /\ ids \in SUBSET Ids
      /\ DataOf(call.data)
      /\ CreateStands(p) \/ UpdateStands(p)
  BY DEF Current, DataOf
<1>3. CASE CreateStands(p)
  <2>1. PICK records \in [ids -> Records] :
            /\ \A id \in ids : records[id] = NewRecord(org, call.data)
            /\ Saving(p.writes, CollectionsOf(org), records, ~IsFullySegregated)
    BY <1>3 DEF CreateStands
  <2>2. PlacedIn("public") \subseteq {"id", "owner"} \cup DOMAIN call.data
    BY <1>3 DEF CreateStands
  <2>3. \A id \in ids : Writable(records[id])
    <3>1. Writable(NewRecord(org, call.data))
      BY <1>1, <1>2, <2>2, NewIs
    <3> QED
      BY <2>1, <3>1
  <2>4. PICK flag \in BOOLEAN : flag <=> ~IsFullySegregated
    OBVIOUS
  <2>5. Saving(p.writes, CollectionsOf(org), records, flag)
    BY <2>1, <2>4 DEF Saving
  <2>6. DOMAIN records = ids
    BY <2>1
  <2> QED
    BY <2>3, <2>5, <2>6
<1>4. CASE UpdateStands(p)
  <2>1. PICK records \in [ids -> Records] :
            /\ \A id \in ids : records[id] = Updated(org, id, call.data)
            /\ Saving(p.writes, UpdateCollections(org, records), records, TRUE)
    BY <1>4 DEF UpdateStands
  <2>2. \A id \in ids : Found(org, id) /\ StoreStands(id)
    BY <1>1, <1>2, <1>4 DEF UpdateStands
  <2>3. ASSUME NEW id \in ids PROVE Writable(records[id])
    <3>1. PICK data : data = call.data
      OBVIOUS
    <3>2. Writable(Updated(org, id, data))
      BY <1>1, <1>2, <2>2, <3>1, UpdatedIs
    <3> QED
      BY <2>1, <3>1, <3>2
  <2>4. DOMAIN records = ids
    BY <2>1
  <2> QED
    BY <2>1, <2>3, <2>4
<1> QED
  BY <1>2, <1>3, <1>4

LEMMA CommitAt ==
    ASSUME NEW t \in Txs, Ledger!CommitValid(t), NEW p, p = proposal[t]
    PROVE  Applied(p.writes)
BY DEF Ledger!CommitValid, Applied, Stored, Keys

LEMMA CommitKeeps ==
    ASSUME StoreInv, NEW t \in Txs, Ledger!CommitValid(t), class' = class
    PROVE  StoreInv'
<1>1. PICK p : p = proposal[t]
  OBVIOUS
<1> DEFINE w == p.writes
           stale == Ledger!ReadersOf(DOMAIN w) \ {t}
<1>2. /\ phase[t] = "endorsed"
      /\ world' = [k \in Keys |-> IF k \in DOMAIN w THEN w[k] ELSE world[k]]
      /\ phase' = [u \in Txs |-> IF u = t THEN "idle"
                                 ELSE IF u \in stale THEN "stale" ELSE phase[u]]
      /\ proposal' = [u \in Txs |-> IF u = t \/ u \in stale
                                    THEN NoProposal ELSE proposal[u]]
  BY <1>1 DEF Ledger!CommitValid
<1>3. class \in Classes /\ phase \in [Txs -> Ledger!Phases] /\ Current(p)
  BY <1>1, <1>2 DEF StoreInv
<1>4. Applied(w)
  BY <1>1, CommitAt
<1>5. ASSUME NEW id \in Ids PROVE StoreStands(id)'
  <2>1. StoreStands(id)
    BY DEF StoreInv
  <2>2. CASE p.call.op = "delete"
    <3>1. PICK gone \in Ids : \E stores : Deleting(w, stores, gone)
      BY <1>3, <2>2 DEF Current, DeleteStands
    <3>2. PICK stores : Deleting(w, stores, gone)
      BY <3>1
    <3> QED
      BY <1>4, <2>1, <3>2, DeletedStands
  <2>3. CASE p.call.op # "delete"
    <3>1. \E cols, records : \E flag \in BOOLEAN :
            /\ DOMAIN records = p.call.ids
            /\ \A i \in p.call.ids : Writable(records[i])
            /\ Saving(w, cols, records, flag)
      BY <1>3, <2>3, SavesWritable
    <3>2. PICK cols, records : \E flag \in BOOLEAN :
            /\ DOMAIN records = p.call.ids
            /\ \A i \in p.call.ids : Writable(records[i])
            /\ Saving(w, cols, records, flag)
      BY <3>1
    <3>3. PICK flag \in BOOLEAN :
            /\ DOMAIN records = p.call.ids
            /\ \A i \in p.call.ids : Writable(records[i])
            /\ Saving(w, cols, records, flag)
      BY <3>2
    <3> QED
      BY <1>3, <1>4, <2>1, <3>3, SavedStands
  <2> QED
    BY <2>2, <2>3
<1>6. ASSUME NEW u \in Txs, phase'[u] = "endorsed" PROVE Current(proposal[u])'
  <2>1. u # t /\ phase[u] = "endorsed" /\ u \notin stale /\ proposal'[u] = proposal[u]
    BY <1>2, <1>6
  <2>2. PICK q : q = proposal[u]
    OBVIOUS
  <2>3. q.reads \cap DOMAIN w = {}
    BY <2>1, <2>2 DEF Ledger!ReadersOf
  <2>4. \A k \in q.reads : k \in Keys => world'[k] = world[k]
    BY <1>2, <2>3
  <2>5. Current(q)
    BY <2>1, <2>2 DEF StoreInv
  <2>6. Current(q)'
    BY <1>3, <2>4, <2>5, CurrentStays
  <2> QED
    BY <2>1, <2>2, <2>6
<1>7. phase' \in [Txs -> Ledger!Phases] /\ proposal' = [u \in Txs |-> proposal'[u]]
  BY <1>2, <1>3 DEF Ledger!Phases
<1> QED
  BY <1>3, <1>5, <1>6, <1>7 DEF StoreInv

\* A slot is emptied, and nothing else.
LEMMA FreeKeeps ==
    ASSUME StoreInv, NEW t \in Txs,
           Ledger!CommitInvalid(t) \/ Ledger!Abandon(t) \/ UNCHANGED <<world, phase, proposal>>,
           class' = class
    PROVE  StoreInv'
<1>1. /\ world' = world
      /\ phase' \in [Txs -> Ledger!Phases] /\ proposal' = [u \in Txs |-> proposal'[u]]
      /\ \A u \in Txs : phase'[u] = "endorsed" =>
            phase[u] = "endorsed" /\ proposal'[u] = proposal[u]
  BY DEF StoreInv, Ledger!CommitInvalid, Ledger!Abandon, Ledger!Phases
<1>2. ASSUME NEW u \in Txs, phase'[u] = "endorsed" PROVE Current(proposal[u])'
  <2>1. PICK q : q = proposal[u]
    OBVIOUS
  <2>2. Current(q) /\ class \in Classes
    BY <1>1, <1>2, <2>1 DEF StoreInv
  <2>3. Current(q)'
    BY <1>1, <2>2, CurrentStays
  <2> QED
    BY <1>1, <1>2, <2>1, <2>3
<1>3. ASSUME NEW id \in Ids PROVE StoreStands(id)'
  <2>1. StoreStands(id)
    BY DEF StoreInv
  <2> QED
    BY <1>1, <2>1, SameClass DEF StoreStands, Stored
<1> QED
  BY <1>1, <1>2, <1>3 DEF StoreInv

LEMMA InitStores == Init => StoreInv
<1> SUFFICES ASSUME Init PROVE StoreInv
  OBVIOUS
<1>1. ASSUME NEW id \in Ids PROVE StoreStands(id)
  <2>1. \A s \in Stores : Stored(s, id) = Absent
    BY DEF Init, Ledger!Init, Stored, Keys
  <2> QED
    BY <2>1, Names DEF StoreStands
<1> QED
  BY <1>1 DEF Init, Ledger!Init, Ledger!Phases, StoreInv, Classes

LEMMA StoresStep ==
    ASSUME StoreInv, [Next]_vars
    PROVE  StoreInv'
<1>1. ASSUME NEW t \in Txs, NEW org \in Orgs, NEW ids \in SUBSET Ids, NEW data \in Data,
             Create(t, org, ids, data) \/ Update(t, org, ids, data)
      PROVE  StoreInv'
  BY <1>1, CreateKeeps, UpdateKeeps
<1>2. ASSUME NEW t \in Txs, NEW org \in Orgs, NEW id \in Ids, Delete(t, org, id)
      PROVE  StoreInv'
  BY <1>2, DeleteKeeps
<1>3. ASSUME NEW t \in Txs, Settle(t)
      PROVE  StoreInv'
  BY <1>3, CommitKeeps, FreeKeeps DEF Settle
<1>4. ASSUME UNCHANGED vars PROVE StoreInv'
  <2>1. UNCHANGED <<world, phase, proposal, class>>
    BY <1>4 DEF vars
  <2>2. CASE Txs = {}
    <3>1. \A id \in Ids : StoreStands(id)'
      BY <2>1, SameClass DEF StoreInv, StoreStands, Stored
    <3> QED
      BY <2>1, <2>2, <3>1 DEF StoreInv
  <2>3. CASE Txs # {}
    BY <2>1, <2>3, FreeKeeps
  <2> QED
    BY <2>2, <2>3
<1> QED
  BY <1>1, <1>2, <1>3, <1>4 DEF Next

LEMMA StoresHold == Spec => []StoreInv
<1>1. StoreInv /\ [Next]_vars => StoreInv'
  BY StoresStep
<1> QED
  BY <1>1, InitStores, PTL DEF Spec

-----------------------------------------------------------------------------
\* The parts of a record make up the record.

LEMMA SameRecord ==
    ASSUME NEW r \in Records, NEW s \in Records, DOMAIN r = DOMAIN s,
           \A a \in DOMAIN r : r[a] = s[a]
    PROVE  r = s
<1>1. /\ r \in [DOMAIN r -> Orgs \cup Values \cup {TRUE}]
      /\ s \in [DOMAIN s -> Orgs \cup Values \cup {TRUE}]
  BY RecordsAre
<1> QED
  BY <1>1

LEMMA PartsOf ==
    ASSUME NEW r \in Records, NEW A, NEW B, NEW C
    PROVE  Merged(Merged(Restricted(r, A), Restricted(r, B)), Restricted(r, C))
             = Restricted(r, A \cup B \cup C)
<1> DEFINE a == Restricted(r, A)
           b == Restricted(r, B)
           c == Restricted(r, C)
           ab == Merged(a, b)
           all == Restricted(r, A \cup B \cup C)
<1>1. /\ a \in Records /\ DOMAIN a = DOMAIN r \cap A
      /\ \A x \in DOMAIN r \cap A : a[x] = r[x]
  BY RestrictedIs
<1>2. /\ b \in Records /\ DOMAIN b = DOMAIN r \cap B
      /\ \A x \in DOMAIN r \cap B : b[x] = r[x]
  BY RestrictedIs
<1>3. /\ c \in Records /\ DOMAIN c = DOMAIN r \cap C
      /\ \A x \in DOMAIN r \cap C : c[x] = r[x]
  BY RestrictedIs
<1>4. /\ all \in Records /\ DOMAIN all = DOMAIN r \cap (A \cup B \cup C)
      /\ \A x \in DOMAIN r \cap (A \cup B \cup C) : all[x] = r[x]
  BY RestrictedIs
<1> HIDE DEF a, b, c, all
<1>5. /\ ab \in Records /\ DOMAIN ab = DOMAIN a \cup DOMAIN b
      /\ \A x \in DOMAIN a \cup DOMAIN b : ab[x] = IF x \in DOMAIN b THEN b[x] ELSE a[x]
  BY <1>1, <1>2, MergedIs
<1> HIDE DEF ab
<1>6. /\ Merged(ab, c) \in Records /\ DOMAIN Merged(ab, c) = DOMAIN ab \cup DOMAIN c
      /\ \A x \in DOMAIN ab \cup DOMAIN c :
            Merged(ab, c)[x] = IF x \in DOMAIN c THEN c[x] ELSE ab[x]
  BY <1>3, <1>5, MergedIs
<1>7. Merged(ab, c) = all
  <2>1. DOMAIN Merged(ab, c) = DOMAIN all
    BY <1>1, <1>2, <1>3, <1>4, <1>5, <1>6
  <2>2. \A x \in DOMAIN all : Merged(ab, c)[x] = all[x]
    BY <1>1, <1>2, <1>3, <1>4, <1>5, <1>6
  <2> QED
    BY <1>4, <1>6, <2>1, <2>2, SameRecord
<1> QED
  BY <1>7 DEF a, b, c, ab, all

LEMMA RestrictedToAll ==
    ASSUME NEW r \in Records, NEW A, DOMAIN r \subseteq A
    PROVE  Restricted(r, A) = r
<1>1. /\ Restricted(r, A) \in Records /\ DOMAIN Restricted(r, A) = DOMAIN r
      /\ \A a \in DOMAIN r : Restricted(r, A)[a] = r[a]
  BY RestrictedIs
<1> QED
  BY <1>1, SameRecord

-----------------------------------------------------------------------------
\* The second layer is inductive, given the first, if calls are on the records
\* of one owner.

LEMMA MixedPlaces ==
    ASSUME class \in Classes, HasPublicPart
    PROVE  /\ class.shape = "mixed"
           /\ PlacedIn("public") = {"id", "owner", "pub"}
           /\ KeysOf(Shared) = {"shared"}
           /\ \A org \in Orgs : KeysOf(org) = {"priv"} /\ CollectionsOf(org) = {org, Shared}
<1>1. class.shape = "mixed"
  BY Places DEF HasPublicPart, Shapes
<1>2. PlacedIn("public") = {"id", "owner", "pub"}
      /\ PlacedIn("private") = {"priv"} /\ PlacedIn("shared") = {"shared"}
  BY <1>1, Places
<1>3. KeysOf(Shared) = {"shared"} /\ \A org \in Orgs : KeysOf(org) = {"priv"}
  BY <1>2, Names DEF KeysOf
<1> QED
  BY <1>1, <1>2, <1>3 DEF CollectionsOf

\* A record of the owner o is written.
LEMMA PartsSaved ==
    ASSUME class \in Classes, class' = class, HasPublicPart, NEW id \in Ids,
           StoreStands(id), PartsStand(id),
           NEW w, NEW cols, NEW records, Saving(w, cols, records, TRUE), Applied(w),
           NEW o \in Orgs,
           id \in DOMAIN records =>
              /\ Writable(records[id]) /\ records[id]["owner"] = o
              /\ cols = CollectionsOf(o)
              /\ class.mirrored => o # MirrorMsp
              /\ Stored(Public, id) # Absent => Stored(Public, id)["owner"] = o
    PROVE  PartsStand(id)'
<1>1. CASE id \notin DOMAIN records
  <2>1. \A s \in Stores : <<s, id>> \notin DOMAIN w
    BY <1>1 DEF Saving, Stores
  <2>2. \A s \in Stores : Stored(s, id)' = Stored(s, id)
    BY <2>1 DEF Applied
  <2>3. Stored(Public, id) # Absent => Stored(Public, id)["owner"] \in Orgs
    BY MixedPlaces, RecordsAre DEF StoreStands
  <2> QED
    BY <2>2, <2>3, Names DEF PartsStand
<1>2. CASE id \in DOMAIN records
  <2>1. PICK r : r = records[id]
    OBVIOUS
  <2>2. /\ Writable(r) /\ r \in Records /\ r["owner"] = o
        /\ {"id", "owner", "pub"} \subseteq DOMAIN r
        /\ cols = {o, Shared}
    BY <1>2, <2>1, MixedPlaces DEF Writable
  <2>3. Stored(Public, id)' = Restricted(r, {"id", "owner", "pub"})
    BY <1>2, <2>1, <2>2, MixedPlaces, Names DEF Saving, Applied
  <2>4. Stored(o, id)' = Restricted(r, {"priv"})
    <3>1. o \in Collections /\ o \in Stores /\ KeysOf(o) = {"priv"}
      BY MixedPlaces, Names
    <3>2. <<o, id>> \in DOMAIN w /\ w[<<o, id>>] = Restricted(r, KeysOf(o))
      BY <1>2, <2>1, <2>2, <3>1 DEF Saving
    <3> QED
      BY <3>1, <3>2 DEF Applied
  <2>5. Stored(Shared, id)' = Restricted(r, {"shared"})
    <3>1. Shared \in Collections /\ Shared \in Stores /\ KeysOf(Shared) = {"shared"}
      BY MixedPlaces, Names
    <3>2. <<Shared, id>> \in DOMAIN w /\ w[<<Shared, id>>] = Restricted(r, KeysOf(Shared))
      BY <1>2, <2>1, <2>2, <3>1 DEF Saving
    <3> QED
      BY <3>1, <3>2 DEF Applied
  <2>6. class.mirrored => Stored(Mirror, id)' = r
    BY <1>2, <2>1, Names DEF Saving, Applied
  <2>7. /\ Restricted(r, {"id", "owner", "pub"}) # Absent
        /\ Restricted(r, {"id", "owner", "pub"})["owner"] = o
        /\ Restricted(r, {"priv"}) # Absent /\ Restricted(r, {"shared"}) # Absent
        /\ r # Absent
    <3>1. ASSUME NEW A PROVE Restricted(r, A) # Absent
      <4>1. Restricted(r, A) \in Records
        BY <2>2, RestrictedIs
      <4> QED
        BY <4>1, AbsentIsNoRecord
    <3>2. \A a \in DOMAIN r \cap {"id", "owner", "pub"} :
              Restricted(r, {"id", "owner", "pub"})[a] = r[a]
      BY <2>2, RestrictedIs
    <3>3. Restricted(r, {"id", "owner", "pub"})["owner"] = o
      BY <2>2, <3>2
    <3> QED
      BY <2>2, <3>1, <3>3, AbsentIsNoRecord
  <2>8. ASSUME NEW org \in Orgs, Stored(org, id)' # Absent PROVE org = o
    <3>1. ASSUME org # o PROVE FALSE
      <4>1. <<org, id>> \notin DOMAIN w
        BY <2>2, <3>1, Names DEF Saving
      <4>2. Stored(org, id) # Absent
        BY <2>8, <4>1, Names DEF Applied
      <4> QED
        BY <1>2, <3>1, <4>2, Names DEF PartsStand
    <3> QED
      BY <3>1
  <2>9. Merged(Merged(Restricted(r, {"id", "owner", "pub"}), Restricted(r, {"priv"})),
               Restricted(r, {"shared"})) = r
    <3>1. DOMAIN r \subseteq {"id", "owner", "pub"} \cup {"priv"} \cup {"shared"}
      BY <2>2, RecordsAre DEF AllAttributes
    <3>2. Merged(Merged(Restricted(r, {"id", "owner", "pub"}), Restricted(r, {"priv"})),
                 Restricted(r, {"shared"}))
            = Restricted(r, {"id", "owner", "pub"} \cup {"priv"} \cup {"shared"})
      BY <2>2, PartsOf
    <3>3. Restricted(r, {"id", "owner", "pub"} \cup {"priv"} \cup {"shared"}) = r
      BY <2>2, <3>1, RestrictedToAll
    <3> QED
      BY <3>2, <3>3
  <2> QED
    BY <1>2, <2>3, <2>4, <2>5, <2>6, <2>7, <2>8, <2>9 DEF PartsStand
<1> QED
  BY <1>1, <1>2

LEMMA PartsDeleted ==
    ASSUME class \in Classes, class' = class, HasPublicPart, NEW id \in Ids,
           StoreStands(id), PartsStand(id),
           NEW w, NEW stores, NEW gone \in Ids, Deleting(w, stores, gone), Applied(w),
           Public \in stores,
           id = gone =>
              /\ Stored(Public, id) # Absent
              /\ CollectionsOf(Stored(Public, id)["owner"]) \subseteq stores
    PROVE  PartsStand(id)'
<1>1. Stored(Public, id) # Absent => Stored(Public, id)["owner"] \in Orgs
  BY MixedPlaces, RecordsAre DEF StoreStands
<1>2. CASE id # gone
  <2>1. \A s \in Stores : Stored(s, id)' = Stored(s, id)
    BY <1>2 DEF Applied, Deleting
  <2> QED
    BY <1>1, <2>1, Names DEF PartsStand
<1>3. CASE id = gone
  <2>1. PICK o \in Orgs : o = Stored(Public, id)["owner"]
    BY <1>1, <1>3
  <2>2. {o, Shared, Public} \subseteq stores
    BY <1>3, <2>1, MixedPlaces
  <2>3. \A s \in Stores : s \in stores => Stored(s, id)' = Absent
    BY <1>3 DEF Applied, Deleting
  <2>4. \A s \in Stores : Stored(s, id)' \in {Stored(s, id), Absent}
    BY DEF Applied, Deleting
  <2>5. ASSUME NEW c \in Collections PROVE Stored(c, id)' = Absent
    <3>1. CASE c \in {o, Shared}
      BY <2>2, <2>3, <3>1, Names
    <3>2. CASE c \notin {o, Shared}
      <4>1. c \in Orgs /\ c # o
        BY <3>2 DEF Collections
      <4>2. Stored(c, id) = Absent
        BY <1>3, <2>1, <4>1 DEF PartsStand
      <4> QED
        BY <2>4, <4>2, Names
    <3> QED
      BY <3>1, <3>2
  <2>6. Stored(Public, id)' = Absent
    BY <2>2, <2>3, Names
  <2> QED
    BY <2>5, <2>6 DEF PartsStand
<1> QED
  BY <1>2, <1>3

LEMMA PartsCommit ==
    ASSUME ~MixedOwners, StoreInv, PartsInv, NEW t \in Txs, Ledger!CommitValid(t),
           class' = class, HasPublicPart, NEW id \in Ids
    PROVE  PartsStand(id)'
<1>1. PICK p : p = proposal[t]
  OBVIOUS
<1> DEFINE w == p.writes
           call == p.call
           org == call.org
           ids == call.ids
<1>2. class \in Classes /\ Current(p) /\ \A i \in Ids : StoreStands(i) /\ PartsStand(i)
  BY <1>1 DEF StoreInv, PartsInv, Ledger!CommitValid
<1>3. Applied(w)
  BY <1>1, CommitAt
<1>4. org \in Orgs /\ MayWrite(org) /\ ids \in SUBSET Ids /\ class.shape = "mixed"
  BY <1>2, MixedPlaces DEF Current
<1>5. CASE call.op = "create"
  <2>1. CreateStands(p) /\ DataOf(call.data)
    BY <1>2, <1>5 DEF Current, DataOf
  <2>2. PICK records \in [ids -> Records] :
            /\ \A i \in ids : records[i] = NewRecord(org, call.data)
            /\ Saving(w, CollectionsOf(org), records, ~IsFullySegregated)
    BY <2>1 DEF CreateStands
  <2>3. Saving(w, CollectionsOf(org), records, TRUE)
    BY <2>2 DEF Saving, HasPublicPart
  <2>4. \A i \in ids : Stored(Public, i) = Absent
    BY <2>1 DEF CreateStands, NoneExists
  <2>5. ASSUME NEW i \in ids PROVE Writable(records[i]) /\ records[i]["owner"] = org
    <3>1. PICK data : data = call.data
      OBVIOUS
    <3>2. Writable(NewRecord(org, data)) /\ NewRecord(org, data)["owner"] = org
      BY <1>2, <1>4, <2>1, <3>1, NewIs DEF CreateStands
    <3> QED
      BY <2>2, <3>1, <3>2
  <2>6. class.mirrored => org # MirrorMsp
    BY <1>4 DEF MayWrite
  <2>7. DOMAIN records = ids
    BY <2>2
  <2>8. PICK cols : cols = CollectionsOf(org)
    OBVIOUS
  <2>9. PICK o \in Orgs : o = org
    BY <1>4
  <2>10. Saving(w, cols, records, TRUE)
    BY <2>3, <2>8
  <2>11. id \in DOMAIN records =>
              /\ Writable(records[id]) /\ records[id]["owner"] = o
              /\ cols = CollectionsOf(o)
              /\ class.mirrored => o # MirrorMsp
              /\ Stored(Public, id) # Absent => Stored(Public, id)["owner"] = o
    BY <2>4, <2>5, <2>6, <2>7, <2>8, <2>9
  <2> QED
    BY <1>2, <1>3, <2>10, <2>11, PartsSaved
<1>6. CASE call.op = "update"
  <2>1. UpdateStands(p) /\ DataOf(call.data)
    BY <1>2, <1>6 DEF Current, DataOf
  <2>2. PICK records \in [ids -> Records] :
            /\ \A i \in ids : records[i] = Updated(org, i, call.data)
            /\ \E o \in Orgs : \A i \in ids : OwnerOf(records[i], org) = o
            /\ Saving(w, UpdateCollections(org, records), records, TRUE)
    BY <2>1 DEF UpdateStands
  <2>3. PICK o \in Orgs : \A i \in ids : OwnerOf(records[i], org) = o
    BY <2>2
  <2>4. ASSUME NEW i \in ids
        PROVE  /\ Writable(records[i]) /\ records[i]["owner"] = o
               /\ Stored(Public, i) # Absent /\ Stored(Public, i)["owner"] = o
    <3>1. PICK data : data = call.data
      OBVIOUS
    <3>2. Found(org, i) /\ StoreStands(i) /\ i \in Ids
      BY <1>2, <1>4, <2>1 DEF UpdateStands
    <3>3. /\ Writable(Updated(org, i, data))
          /\ OwnerOf(Updated(org, i, data), org) = Stored(Public, i)["owner"]
          /\ Updated(org, i, data)["owner"] = Stored(Public, i)["owner"]
      BY <1>2, <1>4, <2>1, <3>1, <3>2, UpdatedIs
    <3>4. Stored(Public, i) # Absent
      BY <1>2, <1>4, <3>2, ReadIs
    <3> QED
      BY <2>2, <2>3, <3>1, <3>3, <3>4
  <2>5. \A i \in ids : class.mirrored => o # MirrorMsp
    BY <1>2, <1>4, <2>4 DEF PartsStand
  <2>6. DOMAIN records = ids
    BY <2>2
  <2>7. PICK cols : cols = UpdateCollections(org, records)
    OBVIOUS
  <2>8. ids # {} => cols = CollectionsOf(o)
    BY <2>3, <2>6, <2>7 DEF UpdateCollections
  <2>9. Saving(w, cols, records, TRUE)
    BY <2>2, <2>7
  <2>10. id \in DOMAIN records =>
              /\ Writable(records[id]) /\ records[id]["owner"] = o
              /\ cols = CollectionsOf(o)
              /\ class.mirrored => o # MirrorMsp
              /\ Stored(Public, id) # Absent => Stored(Public, id)["owner"] = o
    BY <2>4, <2>5, <2>6, <2>8
  <2> QED
    BY <1>2, <1>3, <2>9, <2>10, PartsSaved
<1>7. CASE call.op = "delete"
  <2>1. PICK gone \in Ids, cols \in SUBSET Collections :
            /\ Found(org, gone)
            /\ CollectionsOf(OwnerOf(ReadAs(org, gone), org)) \subseteq cols
            /\ Deleting(w, cols \cup (IF IsFullySegregated THEN {} ELSE {Public}), gone)
    BY <1>2, <1>7 DEF Current, DeleteStands
  <2>2. PICK stores : stores = cols \cup {Public}
    OBVIOUS
  <2>3. Deleting(w, stores, gone) /\ Public \in stores
    BY <2>1, <2>2 DEF HasPublicPart
  <2>4. /\ "owner" \in DOMAIN ReadAs(org, gone)
        /\ ReadAs(org, gone)["owner"] = Stored(Public, gone)["owner"]
    BY <1>2, <1>4, <2>1, ReadIsTyped
  <2>5. Stored(Public, gone) # Absent
    BY <1>2, <1>4, <2>1, ReadIs
  <2>6. CollectionsOf(Stored(Public, gone)["owner"]) \subseteq stores
    BY <2>1, <2>2, <2>4 DEF OwnerOf
  <2> QED
    BY <1>2, <1>3, <2>3, <2>5, <2>6, PartsDeleted
<1> QED
  BY <1>2, <1>5, <1>6, <1>7 DEF Current

LEMMA PartsStep ==
    ASSUME ~MixedOwners, StoreInv, PartsInv, [Next]_vars
    PROVE  PartsInv'
<1>1. CASE world' = world /\ class' = class
  <2>1. ASSUME NEW id \in Ids, HasPublicPart, PartsStand(id) PROVE PartsStand(id)'
    BY <1>1, <2>1 DEF PartsStand, Stored
  <2>2. HasPublicPart' <=> HasPublicPart
    BY <1>1, SameClass DEF HasPublicPart
  <2> QED
    BY <2>1, <2>2 DEF PartsInv
<1>2. ASSUME NEW t \in Txs, Ledger!CommitValid(t), class' = class PROVE PartsInv'
  <2>1. HasPublicPart' <=> HasPublicPart
    BY <1>2, SameClass DEF HasPublicPart
  <2>2. ASSUME NEW id \in Ids, HasPublicPart PROVE PartsStand(id)'
    BY <1>2, <2>2, PartsCommit
  <2> QED
    BY <2>1, <2>2 DEF PartsInv
<1>3. ASSUME NEW t \in Txs, Settle(t) PROVE PartsInv'
  BY <1>1, <1>2, <1>3 DEF Settle, Ledger!CommitInvalid, Ledger!Abandon
<1>4. ASSUME NEW t \in Txs, NEW org \in Orgs, NEW ids \in SUBSET Ids, NEW data \in Data,
             Create(t, org, ids, data) \/ Update(t, org, ids, data)
      PROVE  PartsInv'
  BY <1>1, <1>4 DEF Create, Update, Ledger!Endorse
<1>5. ASSUME NEW t \in Txs, NEW org \in Orgs, NEW id \in Ids, Delete(t, org, id)
      PROVE  PartsInv'
  BY <1>1, <1>5 DEF Delete, Ledger!Endorse
<1>6. CASE UNCHANGED vars
  BY <1>1, <1>6 DEF vars
<1> QED
  BY <1>3, <1>4, <1>5, <1>6 DEF Next

LEMMA InitParts == Init => PartsInv
<1> SUFFICES ASSUME Init, NEW id \in Ids PROVE PartsStand(id)
  BY DEF PartsInv
<1>1. \A s \in Stores : Stored(s, id) = Absent
  BY DEF Init, Ledger!Init, Stored, Keys
<1> QED
  BY <1>1, Names DEF PartsStand

LEMMA PartsHold ==
    ASSUME ~MixedOwners
    PROVE  Spec => [](StoreInv /\ PartsInv)
<1>1. Init => StoreInv /\ PartsInv
  BY InitStores, InitParts
<1>2. StoreInv /\ PartsInv /\ [Next]_vars => (StoreInv /\ PartsInv)'
  BY StoresStep, PartsStep
<1> QED
  BY <1>1, <1>2, PTL DEF Spec

-----------------------------------------------------------------------------
\* What the owner reads after its own update.

LEMMA NothingOf ==
    ASSUME NEW r \in Records
    PROVE  Restricted(r, {}) = <<>>
<1> DEFINE none == Restricted(r, {})
<1>1. none \in Records /\ DOMAIN none = DOMAIN r \cap {}
  BY RestrictedIs
<1> HIDE DEF none
<1>2. DOMAIN none = DOMAIN <<>>
  BY <1>1, EmptyRecord
<1>3. none = <<>>
  BY <1>1, <1>2, EmptyRecord, SameRecord
<1> QED
  BY <1>3 DEF none

\* The attributes that a reader gets back of a record that was written: those
\* of a class decorated per property come without the primary key.
Readable == IF class.shape = "property" THEN {"priv", "shared"} ELSE AllAttributes

LEMMA ReadAfter ==
    ASSUME class \in Classes, class' = class, NEW org \in Orgs, MayWrite(org),
           NEW id \in Ids, NEW w, NEW cols, NEW records,
           Saving(w, cols, records, TRUE), Applied(w), id \in DOMAIN records,
           NEW r, r = records[id], Writable(r), CollectionsOf(org) \subseteq cols
    PROVE  ReadAs(org, id)' = Restricted(r, Readable)
<1> DEFINE pub == Restricted(r, PlacedIn("public"))
           own == Restricted(r, KeysOf(org))
           sha == Restricted(r, KeysOf(Shared))
<1>1. r \in Records /\ DOMAIN r \subseteq Attributes
      /\ PlacedIn("public") \cup {"id"} \subseteq DOMAIN r
  BY DEF Writable
<1>2. ASSUME NEW A PROVE Restricted(r, A) # Absent
  <2>1. Restricted(r, A) \in Records
    BY <1>1, RestrictedIs
  <2> QED
    BY <2>1, AbsentIsNoRecord
<1>3. ASSUME NEW c \in CollectionsOf(org) PROVE Contents(c, id)' = Restricted(r, KeysOf(c))
  <2>1. c \in cols /\ c \in Collections /\ c \in Stores
    BY <1>3, CollectionsAre, Names
  <2>2. <<c, id>> \in DOMAIN w /\ w[<<c, id>>] = Restricted(r, KeysOf(c))
    BY <2>1 DEF Saving
  <2>3. Stored(c, id)' = Restricted(r, KeysOf(c))
    BY <2>1, <2>2 DEF Applied
  <2> QED
    BY <1>2, <2>3 DEF Contents
<1>4. ASSUME ~IsFullySegregated PROVE Contents(Public, id)' = pub
  <2>1. PlacedIn("public") = {"id", "owner", "pub"}
    BY <1>4, MixedPlaces DEF HasPublicPart
  <2>2. <<Public, id>> \in DOMAIN w /\ w[<<Public, id>>] = pub
    BY <1>1, <2>1 DEF Saving
  <2>3. Stored(Public, id)' = pub
    BY <2>2, Names DEF Applied
  <2> QED
    BY <1>2, <2>3 DEF Contents
<1>5. org \in CollectionsOf(org) /\ (Shared \in CollectionsOf(org) <=> class.shape # "whole")
  BY CollectionsAre
<1>6. ~ReadsMirror(org)
  BY ReadIs
<1> HIDE DEF pub, own, sha
<1>7. ReadAs(org, id)'
        = Merged(Merged(IF IsFullySegregated THEN <<>> ELSE pub, own),
                 IF class.shape # "whole" THEN sha ELSE <<>>)
  <2>1. Contents(org, id)' = own
    BY <1>3, <1>5 DEF own
  <2>2. class.shape # "whole" => Contents(Shared, id)' = sha
    BY <1>3, <1>5 DEF sha
  <2>3. ~IsFullySegregated => Contents(Public, id)' = pub
    BY <1>4
  <2>4. /\ IsFullySegregated' <=> IsFullySegregated
        /\ ~ReadsMirror(org)'
        /\ Shared \in ReadCollections(org)' <=> class.shape # "whole"
    BY <1>5, <1>6, SameClass DEF ReadCollections
  <2> QED
    BY <2>1, <2>2, <2>3, <2>4 DEF ReadAs
<1>8. Restricted(r, {}) = <<>>
  BY <1>1, NothingOf
<1>9. CASE class.shape = "mixed"
  <2>1. /\ ~IsFullySegregated /\ PlacedIn("public") = {"id", "owner", "pub"}
        /\ KeysOf(org) = {"priv"} /\ KeysOf(Shared) = {"shared"}
    BY <1>9, Places, MixedPlaces DEF HasPublicPart
  <2>2. Merged(Merged(Restricted(r, {"id", "owner", "pub"}), Restricted(r, {"priv"})),
               Restricted(r, {"shared"}))
          = Restricted(r, {"id", "owner", "pub"} \cup {"priv"} \cup {"shared"})
    BY <1>1, PartsOf
  <2>3. {"id", "owner", "pub"} \cup {"priv"} \cup {"shared"} = Readable
    BY <1>9 DEF Readable, AllAttributes
  <2> QED
    BY <1>7, <1>9, <2>1, <2>2, <2>3 DEF pub, own, sha
<1>10. CASE class.shape = "property"
  <2>1. /\ IsFullySegregated
        /\ KeysOf(org) = {"priv"} /\ KeysOf(Shared) = {"shared"}
    BY <1>10, Places, CollectionsAre
  <2>2. Merged(Merged(Restricted(r, {}), Restricted(r, {"priv"})), Restricted(r, {"shared"}))
          = Restricted(r, {} \cup {"priv"} \cup {"shared"})
    BY <1>1, PartsOf
  <2>3. {} \cup {"priv"} \cup {"shared"} = Readable
    BY <1>10 DEF Readable
  <2> QED
    BY <1>7, <1>8, <1>10, <2>1, <2>2, <2>3 DEF pub, own, sha
<1>11. CASE class.shape = "whole"
  <2>1. /\ IsFullySegregated /\ Attributes = {"id", "owner", "priv"}
        /\ KeysOf(org) = {"id", "owner", "priv"}
    BY <1>11, Places, CollectionsAre
  <2>2. Merged(Merged(Restricted(r, {}), Restricted(r, {"id", "owner", "priv"})), Restricted(r, {}))
          = Restricted(r, {} \cup {"id", "owner", "priv"} \cup {})
    BY <1>1, PartsOf
  <2>3. Restricted(r, {} \cup {"id", "owner", "priv"} \cup {}) = r
    BY <1>1, <2>1, RestrictedToAll
  <2>4. Restricted(r, Readable) = r
    BY <1>1, <1>11, <2>1, RestrictedToAll DEF Readable, AllAttributes
  <2> QED
    BY <1>7, <1>8, <1>11, <2>1, <2>2, <2>3, <2>4 DEF own
<1> QED
  BY <1>9, <1>10, <1>11, Places DEF Shapes

\* An updated record without the primary key that update puts into it.
LEMMA UpdatedReads ==
    ASSUME class \in Classes, NEW org \in Orgs, MayWrite(org), NEW id, StoreStands(id),
           Found(org, id), NEW data, DataOf(data)
    PROVE  Restricted(Updated(org, id, data), Readable) = Merged(ReadAs(org, id), data)
<1> DEFINE key == [id |-> TRUE]
           read == ReadAs(org, id)
           new == Merged(read, data)
           r == Merged(key, new)
<1>1. r = Updated(org, id, data)
  BY DEF Updated
<1>2. key \in Records /\ DOMAIN key = {"id"}
  BY KeyRecord
<1>3. /\ read \in Records /\ DOMAIN read \subseteq Attributes
      /\ class.shape # "property" => "id" \in DOMAIN read
  BY ReadIsTyped, Places DEF Shapes
<1>4. class.shape = "property" => "id" \notin DOMAIN read
  <2>1. CASE class.shape = "property"
    <3> DEFINE own == Contents(org, id)
               sha == Contents(Shared, id)
               some == Merged(<<>>, own)
    <3>1. read = Merged(some, sha)
      BY <2>1, ReadIs
    <3>2. KeysOf(org) = {"priv"} /\ KeysOf(Shared) = {"shared"}
      BY <2>1, Places, CollectionsAre
    <3>3. /\ own \in Records /\ DOMAIN own \subseteq {"priv"}
          /\ sha \in Records /\ DOMAIN sha \subseteq {"shared"}
      BY <3>2, ContentsAre, Names
    <3> HIDE DEF own, sha
    <3>4. some \in Records /\ DOMAIN some = DOMAIN <<>> \cup DOMAIN own
      BY <3>3, EmptyRecord, MergedIs
    <3> HIDE DEF some
    <3>5. DOMAIN Merged(some, sha) = DOMAIN some \cup DOMAIN sha
      BY <3>3, <3>4, MergedIs
    <3> QED
      BY <3>1, <3>3, <3>4, <3>5, EmptyRecord
  <2> QED
    BY <2>1
<1> HIDE DEF key, read
<1>5. /\ new \in Records /\ DOMAIN new = DOMAIN read \cup DOMAIN data
  BY <1>3, MergedIs DEF DataOf
<1> HIDE DEF new
<1>6. /\ r \in Records /\ DOMAIN r = {"id"} \cup DOMAIN new
      /\ \A a \in {"id"} \cup DOMAIN new : r[a] = IF a \in DOMAIN new THEN new[a] ELSE key[a]
  BY <1>2, <1>5, MergedIs
<1> HIDE DEF r
<1>7. DOMAIN data \subseteq Attributes \ {"id"}
  BY DEF DataOf
<1>8. DOMAIN r \cap Readable = DOMAIN new
  <2>1. CASE class.shape = "property"
    <3>1. Attributes = {"id", "priv", "shared"}
      BY <2>1, Places
    <3> QED
      BY <1>3, <1>4, <1>5, <1>6, <1>7, <2>1, <3>1 DEF Readable
  <2>2. CASE class.shape # "property"
    BY <1>3, <1>5, <1>6, <2>2, RecordsAre DEF Readable
  <2> QED
    BY <2>1, <2>2
<1>9. /\ Restricted(r, Readable) \in Records /\ DOMAIN Restricted(r, Readable) = DOMAIN new
      /\ \A a \in DOMAIN new : Restricted(r, Readable)[a] = r[a]
  <2>1. /\ Restricted(r, Readable) \in Records
        /\ DOMAIN Restricted(r, Readable) = DOMAIN r \cap Readable
        /\ \A a \in DOMAIN r \cap Readable : Restricted(r, Readable)[a] = r[a]
    BY <1>6, RestrictedIs
  <2> QED
    BY <1>8, <2>1
<1>10. \A a \in DOMAIN new : Restricted(r, Readable)[a] = new[a]
  BY <1>6, <1>9
<1>11. Restricted(r, Readable) = new
  BY <1>5, <1>9, <1>10, SameRecord
<1> QED
  BY <1>1, <1>11 DEF new, read

LEMMA UpdateStep ==
    ASSUME StoreInv, [Next]_vars, NEW t \in Txs, NEW org \in Orgs, NEW id \in Ids,
           Commits(t, "update"), org = proposal[t].call.org, id \in proposal[t].call.ids,
           OwnerOf(ReadAs(org, id), org) = org
    PROVE  ReadAs(org, id)' = Merged(ReadAs(org, id), proposal[t].call.data)
<1>1. PICK p : p = proposal[t]
  OBVIOUS
<1>2. PICK data : data = p.call.data
  OBVIOUS
<1> PICK w : w = p.writes
  OBVIOUS
<1> DEFINE ids == p.call.ids
<1>3. world' # world /\ phase[t] = "endorsed" /\ phase'[t] = "idle" /\ p.call.op = "update"
  BY <1>1 DEF Commits
<1>4. Ledger!CommitValid(t) /\ class' = class
  <2>1. ASSUME NEW u \in Txs, Settle(u) PROVE Ledger!CommitValid(t) /\ class' = class
    <3>1. Ledger!CommitValid(u) /\ class' = class
      BY <1>3, <2>1 DEF Settle, Ledger!CommitInvalid, Ledger!Abandon
    <3>2. u = t
      BY <1>3, <3>1 DEF Ledger!CommitValid
    <3> QED
      BY <3>1, <3>2
  <2>2. ASSUME NEW u \in Txs, NEW by \in Orgs, NEW some \in SUBSET Ids, NEW new \in Data,
               Create(u, by, some, new) \/ Update(u, by, some, new)
        PROVE  FALSE
    BY <1>3, <2>2 DEF Create, Update, Ledger!Endorse
  <2>3. ASSUME NEW u \in Txs, NEW by \in Orgs, NEW one \in Ids, Delete(u, by, one)
        PROVE  FALSE
    BY <1>3, <2>3 DEF Delete, Ledger!Endorse
  <2>4. ~UNCHANGED vars
    BY <1>3 DEF vars
  <2> QED
    BY <2>1, <2>2, <2>3, <2>4 DEF Next
<1>5. class \in Classes /\ StoreStands(id) /\ Current(p)
  BY <1>1, <1>3 DEF StoreInv
<1>6. MayWrite(org) /\ DataOf(data) /\ UpdateStands(p)
  BY <1>1, <1>2, <1>3, <1>5 DEF Current, DataOf
<1>7. Found(org, id)
  BY <1>1, <1>6 DEF UpdateStands
<1>8. PICK records \in [ids -> Records] :
          /\ \A i \in ids : records[i] = Updated(org, i, data)
          /\ Saving(w, UpdateCollections(org, records), records, TRUE)
  BY <1>1, <1>2, <1>6 DEF UpdateStands
<1>9. PICK r : r = Updated(org, id, data)
  OBVIOUS
<1>10. r = records[id] /\ id \in DOMAIN records
  BY <1>1, <1>8, <1>9
<1>11. Writable(r) /\ OwnerOf(r, org) = org
  BY <1>5, <1>6, <1>7, <1>9, UpdatedIs
<1>12. PICK cols : cols = UpdateCollections(org, records)
  OBVIOUS
<1>13. CollectionsOf(org) \subseteq cols /\ Saving(w, cols, records, TRUE)
  BY <1>8, <1>10, <1>11, <1>12 DEF UpdateCollections
<1>14. Applied(w)
  BY <1>1, <1>4, CommitAt
<1> HIDE DEF ids
<1>15. ReadAs(org, id)' = Restricted(r, Readable)
  <2>1. class' = class
    BY <1>4
  <2>2. class \in Classes /\ MayWrite(org)
    BY <1>5, <1>6
  <2>3. Saving(w, cols, records, TRUE) /\ CollectionsOf(org) \subseteq cols
    BY <1>13
  <2>4. id \in DOMAIN records /\ r = records[id] /\ Writable(r)
    BY <1>10, <1>11
  <2> QED
    BY ONLY org \in Orgs, id \in Ids, <1>14, <2>1, <2>2, <2>3, <2>4, ReadAfter
<1> QED
  BY <1>1, <1>2, <1>5, <1>6, <1>7, <1>9, <1>15, UpdatedReads

-----------------------------------------------------------------------------
\* A store never holds an attribute that is not registered for it, also when
\* updateAll is given records of several owners (prepare).
THEOREM SegregatedTypes == Spec => []TypeOK
<1>1. StoreInv => TypeOK
  BY DEF StoreInv, StoreStands, TypeOK, KeysOf
<1> QED
  BY <1>1, StoresHold, PTL

\* Of a class decorated as a whole nothing ever reaches the public state, not
\* even in the writes of a call in flight: its update writes the public part
\* of the record, and finds it empty (FabricContractRepository.update).
THEOREM WholeIsPrivate == Spec => []WholeStaysPrivate
<1>1. ASSUME StoreInv, class.shape = "whole", NEW id \in Ids PROVE Stored(Public, id) = Absent
  BY <1>1 DEF StoreInv, StoreStands
<1>2. ASSUME StoreInv, class.shape = "whole", NEW id \in Ids, NEW t \in Txs, phase[t] = "endorsed"
      PROVE  <<Public, id>> \notin DOMAIN proposal[t].writes
  <2>1. PICK p : p = proposal[t]
    OBVIOUS
  <2>2. Current(p) /\ class \in Classes
    BY <1>2, <2>1 DEF StoreInv
  <2>3. PlacedIn("public") = {} /\ IsFullySegregated
    BY <1>2, <2>2, Places
  <2>4. CASE p.call.op = "delete"
    <3>1. PICK gone \in Ids, cols \in SUBSET Collections :
              Deleting(p.writes,
                       cols \cup (IF IsFullySegregated THEN {} ELSE {Public}), gone)
      BY <2>2, <2>4 DEF Current, DeleteStands
    <3>2. Deleting(p.writes, cols, gone)
      BY <2>3, <3>1
    <3> QED
      BY <2>1, <3>2, Names DEF Deleting
  <2>5. CASE p.call.op # "delete"
    <3>1. \E cols, records : \E flag \in BOOLEAN : Saving(p.writes, cols, records, flag)
      BY <1>2, <2>2, <2>5, SavesWritable
    <3>2. PICK cols, records : \E flag \in BOOLEAN : Saving(p.writes, cols, records, flag)
      BY <3>1
    <3>3. PICK flag \in BOOLEAN : Saving(p.writes, cols, records, flag)
      BY <3>2
    <3> QED
      BY <2>1, <2>3, <3>3 DEF Saving
  <2> QED
    BY <2>4, <2>5
<1>3. StoreInv => WholeStaysPrivate
  BY <1>1, <1>2 DEF WholeStaysPrivate, PublicStaysEmpty
<1> QED
  BY <1>3, StoresHold, PTL

\* An owner's update changes what the owner reads in the attributes given and
\* in no other, whatever was committed between its endorsement and its commit
\* and whoever else's records are in the same updateAll
\* (FabricContractRepository.update, FabricContractAdapter.prepare).
THEOREM UpdateLosesNothing == Spec => UpdateKeepsTheRest
<1> DEFINE Kept ==
      \A t \in Txs, org \in Orgs, id \in Ids :
        /\ Commits(t, "update")
        /\ org = proposal[t].call.org /\ id \in proposal[t].call.ids
        /\ OwnerOf(ReadAs(org, id), org) = org
        => ReadAs(org, id)' = Merged(ReadAs(org, id), proposal[t].call.data)
<1>1. StoreInv /\ [Next]_vars => [Kept]_vars
  BY UpdateStep
<1> QED
  BY <1>1, StoresHold, PTL DEF Spec, UpdateKeepsTheRest

\* The parts of a record come and go together, whatever calls of several
\* organisations are in flight, if no call is on the records of several owners
\* (prepare, FabricContractRepository.delete).
THEOREM RecordsAreWhole ==
    ASSUME ~MixedOwners
    PROVE  Spec => []RecordIsWhole
<1>1. ASSUME StoreInv, PartsInv, HasPublicPart, NEW id \in Ids, Stored(Public, id) # Absent,
             NEW c \in CollectionsOf(Owner(id))
      PROVE  Stored(c, id) # Absent
  <2>1. PartsStand(id)
    BY <1>1 DEF PartsInv
  <2>2. c \in {Owner(id), Shared}
    BY <1>1 DEF CollectionsOf
  <2> QED
    BY <1>1, <2>1, <2>2 DEF PartsStand, Owner
<1>2. ASSUME PartsInv, HasPublicPart, NEW id \in Ids, Stored(Public, id) = Absent,
             NEW c \in Collections
      PROVE  Stored(c, id) = Absent
  BY <1>2 DEF PartsInv, PartsStand
<1>3. StoreInv /\ PartsInv => RecordIsWhole
  BY <1>1, <1>2 DEF RecordIsWhole
<1> QED
  BY <1>3, PartsHold, PTL

\* The private part of a record is in the collection of the owner its public
\* part names, and in no other organisation's, under the same assumption
\* (segregatedDataOnCreate, segregatedDataOnUpdate).
THEOREM PrivateIsAtOwner ==
    ASSUME ~MixedOwners
    PROVE  Spec => []PrivateAtOwner
<1>1. ASSUME PartsInv, HasPublicPart, NEW id \in Ids, NEW org \in Orgs,
             Stored(org, id) # Absent
      PROVE  Stored(Public, id) # Absent /\ org = Owner(id)
  <2>1. PartsStand(id)
    BY <1>1 DEF PartsInv
  <2> QED
    BY <1>1, <2>1, Names DEF PartsStand, Owner
<1>2. PartsInv => PrivateAtOwner
  BY <1>1 DEF PrivateAtOwner
<1> QED
  BY <1>2, PartsHold, PTL

\* The mirror holds of every record what its owner reads, private attributes
\* included, although it is written by other writes of the same call and its
\* deletion may fail unnoticed (mirror part of prepare).
THEOREM MirrorIsFullCopy ==
    ASSUME ~MixedOwners
    PROVE  Spec => []MirrorIsCopy
<1>1. ASSUME StoreInv, PartsInv, HasPublicPart, class.mirrored, NEW id \in Ids,
             Stored(Public, id) # Absent
      PROVE  Found(MirrorMsp, id) /\ ReadAs(MirrorMsp, id) = ReadAs(Owner(id), id)
  <2>1. class \in Classes /\ StoreStands(id) /\ PartsStand(id) /\ class.shape = "mixed"
    BY <1>1, MixedPlaces DEF StoreInv, PartsInv
  <2>2. PICK o : o = Owner(id)
    OBVIOUS
  <2>3. o \in Orgs
    BY <1>1, <2>1, <2>2, MixedPlaces, RecordsAre DEF StoreStands, Owner
  <2>4. /\ Stored(o, id) # Absent /\ Stored(Shared, id) # Absent
        /\ o # MirrorMsp /\ Stored(Mirror, id) # Absent
        /\ Stored(Mirror, id)
             = Merged(Merged(Stored(Public, id), Stored(o, id)), Stored(Shared, id))
    BY <1>1, <2>1, <2>2 DEF PartsStand, Owner
  <2>5. MayWrite(o)
    BY <2>4 DEF MayWrite
  <2>6. ReadAs(o, id)
          = Merged(Merged(Contents(Public, id), Contents(o, id)), Contents(Shared, id))
    BY <2>1, <2>3, <2>5, ReadIs
  <2>7. ReadAs(o, id) = Stored(Mirror, id)
    BY <1>1, <2>4, <2>6 DEF Contents
  <2>8. ReadAs(MirrorMsp, id) = Stored(Mirror, id)
    BY <1>1, <2>4 DEF ReadAs, ReadsMirror, Contents
  <2>9. Found(o, id)
    <3>1. DOMAIN ReadAs(o, id) # {}
      <4> DEFINE pub == Contents(Public, id)
                 own == Contents(o, id)
                 sha == Contents(Shared, id)
                 both == Merged(pub, own)
      <4>1. /\ pub \in Records /\ own \in Records /\ sha \in Records
        BY <2>1, <2>3, ContentsAre, Names
      <4>2. "id" \in DOMAIN pub
        BY <1>1, <2>1, MixedPlaces DEF Contents, StoreStands
      <4> HIDE DEF pub, own, sha
      <4>3. both \in Records /\ DOMAIN both = DOMAIN pub \cup DOMAIN own
        BY <4>1, MergedIs
      <4> HIDE DEF both
      <4>4. DOMAIN Merged(both, sha) = DOMAIN both \cup DOMAIN sha
        BY <4>1, <4>3, MergedIs
      <4> QED
        BY <2>6, <4>2, <4>3, <4>4 DEF both, pub, own, sha
    <3> QED
      BY <1>1, <2>1, <2>3, <2>5, <3>1, ReadIs
  <2>10. DOMAIN ReadAs(MirrorMsp, id) # {}
    BY <2>7, <2>8, <2>9 DEF Found
  <2>11. Found(MirrorMsp, id)
    BY <1>1, <2>10 DEF Found, ReadsMirror
  <2> QED
    BY <2>2, <2>7, <2>8, <2>11
<1>2. StoreInv /\ PartsInv => MirrorIsCopy
  BY <1>1 DEF MirrorIsCopy
<1> QED
  BY <1>2, PartsHold, PTL

\* When a create is committed nothing of its records is in any store, although
\* only the public state was searched for them, and that when the call was
\* endorsed (FabricContractAdapter.create).
THEOREM CreatesAreNew ==
    ASSUME ~MixedOwners
    PROVE  Spec => CreateOverwritesNothing
<1> DEFINE New ==
      \A t \in Txs : HasPublicPart /\ Commits(t, "create") =>
        \A id \in proposal[t].call.ids, c \in Collections \cup {Public} :
            Stored(c, id) = Absent
<1>1. ASSUME StoreInv, PartsInv, NEW t \in Txs, HasPublicPart, Commits(t, "create"),
             NEW id \in proposal[t].call.ids, NEW c \in Collections \cup {Public}
      PROVE  Stored(c, id) = Absent
  <2>1. PICK p : p = proposal[t]
    OBVIOUS
  <2>2. Current(p) /\ p.call.op = "create"
    BY <1>1, <2>1 DEF StoreInv, Commits
  <2>3. Stored(Public, id) = Absent /\ id \in Ids
    BY <1>1, <2>1, <2>2 DEF Current, CreateStands, NoneExists
  <2> QED
    BY <1>1, <2>3 DEF PartsInv, PartsStand
<1>2. StoreInv /\ PartsInv => [New]_vars
  BY <1>1
<1> QED
  BY <1>2, PartsHold, PTL DEF CreateOverwritesNothing

===============================================================================
