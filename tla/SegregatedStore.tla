---------------------------- MODULE SegregatedStore ----------------------------
(***************************************************************************)
(* Records of one table, stored by FabricContractRepository and            *)
(* FabricContractAdapter.  The decorators of the model class (decorators.ts)*)
(* place each attribute in the public state, in the private collection of  *)
(* the record's owner (privateData, with a resolver such as                *)
(* ImplicitPrivateCollection) or in a collection with a fixed name         *)
(* (sharedData); a mirrored class keeps a full copy in one more collection.*)
(*                                                                         *)
(* A record is a function from those of its attributes that have a value.  *)
(* "id" is the primary key.  The base Repository is external: an update    *)
(* reads the record and merges the new values into it before the handlers  *)
(* run, a delete reads the record for its handlers.                        *)
(***************************************************************************)
EXTENDS Integers

CONSTANTS
    Ids, Orgs, Values,
    Public, Shared, Mirror, \* the stores that are no organisation's
    MirrorMsp,              \* the organisation that works on the mirror
    MixedOwners,            \* whether updateAll may be given records of several owners
    Txs, Absent, NoProposal

\* An organisation stands for its private collection as well.
Collections == Orgs \cup {Shared}
Stores == Collections \cup {Public, Mirror}
Keys == Stores \X Ids

\* No collection has the name of another, and no record is taken for a missing
\* one.
ASSUME StoreAssumption ==
    /\ {Public, Shared, Mirror} \cap Orgs = {}
    /\ Public # Shared /\ Public # Mirror /\ Shared # Mirror
    /\ \A attrs \in SUBSET {"id", "owner", "pub", "priv", "shared"} :
          Absent \notin [attrs -> Orgs \cup Values \cup {TRUE}]

VARIABLES
    world, phase, proposal,     \* of FabricLedger
    class                       \* the model class: [shape, mirrored]

vars == <<world, phase, proposal, class>>

Ledger == INSTANCE FabricLedger

-----------------------------------------------------------------------------
\* The model class.

\* Decorated per property with a public rest, decorated per property without
\* one, or decorated as a class, which takes the primary key along.
Shapes == {"mixed", "property", "whole"}

Placement ==
    [mixed    |-> [id |-> "public", owner |-> "public", pub |-> "public",
                   priv |-> "private", shared |-> "shared"],
     property |-> [id |-> "public", priv |-> "private", shared |-> "shared"],
     whole    |-> [id |-> "private", owner |-> "private", priv |-> "private"]]

Attributes == DOMAIN Placement[class.shape]

PlacedIn(place) == {a \in Attributes : Placement[class.shape][a] = place}

IsFullySegregated == PlacedIn("public") \subseteq {"id"}

Restricted(record, attrs) == [a \in DOMAIN record \cap attrs |-> record[a]]

\* The record with the values of another one put over it.
Merged(record, over) ==
    [a \in DOMAIN record \cup DOMAIN over |->
        IF a \in DOMAIN over THEN over[a] ELSE record[a]]

\* Mutant of KeysOf: the keys registered for a collection are ignored.
AllTransientKeys(c) == PlacedIn("private") \cup PlacedIn("shared")

\* The attributes registered for a collection.
KeysOf(c) == PlacedIn(IF c = Shared THEN "shared" ELSE "private")

\* The collections of a record of this owner.
CollectionsOf(owner) == {c \in {owner, Shared} : KeysOf(c) # {}}

\* Mutant of OwnerOf: always the organisation that calls.
OwnerIsCaller(record, org) == org

\* The owner named by the record, else the organisation that calls.
OwnerOf(record, org) == IF "owner" \in DOMAIN record THEN record["owner"] ELSE org

-----------------------------------------------------------------------------
\* Reading.

Stored(store, id) == world[<<store, id>>]

Contents(store, id) == IF Stored(store, id) = Absent THEN <<>> ELSE Stored(store, id)

\* The mirror's organisation reads the mirror and nothing else.
ReadsMirror(org) == class.mirrored /\ org = MirrorMsp

\* The collections registered for reading.  While a record is read its owner is
\* not known yet, so these are the caller's own.
ReadCollections(org) == CollectionsOf(org)

\* What an organisation reads: the public record, if the class has one, with
\* the collections merged over it.
ReadAs(org, id) ==
    LET public == IF IsFullySegregated THEN <<>> ELSE Contents(Public, id)
    IN  IF ReadsMirror(org) THEN Contents(Mirror, id)
        ELSE Merged(Merged(public, Contents(org, id)),
                    IF Shared \in ReadCollections(org) THEN Contents(Shared, id) ELSE <<>>)

\* A missing public record throws NotFoundError, as does a read that found
\* no attribute anywhere; a collection without the record is passed over.
Found(org, id) ==
    /\ IsFullySegregated \/ ReadsMirror(org) \/ Stored(Public, id) # Absent
    /\ DOMAIN ReadAs(org, id) # {}

ReadKeys(org, ids) ==
    (ReadCollections(org) \cup (IF IsFullySegregated THEN {} ELSE {Public})) \X ids

-----------------------------------------------------------------------------
\* Writing.

\* The contract, the decorator and the adapter all refuse the mirror's
\* organisation.
MayWrite(org) == ~(class.mirrored /\ org = MirrorMsp)

\* Mutant of MirrorWrites: the mirror holds the model as prepare splits it.
MirrorPublicPart(records) ==
    IF class.mirrored
    THEN [k \in {Mirror} \X DOMAIN records |->
            Restricted(records[k[2]], PlacedIn("public"))]
    ELSE <<>>

MirrorWrites(records) ==
    IF class.mirrored
    THEN [k \in {Mirror} \X DOMAIN records |-> records[k[2]]]
    ELSE <<>>

\* prepare: each record is put into every collection that is registered in
\* the context, restricted to the keys registered for that collection.
SegregatedWrites(cols, records) ==
    [k \in cols \X DOMAIN records |-> Restricted(records[k[2]], KeysOf(k[1]))]

\* Mutant of PublicWrites: a public record is put even if it is empty.
PublicWritesAll(records) ==
    [k \in {Public} \X DOMAIN records |->
        Restricted(records[k[2]], PlacedIn("public"))]

\* A public record is put if any value is left for it.
PublicWrites(records) ==
    [k \in {Public} \X {id \in DOMAIN records :
                          Restricted(records[id], PlacedIn("public")) # <<>>} |->
        Restricted(records[k[2]], PlacedIn("public"))]

-----------------------------------------------------------------------------
\* create and createAll.

\* Mutant of NoneExists: the existing record is not looked for.
ExistenceUnchecked(ids) == TRUE

\* Only the public state is searched for an existing record.
NoneExists(ids) == \A id \in ids : Stored(Public, id) = Absent

NewRecord(org, data) ==
    Merged(data, Restricted([id |-> TRUE, owner |-> org], Attributes))

Create(t, org, ids, data) ==
    LET records == [id \in ids |-> NewRecord(org, data)]
    IN  /\ MayWrite(org)
        /\ PlacedIn("public") \subseteq {"id", "owner"} \cup DOMAIN data
        /\ NoneExists(ids)
        /\ Ledger!Endorse(t,
             [op |-> "create", org |-> org, ids |-> ids, data |-> data],
             {Public} \X ids,
             Merged(Merged(MirrorWrites(records),
                           SegregatedWrites(CollectionsOf(org), records)),
                    IF IsFullySegregated THEN <<>> ELSE PublicWrites(records)))
        /\ UNCHANGED class

-----------------------------------------------------------------------------
\* update and updateAll.

\* Mutant of Updated: the stored record is not merged.
UpdatedUnmerged(org, id, data) ==
    Merged([id |-> TRUE], Merged(Restricted(ReadAs(org, id), {"owner"}), data))

Updated(org, id, data) == Merged([id |-> TRUE], Merged(ReadAs(org, id), data))

\* The handlers register the collections of every record in the one context
\* of the call.
UpdateCollections(org, records) ==
    UNION {CollectionsOf(OwnerOf(records[id], org)) : id \in DOMAIN records}

\* The public part is written whether or not the class is fully segregated.
Update(t, org, ids, data) ==
    LET records == [id \in ids |-> Updated(org, id, data)]
        owners == {OwnerOf(records[id], org) : id \in ids}
        cols == UpdateCollections(org, records)
    IN  /\ MayWrite(org)
        /\ MixedOwners \/ \E o \in Orgs : owners = {o}
        /\ \A id \in ids : Found(org, id)
        /\ Ledger!Endorse(t,
             [op |-> "update", org |-> org, ids |-> ids, data |-> data],
             ReadKeys(org, ids),
             Merged(Merged(MirrorWrites(records), SegregatedWrites(cols, records)),
                    PublicWrites(records)))
        /\ UNCHANGED class

-----------------------------------------------------------------------------
\* delete.

\* Mutant of DeleteCollections: no collection is registered.
NoCollections(org, record) == {{}}

\* The collections registered when the handlers ran for the record, with or
\* without those registered while it was read: the base repository decides
\* whether the two share a context.
DeleteCollections(org, record) ==
    LET owners == CollectionsOf(OwnerOf(record, org))
    IN  {owners, owners \cup ReadCollections(org)}

\* What happens to the mirror: an error while deleting it is swallowed.
MirrorDeletes(id) ==
    {<<>>} \cup (IF class.mirrored THEN {[k \in {<<Mirror, id>>} |-> Absent]} ELSE {})

\* A registered collection without the record makes the call fail.
Delete(t, org, id) ==
    \E cols \in DeleteCollections(org, ReadAs(org, id)), mirrored \in MirrorDeletes(id) :
        LET stores == cols \cup (IF IsFullySegregated THEN {} ELSE {Public})
        IN  /\ MayWrite(org)
            /\ Found(org, id)
            /\ \A c \in cols : Stored(c, id) # Absent
            /\ Ledger!Endorse(t,
                 [op |-> "delete", org |-> org, ids |-> {id}, data |-> <<>>],
                 ReadKeys(org, {id}) \cup (cols \X {id}) \cup ({Mirror} \X {id}),
                 Merged(mirrored, [k \in stores \X {id} |-> Absent]))
            /\ UNCHANGED class

-----------------------------------------------------------------------------
Init ==
    /\ Ledger!Init
    /\ class \in [shape : Shapes, mirrored : BOOLEAN]

\* The values a client may send: a record's primary key is an argument of
\* its own, and its owner is set by ownedBy and read-only from then on.
\* Bounds: one call gives all attributes it names the same value, and names
\* one attribute or all.
Data ==
    LET settable == Attributes \ {"id", "owner"}
    IN  UNION {[attrs -> {v}] : v \in Values,
               attrs \in {{a} : a \in settable} \cup {settable}}

Settle(t) ==
    /\ Ledger!CommitValid(t) \/ Ledger!CommitInvalid(t) \/ Ledger!Abandon(t)
    /\ UNCHANGED class

Next ==
    \E t \in Txs :
        \/ \E org \in Orgs, ids \in SUBSET Ids \ {{}}, data \in Data :
              Create(t, org, ids, data) \/ Update(t, org, ids, data)
        \/ \E org \in Orgs, id \in Ids : Delete(t, org, id)
        \/ Settle(t)

Spec == Init /\ [][Next]_vars

-----------------------------------------------------------------------------
\* Properties.

HasPublicPart == ~IsFullySegregated

\* A store holds only the attributes registered for it.
TypeOK ==
    /\ phase \in [Txs -> Ledger!Phases]
    /\ \A c \in Collections, id \in Ids :
          Stored(c, id) # Absent =>
              DOMAIN Stored(c, id) \subseteq
                  PlacedIn(IF c = Shared THEN "shared" ELSE "private")
    /\ \A id \in Ids :
          Stored(Public, id) # Absent => DOMAIN Stored(Public, id) = PlacedIn("public")

Owner(id) == Stored(Public, id)["owner"]

\* The parts of a record come and go together: with the public part exist
\* its owner's part and its shared part, and without it nothing of the
\* record is left.  Calls of several organisations may be in flight.
RecordIsWhole ==
    HasPublicPart => \A id \in Ids :
        IF Stored(Public, id) = Absent
        THEN \A c \in Collections : Stored(c, id) = Absent
        ELSE \A c \in CollectionsOf(Owner(id)) : Stored(c, id) # Absent

\* The private part of a record is in its owner's collection and in no other
\* organisation's ("recordA.secretFieldB" must be undefined,
\* tests/unit/contracts-segregated-data.test.ts).
PrivateAtOwner ==
    HasPublicPart => \A id \in Ids, org \in Orgs :
        Stored(org, id) # Absent => Stored(Public, id) # Absent /\ org = Owner(id)

\* No organisation's collection holds a private value of a record of another
\* organisation ("prepare() will filter to collection-specific fields", comment
\* of segregatedDataOnUpdate), also when updateAll is given records of several.
PrivateValuesAtOwner ==
    HasPublicPart => \A id \in Ids, org \in Orgs :
        "priv" \in DOMAIN Contents(org, id) => org = Owner(id)

\* "The record should contain ALL model properties (full copy)" (comment of
\* prepare): of every record that the others find the mirror's organisation
\* reads what the record's owner reads, the private attributes included.
MirrorIsCopy ==
    HasPublicPart /\ class.mirrored => \A id \in Ids :
        Stored(Public, id) # Absent =>
            Found(MirrorMsp, id) /\ ReadAs(MirrorMsp, id) = ReadAs(Owner(id), id)

\* Models with no public attribute "do NOT write anything to the public world
\* state" (tests/unit/contracts-segregated-data.test.ts): neither committed
\* nor by a call in flight.
PublicStaysEmpty ==
    IsFullySegregated => \A id \in Ids :
        /\ Stored(Public, id) = Absent
        /\ \A t \in Txs : phase[t] = "endorsed" =>
              <<Public, id>> \notin DOMAIN proposal[t].writes

\* The same of classes decorated as a whole.
WholeStaysPrivate == class.shape = "whole" => PublicStaysEmpty

Commits(t, op) ==
    /\ phase[t] = "endorsed" /\ phase'[t] = "idle" /\ world' # world
    /\ proposal[t].call.op = op

\* A create never replaces a record, whatever was committed since it was
\* endorsed.
CreateOverwritesNothing ==
    [][\A t \in Txs : HasPublicPart /\ Commits(t, "create") =>
        \A id \in proposal[t].call.ids, c \in Collections \cup {Public} :
            Stored(c, id) = Absent]_vars

\* An update by the owner changes the attributes it was given and no other,
\* also if other calls committed in between: no value is lost.
UpdateKeepsTheRest ==
    [][\A t \in Txs, org \in Orgs, id \in Ids :
        /\ Commits(t, "update")
        /\ org = proposal[t].call.org /\ id \in proposal[t].call.ids
        /\ OwnerOf(ReadAs(org, id), org) = org
        => ReadAs(org, id)' = Merged(ReadAs(org, id), proposal[t].call.data)]_vars
=============================================================================
