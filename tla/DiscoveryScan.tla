---------------------------- MODULE DiscoveryScan ----------------------------
(***************************************************************************)
(* The enumerator's use of the parser: the images of several cards, good   *)
(* and bad, are parsed into one database in any order and any number of    *)
(* times, and the database is now and then started afresh.                 *)
(***************************************************************************)
EXTENDS MkDiscovery

CONSTANTS
    Images          \* [image, size]: what cards present, size being the file's

ASSUME ImagesAssumption == Images \subseteq [image : DiscoveryImage, size : Nat]

VARIABLES
    db,
    scanned,        \* the card parsed last, << >> for none
    result          \* what the parser returned for it

vars == <<db, scanned, result>>

Profile(profile) ==
    LET built == BuildProfile(profile)
    IN  IF built = << >> THEN {}
        ELSE {[image |-> built[1], size |-> built[1].header.total_length]}

Cards == Images \cup UNION {Profile(profile) : profile \in Profiles}

Init ==
    /\ db = EmptyDatabase
    /\ scanned = << >>
    /\ result = "OK"

Scan(card) ==
    LET parse == Parse(card.image, card.size, db)
    IN  /\ db' = parse.db
        /\ result' = parse.result
        /\ scanned' = <<card>>

(* atarix_discovery_database_init, and the caller handing in its arrays    *)
(* again, since the call leaves every table without storage.               *)
DatabaseInit ==
    /\ db' = EmptyDatabase
    /\ scanned' = << >>
    /\ result' = "OK"

Next == (\E card \in Cards : Scan(card)) \/ DatabaseInit

Spec == Init /\ [][Next]_vars

Owners == Tables \ {"dependencies"}

(* A handle names one thing: whatever is parsed, repeated or broken off in *)
(* the middle, no two entries of the resource, service and instrumentation *)
(* tables have the same handle, in one table or in two.                    *)
HandlesUnique ==
    \A s, t \in Owners : \A i \in DOMAIN db[s], j \in DOMAIN db[t] :
        db[s][i].handle = db[t][j].handle => s = t /\ i = j

(* When the parser returns OK everything the image declares can be looked  *)
(* up: each resource and service in its own table, before END.             *)
ParsedIsFindable ==
    scanned # << >> /\ result = "OK" =>
        \A i \in 1 .. LastTurn(scanned[1].image) - 1 :
            LET record == scanned[1].image.records[i]
            IN  record.type \in {"RESOURCE", "SERVICE"}
                    => Find(db[TableOf(record.type)], record.handle) # 0

(* The validator walks an image by its total length, the iterator by the   *)
(* size of the file; an image the validator passed never runs out before   *)
(* the iterator meets END.                                                 *)
ValidatedEnds ==
    \A i \in DOMAIN scanned :
        Validate(scanned[i].image, scanned[i].size) = "OK" => result # "MISSING_END"

(* A parse that fails in the middle leaves a prefix of its records behind  *)
(* and never disturbs what was there: tables only grow at their ends, and  *)
(* an image the validator rejects changes nothing.                         *)
ScansOnlyAppend ==
    [][scanned' # << >> =>
          /\ \A table \in Tables : IsPrefix(db[table], db'[table])
          /\ Validate(scanned'[1].image, scanned'[1].size) # "OK" => db' = db]_vars

(* Every profile of mkdiscovery that fits passes the validator: lengths,   *)
(* counts and the two CRCs it patches agree with discovery_validate.c.     *)
ProfilesValidate ==
    \A profile \in Profiles : \A card \in Profile(profile) :
        scanned = <<card>> => result \in {"OK", "DUPLICATE_HANDLE", "CAPACITY"}

(* The images of mkdiscovery are "canonical binary conformance fixtures"   *)
(* (tests/reference/README.md, which lists duplicate_handle among the      *)
(* negative ones): each of them parses into an empty database.             *)
ProfilesParse ==
    [][\A profile \in Profiles : \A card \in Profile(profile) :
          db = EmptyDatabase /\ scanned' = <<card>> => result' = "OK"]_vars

==============================================================================
