------------------------- MODULE RecentConnections -------------------------
(***************************************************************************)
(* The connection form and the list of recent connections.                 *)
(*                                                                         *)
(* A click on Connect validates what the form holds, puts it in front of   *)
(* the stored list and reads the list back. The list lives in              *)
(* EncryptedSharedPreferences: the process has a copy in memory, and       *)
(* apply() writes it to the disk later. The process can die before that,   *)
(* and the encrypted preferences can fail to open: the repository then     *)
(* stores nothing.                                                         *)
(*                                                                         *)
(* A text is a model value; the blank ones, for isBlank, are NoText.       *)
(***************************************************************************)
EXTENDS Integers, Sequences, FiniteSets

CONSTANTS
    Texts,      \* what a text field can hold
    Ports,      \* what the port field can hold, 0 for what is no number
    NoText,     \* a blank text
    Inputs,     \* bound: the forms a user fills in
    MaxCount,   \* how many connections are kept: 5
    MaxSaves    \* bound: how many connections are saved

Null == "null"      \* an absent domain

ASSUME TextsAssumption  == NoText \in Texts /\ Null \notin Texts
ASSUME PortsAssumption  == Ports \subseteq Int /\ 3389 \in Ports
ASSUME BoundsAssumption == MaxCount \in Nat \ {0} /\ MaxSaves \in Nat

(* ConnectionConfig; the form differs in the domain, which is a text there   *)
Forms   == [host: Texts, port: Ports, username: Texts, password: Texts, domain: Texts]
Configs == [host: Texts, port: Ports, username: Texts, password: Texts,
            domain: Texts \cup {Null}]

ASSUME InputsAssumption == Inputs \subseteq Forms

VARIABLES
    prefs,      \* encryptedPrefs of the repository: "lazy", "open", "failed"
    memory,     \* the stored list as the process sees it, encoded
    disk,       \* the stored list on the disk, encoded
    screen,     \* currentScreen
    form,       \* the text fields of the connection screen
    active,     \* activeConnection
    recent,     \* recentConnections, the list on the screen
    used,       \* history: the configurations saved, oldest first
    flushed     \* history: how many of them are on the disk

vars == <<prefs, memory, disk, screen, form, active, recent, used, flushed>>

-----------------------------------------------------------------------------
empty == [host |-> NoText, port |-> 3389, username |-> NoText, password |-> NoText,
          domain |-> Null]

(* Mutant: only the empty configuration's absent domain is looked after.     *)
FormOfNull(config) == IF config = empty THEN [config EXCEPT !.domain = NoText] ELSE config

(* domain.orEmpty(), and back: domain.ifBlank { null }                       *)
FormOf(config) == [config EXCEPT !.domain = IF @ = Null THEN NoText ELSE @]
ConfigOf(f)    == [f EXCEPT !.domain = IF @ = NoText THEN Null ELSE @]

validate(config) ==
    /\ config.host # NoText /\ config.port \in 1 .. 65535
    /\ config.username # NoText /\ config.password # NoText

(* The JSON text of the list. A domain that is null or blank is left out; a  *)
(* domain that was left out is read as a blank text, and that as null.       *)
encodeConnections(items) == [i \in DOMAIN items |-> FormOf(items[i])]

(* The items at the positions in I, in their order: what filter leaves       *)
Kept(items, I) ==
    LET kept[n \in 0 .. Len(items)] ==
            IF n = 0 THEN <<>>
            ELSE IF n \in I THEN Append(kept[n - 1], items[n]) ELSE kept[n - 1]
    IN  kept[Len(items)]

Complete(item) == NoText \notin {item.host, item.username, item.password}

(* Mutant: the domain is taken as it is read.                                *)
decodeConnectionsRaw(raw) == Kept(raw, {i \in DOMAIN raw : Complete(raw[i])})

(* Entries without a host, a username or a password are skipped.             *)
decodeConnections(raw) ==
    Kept([i \in DOMAIN raw |-> ConfigOf(raw[i])], {i \in DOMAIN raw : Complete(raw[i])})

(* What makes two configurations the same connection                         *)
Identity(config) == <<config.host, config.port, config.username, config.domain>>

applyLimit(items) == SubSeq(items, 1, IF Len(items) < MaxCount THEN Len(items) ELSE MaxCount)

(* Mutant: what is on the list already is left as it is.                     *)
upsertKeeping(existing, incoming) ==
    IF \E i \in DOMAIN existing : Identity(existing[i]) = Identity(incoming)
    THEN existing
    ELSE applyLimit(<<incoming>> \o existing)

(* UpsertRecentConnectionUseCase                                             *)
upsert(existing, incoming) ==
    LET others == {i \in DOMAIN existing : Identity(existing[i]) # Identity(incoming)}
    IN  applyLimit(<<incoming>> \o Kept(existing, others))

-----------------------------------------------------------------------------
TypeOK ==
    /\ prefs \in {"lazy", "open", "failed"}
    /\ memory \in Seq(Forms) /\ disk \in Seq(Forms)
    /\ screen \in {"CONNECTION", "SESSION"}
    /\ form \in Forms /\ active \in Configs
    /\ recent \in Seq(Configs)
    /\ used \in Seq(Configs) /\ flushed \in 0 .. Len(used)

Init ==
    /\ prefs = "lazy"
    /\ memory = <<>> /\ disk = <<>>
    /\ screen = "CONNECTION"
    /\ form = FormOf(empty) /\ active = empty /\ recent = <<>>
    /\ used = <<>> /\ flushed = 0

(* encryptedPrefs is created when AppRoot first reads the list, and once for *)
(* each repository.                                                          *)
ReadsList ==
    /\ prefs = "lazy"
    /\ \/ prefs' = "open" /\ recent' = decodeConnections(memory)
       \/ prefs' = "failed" /\ recent' = <<>>
    /\ UNCHANGED <<memory, disk, screen, form, active, used, flushed>>

(* Where the user can do something                                           *)
Composed == prefs # "lazy" /\ screen = "CONNECTION"

FillsForm ==
    /\ Composed /\ form' \in Inputs
    /\ UNCHANGED <<prefs, memory, disk, screen, active, recent, used, flushed>>

(* A click on a card of the list                                             *)
SelectsRecent(i) ==
    /\ Composed
    /\ active' = recent[i] /\ form' = FormOf(recent[i])
    /\ UNCHANGED <<prefs, memory, disk, screen, recent, used, flushed>>

(* saveConnection                                                            *)
Saves(config) ==
    IF prefs = "open"
    THEN /\ memory' = encodeConnections(upsert(decodeConnections(memory), config))
         /\ used' = Append(used, config)
    ELSE UNCHANGED <<memory, used>>

(* Mutant: the list on the screen is not read again.                         *)
ClickConnectStale ==
    /\ Composed /\ Len(used) < MaxSaves
    /\ LET config == ConfigOf(form) IN
          /\ validate(config) /\ Saves(config)
          /\ active' = config
    /\ screen' = "SESSION"
    /\ UNCHANGED <<prefs, disk, form, recent, flushed>>

(* onConnectClick; if the configuration is not valid nothing changes but a   *)
(* snackbar.                                                                 *)
ClickConnect ==
    /\ Composed /\ Len(used) < MaxSaves
    /\ LET config == ConfigOf(form) IN
          /\ validate(config) /\ Saves(config)
          /\ active' = config
    /\ recent' = IF prefs = "open" THEN decodeConnections(memory') ELSE <<>>
    /\ screen' = "SESSION"
    /\ UNCHANGED <<prefs, disk, form, flushed>>

(* onBack: the connection screen is composed again, with activeConnection as *)
(* its initial value.                                                        *)
GoesBack ==
    /\ screen = "SESSION" /\ screen' = "CONNECTION"
    /\ form' = FormOf(active)
    /\ UNCHANGED <<prefs, memory, disk, active, recent, used, flushed>>

(* What apply() left to do: the writer writes the list as it is by now.      *)
Applied ==
    /\ flushed < Len(used)
    /\ disk' = memory /\ flushed' = Len(used)
    /\ UNCHANGED <<prefs, memory, screen, form, active, recent, used>>

(* What a composition remembers starts afresh, a new repository with it      *)
Recomposed ==
    /\ prefs' = "lazy" /\ screen' = "CONNECTION"
    /\ form' = FormOf(empty) /\ active' = empty /\ recent' = <<>>

ActivityRecreated == Recomposed /\ UNCHANGED <<memory, disk, used, flushed>>

(* The process dies and is started again: the list is what the disk has.     *)
ProcessDies ==
    /\ Recomposed
    /\ memory' = disk /\ used' = SubSeq(used, 1, flushed)
    /\ UNCHANGED <<disk, flushed>>

Next ==
    \/ ReadsList \/ FillsForm \/ ClickConnect \/ GoesBack
    \/ \E i \in DOMAIN recent : SelectsRecent(i)
    \/ Applied \/ ActivityRecreated \/ ProcessDies

Spec == Init /\ [][Next]_vars

-----------------------------------------------------------------------------
(* The identities saved, each by the save that used it last                  *)
LastUses(n) ==
    {i \in 1 .. n : \A j \in i + 1 .. n : Identity(used[j]) # Identity(used[i])}

(* list holds the last uses of the first n saves, newest first, up to the    *)
(* limit: n uses are on the list or are older than everything on it.         *)
MostRecent(list, n) ==
    /\ Len(list) = IF Cardinality(LastUses(n)) < MaxCount THEN Cardinality(LastUses(n))
                                                          ELSE MaxCount
    /\ \A k \in DOMAIN list : \E i \in LastUses(n) :
          /\ list[k] = used[i]
          /\ Cardinality({j \in LastUses(n) : j > i}) = k - 1

(* The stored list is the most recently used connections, each once, with the*)
(* password it was last used with, newest first and five at most, and what a *)
(* restart finds is that list as of an earlier save. (saveConnection reads,  *)
(* changes and writes the list as a whole through its JSON text.)            *)
StoresMostRecent ==
    /\ MostRecent(decodeConnections(memory), Len(used))
    /\ MostRecent(decodeConnections(disk), flushed)

(* The connection screen shows the list as it is stored, also after a connect*)
(* from the form and after the activity was recreated.                       *)
ShowsStored == prefs = "open" => recent = decodeConnections(memory)

(* FINAL_SPEC.md: a card of the list restores the complete configuration. So *)
(* whatever the cards offer fills the form with that very configuration, and *)
(* Connect accepts it.                                                       *)
CardsConnect ==
    \A i \in DOMAIN recent :
        ConfigOf(FormOf(recent[i])) = recent[i] /\ validate(ConfigOf(FormOf(recent[i])))
=============================================================================
