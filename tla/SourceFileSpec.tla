--------------------------- MODULE SourceFileSpec ---------------------------
(***************************************************************************)
(* What a Source File Object promises (spec section 4.3), with no reader,  *)
(* no passes and no parser: the object holds the tags of one reading of   *)
(* its file or buffer.  An update that finds the file stale (or is        *)
(* forced) replaces the tags by those of the file as it was at the start  *)
(* or at the end of the update (an editor may write it meanwhile), and    *)
(* stamps the analysis time; a failed open leaves no tags.  A file of an  *)
(* ignored or disabled language keeps its tags.  A tag is the text of a   *)
(* line as section 4.1 reads it; the tags form a bag, the sorted array's  *)
(* order being canonical.                                                  *)
(***************************************************************************)
EXTENDS Integers, Sequences, SequencesExt, Bags, ReaderInputs

CONSTANTS
  LangEnabled,  \* the file's language is known and enabled
  Texts,        \* the contents the file can be given, as ReaderInputs inputs
  Buffers,      \* the buffers an editor can pass, <<>> the empty one
  MaxClock      \* the last second of the run

VARIABLES
  alive,   \* the object exists
  atags,   \* bag of the tags of the last reading
  aTime,   \* analyze_time
  disk,    \* the file on disk: [exists, text, mtime]
  clock    \* time(NULL), in seconds

avars == <<alive, atags, aTime, disk, clock>>

NoTags == EmptyBag

(* The tags one reading of input inp yields: one per line.                *)
Reading(inp) == ToBag([k \in 1 .. Len(inp) |-> RefText(inp, k)])

FileReading(d) == IF d.exists THEN Reading(d.text) ELSE NoTags

Stale(d) == d.exists /\ aTime < d.mtime

(* What the disk can hold after a writer acts at the current second.      *)
DiskAfter(d) ==
  {d, [d EXCEPT !.exists = FALSE]} \cup
  {[exists |-> TRUE, text |-> t, mtime |-> clock] : t \in Texts}

AInit ==
  /\ alive = FALSE /\ atags = NoTags /\ aTime = 0
  /\ disk \in [exists : {TRUE}, text : Texts, mtime : {1}]
  /\ clock = 1

ATick == clock < MaxClock /\ clock' = clock + 1 /\ UNCHANGED <<alive, atags, aTime, disk>>

AEdit ==
  /\ disk' \in DiskAfter(disk)
  /\ UNCHANGED <<alive, atags, aTime, clock>>

(* An update that reparses.                                               *)
AParse ==
  /\ alive
  /\ disk' \in DiskAfter(disk)
  /\ atags' \in IF LangEnabled THEN {FileReading(disk), FileReading(disk')}
                ELSE {atags}
  /\ aTime' = clock
  /\ UNCHANGED <<alive, clock>>

ABufferParse ==
  /\ alive
  /\ \E b \in Buffers :
       atags' = IF LangEnabled THEN (IF b = <<>> THEN NoTags ELSE Reading(b))
                ELSE atags
  /\ aTime' = clock
  /\ UNCHANGED <<alive, disk, clock>>

(* Creation needs the file; it may parse at once.                         *)
ANew ==
  /\ ~alive /\ disk.exists
  /\ \/ alive' = TRUE /\ atags' = NoTags /\ aTime' = 0 /\ UNCHANGED <<disk, clock>>
     \/ /\ alive' = TRUE /\ disk' \in DiskAfter(disk)
        /\ atags' \in IF LangEnabled THEN {FileReading(disk), FileReading(disk')}
                      ELSE {NoTags}
        /\ aTime' = clock /\ UNCHANGED clock

AFree == alive /\ alive' = FALSE /\ atags' = NoTags /\ aTime' = 0 /\ UNCHANGED <<disk, clock>>

ANext == ATick \/ AEdit \/ AParse \/ ABufferParse \/ ANew \/ AFree

ASpec == AInit /\ [][ANext]_avars
=============================================================================
