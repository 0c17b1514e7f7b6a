------------------------------ MODULE MsTools ------------------------------
(***************************************************************************)
(* What is done to a MeasurementSet after it was filled: FLAG_ROW is set   *)
(* and counted (src/src/ms_flagger.cpp), entries are put into HISTORY      *)
(* (src/src/ms_util.cpp), rows are grouped (src/src/ms_iter.cpp) and       *)
(* metadata is cached (src/src/ms_metadata.cpp), through MeasurementSet    *)
(* objects that keep what they have read, while the MsWriter that filled   *)
(* the MeasurementSet may flush again.                                     *)
(*                                                                         *)
(* A main row is the key it is grouped by, its time and FLAG_ROW; ANTENNA  *)
(* stands for the subtables MsMetaData caches.  Rows count from 1.         *)
(***************************************************************************)
EXTENDS Naturals, Integers, SequencesExt

CONSTANTS
    Handles,    \* the MeasurementSet objects
    Creator,    \* the one MeasurementSet::create returned, with the MsWriter
    Rows,       \* the main rows the filler has, in the order it adds them
    Antennas,   \* the antennas it has
    Entries,    \* messages for HISTORY
    Interval,   \* the width of a time bin
    MaxCalls    \* bound on the calls after the first flush

ASSUME MsToolsAssumption ==
    /\ Creator \in Handles
    /\ Rows \in Seq([key : Int, time : Int, flag : BOOLEAN])
    /\ Antennas \in Seq(STRING)
    /\ Interval \in Nat \ {0}
    /\ MaxCalls \in Nat

VARIABLES
    main,       \* the main table on disk
    antenna,    \* ANTENNA on disk, and whether its directory is there
    history,    \* HISTORY on disk
    filled,     \* rows and antennas added to the MsWriter
    handle,     \* what each MeasurementSet object has opened and read
    entries,    \* the entries each handle's MsHistoryHandler holds
    answer,     \* what the last query returned
    calls,      \* calls so far
    past        \* history variable: what the main table has been

toolVars == <<main, antenna, history, filled, handle, entries, answer, calls, past>>

NoAnswer == [to |-> "nothing"]
Unread == [read |-> FALSE, rows |-> <<>>]
Unopened == [open |-> FALSE, nrow |-> 0, reader |-> Unread]
NoMeta == [names |-> <<>>, loaded |-> FALSE]
Fresh(n) == [open |-> TRUE, nrow |-> n, reader |-> Unread,
             antenna |-> Unopened, meta |-> NoMeta]
NotOpen == [Fresh(0) EXCEPT !.open = FALSE]

ToolsTypeOK ==
    /\ Len(main) <= Len(Rows)
    /\ antenna.there \in BOOLEAN
    /\ IsPrefix(antenna.rows, Antennas)
    /\ history \in Seq(Entries)
    /\ filled \in (0..Len(Rows)) \X (0..Len(Antennas))
    /\ DOMAIN handle = Handles
    /\ entries \in [Handles -> Seq(Entries)]
    /\ calls \in 0..MaxCalls
    /\ main \in past

ToolsInit ==
    /\ main = <<>>
    /\ antenna = [there |-> TRUE, rows |-> <<>>]
    /\ history = <<>>
    /\ filled = <<0, 0>>
    /\ handle = [h \in Handles |-> IF h = Creator THEN Fresh(0) ELSE NotOpen]
    /\ entries = [h \in Handles |-> <<>>]
    /\ answer = NoAnswer
    /\ calls = 0
    /\ past = {main}

\* A call of a tool, between the flushes of the filler or during one.
Call(h) ==
    /\ handle[h].open
    /\ calls < MaxCalls
    /\ calls' = calls + 1

----------------------------------------------------------------------------
(* The filler.  MsWriter::flush writes all it was ever given, the subtables *)
(* by removing them first.                                                 *)

WriterFlushBegin ==
    /\ antenna.there
    /\ \E n \in 1..Len(Rows), a \in 1..Len(Antennas) :
        /\ n >= filled[1] /\ a >= filled[2] /\ <<n, a>> # filled
        /\ filled' = <<n, a>>
    /\ antenna' = [there |-> FALSE, rows |-> <<>>]
    /\ UNCHANGED <<main, history, handle, entries, answer, calls, past>>

WriterFlushEnd ==
    /\ ~antenna.there
    /\ antenna' = [there |-> TRUE, rows |-> SubSeq(Antennas, 1, filled[2])]
    /\ main' = SubSeq(Rows, 1, filled[1])
    /\ past' = past \cup {main'}
    /\ UNCHANGED <<history, filled, handle, entries, answer, calls>>

----------------------------------------------------------------------------
(* MeasurementSet objects.                                                 *)

OpenHandle(h) ==
    /\ ~handle[h].open
    /\ handle' = [handle EXCEPT ![h] = Fresh(Len(main))]
    /\ UNCHANGED <<main, antenna, history, filled, entries, answer, calls, past>>

\* The object and what lives on it go away.
CloseHandle(h) ==
    /\ handle[h].open
    /\ h # Creator
    /\ handle' = [handle EXCEPT ![h] = NotOpen]
    /\ entries' = [entries EXCEPT ![h] = <<>>]
    /\ UNCHANGED <<main, antenna, history, filled, answer, calls, past>>

\* The first cell takes the data file into memory, for good.
ReadMain(h) == IF handle[h].reader.read THEN handle[h].reader ELSE [read |-> TRUE, rows |-> main]

Query(h, what) ==
    /\ Call(h)
    /\ answer' = what
    /\ handle' = IF handle[h].nrow = 0 THEN handle
                 ELSE [handle EXCEPT ![h].reader = ReadMain(h)]
    /\ UNCHANGED <<main, antenna, history, filled, entries, past>>

Seen(h) == SubSeq(ReadMain(h).rows, 1, handle[h].nrow)
Flagged(s) == {i \in DOMAIN s : s[i].flag}

----------------------------------------------------------------------------
(* ms_flagger.cpp                                                          *)

\* Mutant: the rows are counted on disk, their flags in what has been read.
FlagStatsOnDisk(h) ==
    Query(h, [to |-> "stats", of |-> h, total |-> Len(main),
              flagged |-> IF handle[h].nrow = 0 THEN 0 ELSE Cardinality(Flagged(Seen(h)))])

FlagStats(h) ==
    Query(h, [to |-> "stats", of |-> h, total |-> handle[h].nrow,
              flagged |-> IF handle[h].nrow = 0 THEN 0 ELSE Cardinality(Flagged(Seen(h)))])

\* modify_flag_rows: another Table, opened for this call, writes the rows that
\* exist; nothing happens when the object was opened on an empty main table.
ModifyFlagRows(h, rows, value) ==
    /\ Call(h)
    /\ main' = IF rows = {} \/ handle[h].nrow = 0 THEN main
               ELSE [i \in DOMAIN main |-> IF i \in rows THEN [main[i] EXCEPT !.flag = value]
                                           ELSE main[i]]
    /\ past' = past \cup {main'}
    /\ answer' = NoAnswer
    /\ UNCHANGED <<antenna, history, filled, handle, entries>>

----------------------------------------------------------------------------
(* ms_iter.cpp                                                             *)

\* The order in which a std::map is walked, and in which rows are added to a list.
InOrder(S) == CHOOSE s \in SetToSeqs(S) : \A i, j \in DOMAIN s : i < j => s[i] < s[j]

\* A map from keys to rows, walked in the order of the keys.
GroupRows(keyOf) ==
    LET keys == InOrder(Range(keyOf))
    IN  [k \in DOMAIN keys |-> [key |-> keys[k],
            rows |-> InOrder({i \in DOMAIN keyOf : keyOf[i] = keys[k]})]]

IterChunks(h) ==
    Query(h, [to |-> "chunks", of |-> h, total |-> handle[h].nrow,
              chunks |-> IF handle[h].nrow = 0 THEN <<>>
                         ELSE GroupRows([i \in DOMAIN Seen(h) |-> Seen(h)[i].key])])

\* Mutant: the bins start at the time of the first row, in whole numbers that
\* are cut off towards zero.
BinOfFirst(s, t) ==
    IF t >= s[1].time THEN (t - s[1].time) \div Interval
    ELSE -((s[1].time - t) \div Interval)

\* floor((t - min_time) / interval_s)
BinOf(s, t) ==
    LET earliest == CHOOSE m \in {s[i].time : i \in DOMAIN s} :
                        \A i \in DOMAIN s : m <= s[i].time
    IN  (t - earliest) \div Interval

TimeChunks(h) ==
    Query(h, [to |-> "bins", of |-> h, total |-> handle[h].nrow,
              chunks |-> IF handle[h].nrow = 0 THEN <<>>
                         ELSE GroupRows([i \in DOMAIN Seen(h) |-> BinOf(Seen(h), Seen(h)[i].time)])])

----------------------------------------------------------------------------
(* MsHistoryHandler                                                        *)

AddEntry(h, e) ==
    /\ Call(h)
    /\ entries' = [entries EXCEPT ![h] = Append(@, e)]
    /\ answer' = NoAnswer
    /\ UNCHANGED <<main, antenna, history, filled, handle, past>>

\* HISTORY is removed and created again for the entries of this handler.
FlushHistory(h) ==
    /\ Call(h)
    /\ entries[h] # <<>>
    /\ history' = entries[h]
    /\ entries' = [entries EXCEPT ![h] = <<>>]
    /\ answer' = NoAnswer
    /\ UNCHANGED <<main, antenna, filled, handle, past>>

----------------------------------------------------------------------------
(* MsMetaData::ensure_antenna_cache                                        *)

FirstOf(s, n) == [i \in 1..n \cap DOMAIN s |-> s[i]]

\* subtable() opens ANTENNA and keeps it; without its directory it throws.
OpenAntenna(h) ==
    /\ handle[h].open
    /\ ~handle[h].antenna.open
    /\ antenna.there
    /\ handle' = [handle EXCEPT ![h].antenna =
                    [open |-> TRUE, nrow |-> Len(antenna.rows), reader |-> Unread]]
    /\ UNCHANGED <<main, antenna, history, filled, entries, answer, calls, past>>

\* Mutant: the cache is marked as loaded before the rows are read.
LoadedFirst(h) ==
    /\ Call(h)
    /\ handle[h].antenna.open
    /\ ~handle[h].meta.loaded
    /\ LET a == handle[h].antenna
           reader == IF a.reader.read \/ a.nrow = 0 THEN a.reader
                     ELSE [read |-> TRUE, rows |-> antenna.rows]
           got == FirstOf(reader.rows, a.nrow)
       IN  handle' = [handle EXCEPT
                ![h].antenna.reader = reader,
                ![h].meta = [names |-> @.names \o got, loaded |-> TRUE]]
    /\ answer' = NoAnswer
    /\ UNCHANGED <<main, antenna, history, filled, entries, past>>

\* The rows are read one by one; the reader, too, is kept, as it was when the
\* first was read.  A row it does not have throws, and the call ends without
\* the cache being marked as loaded.
EnsureAntennaCache(h) ==
    /\ Call(h)
    /\ handle[h].antenna.open
    /\ ~handle[h].meta.loaded
    /\ LET a == handle[h].antenna
           reader == IF a.reader.read \/ a.nrow = 0 THEN a.reader
                     ELSE [read |-> TRUE, rows |-> antenna.rows]
           got == FirstOf(reader.rows, a.nrow)
       IN  handle' = [handle EXCEPT
                ![h].antenna.reader = reader,
                ![h].meta = [names |-> @.names \o got, loaded |-> Len(got) = a.nrow]]
    /\ answer' = NoAnswer
    /\ UNCHANGED <<main, antenna, history, filled, entries, past>>

ToolsNext ==
    \/ WriterFlushBegin \/ WriterFlushEnd
    \/ \E h \in Handles :
        \/ OpenHandle(h) \/ CloseHandle(h)
        \/ FlagStats(h)
        \/ \E rows \in SUBSET DOMAIN Rows, value \in BOOLEAN : ModifyFlagRows(h, rows, value)
        \/ IterChunks(h) \/ TimeChunks(h)
        \/ \E e \in Entries : AddEntry(h, e)
        \/ FlushHistory(h)
        \/ OpenAntenna(h) \/ EnsureAntennaCache(h)

ToolsSpec == ToolsInit /\ [][ToolsNext]_toolVars

----------------------------------------------------------------------------
(* Properties.                                                             *)

\* The number of rows is of the moment the object was opened, their flags of
\* the first query; together they are still the truth about the first rows of
\* the main table at one moment, however many flags and rows were written in
\* between (ms_flagger.cpp:12-28).
StatsShowOneMoment ==
    answer.to = "stats" =>
        \E m \in past : Len(m) >= answer.total
                        /\ answer.flagged = Cardinality(Flagged(SubSeq(m, 1, answer.total)))

\* Each row the object knows is in one chunk, chunks are in ascending order,
\* and the rows of a time chunk lie within one interval (ms_iter.cpp:14-80).
ChunksPartition ==
    answer.to \in {"chunks", "bins"} =>
        LET c == answer.chunks
        IN  /\ \A i \in 1..answer.total :
                    Cardinality({k \in DOMAIN c : i \in Range(c[k].rows)}) = 1
            /\ \A k \in DOMAIN c : \A l \in 1..(k - 1) : c[l].key < c[k].key
            /\ answer.to = "bins" =>
                \A k \in DOMAIN c : \A i, j \in Range(c[k].rows) :
                    Rows[i].time - Rows[j].time < Interval

\* Whatever calls have thrown before, a cache marked as loaded holds every row
\* of the subtable the object has, once and in order (ms_metadata.cpp:15-30).
MetaDataIsWhole ==
    \A h \in Handles : handle[h].meta.loaded =>
        /\ Len(handle[h].meta.names) = handle[h].antenna.nrow
        /\ IsPrefix(handle[h].meta.names, Antennas)
=============================================================================
