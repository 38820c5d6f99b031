----------------------------- MODULE AuctionDiff -----------------------------
(***************************************************************************)
(* rzauctionmonitor/lib: the auctions as the monitor sees them             *)
(* (AuctionSimpleDiffWriter), the dump it writes after each round over the *)
(* categories, first a full one and then the differences, and the parsers' *)
(* view (AuctionComplexDiffWriter) that is rebuilt from these dumps alone. *)
(* The parsers also estimate when an auction will end: the game shows only *)
(* a class of the time that remains.                                       *)
(*                                                                         *)
(* The auction house itself is the environment: auctions are added, bid    *)
(* on, sold, and expire.  A scan of a category sees everything that was    *)
(* there when it began, once, unless the pages shift meanwhile.            *)
(***************************************************************************)
EXTENDS Naturals, Sequences, FiniteSets, FiniteSetsExt

CONSTANTS Uids,
          CategoryOf,     \* the category of each auction: 0 .. Categories - 1
          Categories,
          Duration,       \* durationTypeToSecond: a function of the class shown
          MaxTime,        \* bound on the clock
          MaxFiles,       \* bound on the dumps the parser is behind
          FullDumps,      \* client.do_full_auction_dump
          MaxShifts,      \* bound on auctions a scan misses or sees twice
          MaxRestarts,    \* bound on restarts of the monitor or of the parser
          Null

VARIABLES
  now,
  house,        \* environment: the auctions of the game server
  monitor,      \* AuctionSimpleDiffWriter and AuctionManager's firstDump
  parser,       \* AuctionComplexDiffWriter
  files,        \* the dumps written and not yet parsed
  ends,         \* history: when each auction really ends
  shifted,         \* history: the auctions a scan has missed or seen twice
  unseen,       \* history: the parsed dumps since the auction was last there
  budget

vars == <<now, house, monitor, parser, files, ends, shifted, unseen, budget>>

Cats == 0 .. Categories - 1
NoTimes == [pb |-> 0, pe |-> 0, b |-> 0, e |-> 0]

\* What the game shows of the time that remains.
Shown(u) ==
  LET remains == ends[u] - now
  IN IF remains > Duration["medium"] THEN "long" ELSE IF remains > Duration["short"] THEN "medium" ELSE "short"

DataOf(u) == [type |-> Shown(u), bid |-> house[u].bid]

-----------------------------------------------------------------------------
(* CategoryTimeManager *)

\* getLastEndCategoryTime.
LastEnd(times) == Max({times[c].e : c \in Cats})

\* resetCategoryTime.
Reset(times) == [c \in Cats |-> [pb |-> times[c].b, pe |-> times[c].e, b |-> LastEnd(times), e |-> LastEnd(times)]]

\* getEstimatedPreviousCategoryBeginTime, getEstimatedCategoryBeginTime and
\* getEstimatedCategoryEndTime.
PreviousBegin(times, c) == Max({times[d].pb : d \in 0 .. c})
BeginTime(times, c) == Max({times[d].b : d \in 0 .. c})
EndTime(times, c) == Max({times[d].e : d \in 0 .. c})

\* adjustCategoryTimeRange, for every time in ts.
Adjusted(t, ts) ==
  LET low == IF ts = {} THEN t.b ELSE Min(ts)
  IN [t EXCEPT !.b = IF @ = 0 \/ @ > low THEN low ELSE @, !.e = Max(ts \cup {@})]

-----------------------------------------------------------------------------
(* AuctionSimpleData *)

Added(t0, t1, data) == [status |-> "Added", min |-> t0, max |-> t1, data |-> data]

\* setStatus: updateTime unless the auction is not processed.
SetStatus(a, status, time) == [a EXCEPT !.status = status, !.max = time]

\* doUpdate.
doUpdate(a, time, data) ==
  LET b == [a EXCEPT !.data = data]
  IN IF data # a.data /\ a.status # "Added" THEN SetStatus(b, "Updated", time)
     ELSE IF data = a.data /\ a.status \notin {"Added", "Updated"} THEN SetStatus(b, "Unmodified", time)
     ELSE b

\* endProcess.
SimpleEnd(a, time) == IF a.status = "NotProcessed" THEN SetStatus(a, "Deleted", time) ELSE a

\* AuctionGenericWriter::beginProcess with AuctionSimpleData::beginProcess.
SimpleBegin(a) ==
  IF a = Null \/ a.status = "Deleted" THEN Null ELSE [a EXCEPT !.status = "NotProcessed", !.min = a.max]

\* exportDump: a difference leaves out what is unmodified.
Export(m, full) ==
  [full |-> full,
   header |-> [c \in Cats |-> [b |-> m.times[c].pb, e |-> m.times[c].pe]],
   auctions |-> [u \in Uids |-> IF m.auctions[u] = Null \/ (~full /\ m.auctions[u].status = "Unmodified")
                                THEN Null ELSE m.auctions[u]]]

-----------------------------------------------------------------------------
(* AuctionManager, one category after the other *)

FreshMonitor == [auctions |-> [u \in Uids |-> Null], times |-> [c \in Cats |-> NoTimes],
                 category |-> 0, phase |-> "idle", first |-> TRUE]

\* getNextRequest of a first page; it is asked again when its search fails.
BeginCategory ==
  /\ monitor.phase \in {"idle", "begun"}
  /\ monitor' = [monitor EXCEPT !.phase = "begun", !.times[monitor.category].b = now]
  /\ UNCHANGED <<now, house, parser, files, ends, shifted, unseen, budget>>

\* AuctionSimpleDiffWriter::addAuctionInfo.
addAuctionInfo(u) ==
  LET c == CategoryOf[u]
      a == monitor.auctions[u]
  IN /\ monitor.phase \in {"begun", "scanning"} /\ monitor.category = c /\ house[u] # Null
     /\ monitor' = [monitor EXCEPT
          !.phase = "scanning",
          !.auctions[u] = IF a = Null THEN Added(PreviousBegin(monitor.times, c), now, DataOf(u))
                          ELSE doUpdate(a, now, DataOf(u)),
          !.times[c] = Adjusted(@, {now})]
     /\ IF a # Null /\ a.status # "NotProcessed"
        THEN /\ budget.shifts > 0 /\ budget' = [budget EXCEPT !.shifts = @ - 1]
             /\ shifted' = shifted \cup {u}
        ELSE UNCHANGED <<shifted, budget>>
     /\ UNCHANGED <<now, house, parser, files, ends, unseen>>

\* The auctions of the category that should have been seen and were not.
Missed ==
  {u \in Uids : /\ CategoryOf[u] = monitor.category /\ house[u] # Null
                /\ house[u].added < monitor.times[monitor.category].b
                /\ (monitor.auctions[u] = Null \/ monitor.auctions[u].status = "NotProcessed")}

\* endProcess.
EndProcess(m) ==
  [m EXCEPT !.auctions = [u \in Uids |-> IF @[u] = Null THEN Null
                                         ELSE SimpleEnd(@[u], EndTime(m.times, CategoryOf[u]))],
            !.times = Reset(@)]

\* beginProcess.
BeginProcess(m) ==
  [m EXCEPT !.auctions = [u \in Uids |-> SimpleBegin(@[u])], !.category = 0, !.phase = "idle", !.first = FALSE]

\* onAllRequestProcessed and dumpAuctions.  A round takes some time, as workers
\* wait client.auction_search_delay after each page.
EndCategory ==
  /\ monitor.phase \in {"begun", "scanning"}
  /\ monitor.category + 1 = Categories => now > monitor.times[0].b /\ Len(files) < MaxFiles
  /\ Cardinality(Missed) <= budget.shifts
  /\ budget' = [budget EXCEPT !.shifts = @ - Cardinality(Missed)]
  /\ shifted' = shifted \cup Missed
  /\ \E m \in {[monitor EXCEPT !.times[monitor.category].e = now, !.phase = "idle"]} :
       IF m.category + 1 < Categories
       THEN monitor' = [m EXCEPT !.category = @ + 1] /\ UNCHANGED files
       ELSE \E done \in {EndProcess(m)} :
              /\ files' = files \o (IF m.first \/ FullDumps THEN <<Export(done, TRUE)>> ELSE << >>)
                                \o (IF m.first THEN << >> ELSE <<Export(done, FALSE)>>)
              /\ monitor' = BeginProcess(done)
  /\ UNCHANGED <<now, house, parser, ends, unseen>>

\* The monitor starts again, without initial_state_file.
RestartMonitor ==
  /\ budget.restarts > 0 /\ budget' = [budget EXCEPT !.restarts = @ - 1]
  /\ monitor' = FreshMonitor
  /\ UNCHANGED <<now, house, parser, files, ends, shifted, unseen>>

-----------------------------------------------------------------------------
(* AuctionComplexData *)

NoData == [type |-> "unknown", bid |-> 0]

\* postParseData, with the data before and after.
Estimated(a, old, new) ==
  LET low == Duration[a.data.type] + a.min
      high == Duration[a.data.type] + a.max
  IN IF ~new /\ old.type # "unknown" /\ a.data.type # old.type
     THEN [a EXCEPT !.endMin = IF low > @ \/ a.fromAdded THEN low ELSE @,
                    !.endMax = IF high < @ THEN high ELSE @,
                    !.fromAdded = FALSE]
     ELSE IF new /\ a.fromAdded THEN [a EXCEPT !.endMin = low, !.endMax = high]
     ELSE a

\* The constructor.
Complex(t0, t1, data) ==
  Estimated([status |-> "Added", min |-> t0, max |-> t1, data |-> data, old |-> NoData, deleted |-> FALSE,
             count |-> 0, fromAdded |-> TRUE, endMin |-> 0, endMax |-> 0], NoData, TRUE)

\* setStatus.
setStatus(a, status, time) ==
  IF status \in {"MaybeDeleted", "Deleted"}
  THEN [a EXCEPT !.status = status, !.deleted = TRUE, !.max = IF a.deleted THEN @ ELSE time]
  ELSE [a EXCEPT !.status = status, !.deleted = FALSE, !.count = 0, !.max = time]

StaysDeleted(a, time, data) ==
  IF data # a.old /\ a.status # "Added"
  THEN Estimated(setStatus([a EXCEPT !.data = data], "Updated", time), a.old, FALSE) ELSE a

\* update; parseData compares with the data at the last beginProcess.
update(a, time, data) ==
  LET b == [a EXCEPT !.data = data]
      changed == data # a.old
      c == IF changed /\ a.status # "Added" THEN setStatus(b, "Updated", time)
           ELSE IF ~changed /\ a.status \notin {"Added", "Updated"} THEN setStatus(b, "Unmodified", time)
           ELSE b
  IN IF changed THEN Estimated(c, a.old, FALSE) ELSE c

\* remove and unmodified.
remove(a, time) == IF a.status = "NotProcessed" THEN setStatus(a, "MaybeDeleted", time) ELSE a
unmodified(a, time) == IF a.status \notin {"Added", "Updated"} THEN setStatus(a, "Unmodified", time) ELSE a

\* maybeStillDeleted.
maybeStillDeleted(a) ==
  IF ~a.deleted THEN a
  ELSE LET b == [a EXCEPT !.count = @ + 1]
       IN IF b.count > 3 THEN setStatus(b, "Deleted", b.max)
          ELSE IF b.status = "NotProcessed" THEN setStatus(b, "MaybeDeleted", b.max) ELSE b

\* AuctionGenericWriter::beginProcess with AuctionComplexData::beginProcess.
ComplexBegin(a) ==
  IF a = Null \/ a.status = "Deleted" THEN Null
  ELSE [a EXCEPT !.status = "NotProcessed", !.min = IF a.deleted THEN @ ELSE a.max, !.old = a.data]

\* endProcess.
ComplexEnd(a, begin, end, diffMode) ==
  LET b == IF a.status # "NotProcessed" THEN a
           ELSE IF ~diffMode THEN remove(a, end)
           ELSE IF ~a.deleted THEN unmodified(a, begin) ELSE a
  IN maybeStillDeleted(b)

-----------------------------------------------------------------------------
(* AuctionComplexDiffWriter *)

\* addAuctionInfo: record r of the file for auction a; p is the estimated
\* previous begin of the category.
Parsed(a, r, p) ==
  LET before == IF r.min # 0 THEN r.min ELSE IF a # Null /\ a.min <= p THEN p ELSE 0
      known == IF before # 0 THEN [a EXCEPT !.min = before] ELSE a
  IN CASE r.status \in {"Added", "Updated"} /\ a # Null -> update(known, r.max, r.data)
       [] r.status \in {"Added", "Updated"} /\ a = Null -> Complex(IF r.min # 0 THEN r.min ELSE p, r.max, r.data)
       [] r.status = "Deleted" /\ a # Null -> remove(known, r.max)
       [] OTHER -> a    \* also D_Unmodified: an unsupported flag

\* processWork of P2ParseAuction or P3ParseAuction, or AuctionParser::parseFile.
Process(p, file) ==
  LET header == [c \in Cats |-> [p.times[c] EXCEPT !.b = file.header[c].b, !.e = file.header[c].e]]
      recorded == {u \in Uids : file.auctions[u] # Null}
      times == [c \in Cats |-> Adjusted(header[c], {file.auctions[u].max : u \in {v \in recorded : CategoryOf[v] = c}})]
      begun == [u \in Uids |-> ComplexBegin(p.auctions[u])]
      read == [u \in Uids |-> IF u \in recorded
                              THEN Parsed(begun[u], file.auctions[u], PreviousBegin(times, CategoryOf[u]))
                              ELSE begun[u]]
  IN [auctions |-> [u \in Uids |-> IF read[u] = Null THEN Null
                                   ELSE ComplexEnd(read[u], BeginTime(times, CategoryOf[u]),
                                                   EndTime(times, CategoryOf[u]), ~file.full)],
      times |-> Reset(times)]

\* A file is parsed.  unseen counts the files that say the auction is away.
ParseFile ==
  /\ files # << >>
  /\ parser' = Process(parser, files[1])
  /\ files' = SubSeq(files, 2, Len(files))
  /\ unseen' = [u \in Uids |->
       LET r == files[1].auctions[u]
           away == IF files[1].full THEN r = Null ELSE r # Null /\ r.status = "Deleted"
       IN IF away THEN Min({unseen[u] + 1, 5})
          ELSE IF r # Null /\ r.status \in {"Added", "Updated"} THEN 0
          ELSE IF unseen[u] > 0 THEN Min({unseen[u] + 1, 5}) ELSE 0]
  /\ UNCHANGED <<now, house, monitor, ends, shifted, budget>>

\* exportDump of everything and importDump: oldDynamicData is not saved, and an
\* auction that was not processed comes back as added.
Imported(p) ==
  [auctions |-> [u \in Uids |-> IF p.auctions[u] = Null THEN Null ELSE
                   [p.auctions[u] EXCEPT !.old = NoData, !.status = IF @ = "NotProcessed" THEN "Added" ELSE @]],
   times |-> Reset([c \in Cats |-> [NoTimes EXCEPT !.b = p.times[c].pb, !.e = p.times[c].pe]])]

\* The parser starts again from its state file.
RestartParser ==
  /\ budget.restarts > 0 /\ budget' = [budget EXCEPT !.restarts = @ - 1]
  /\ parser' = Imported(parser)
  /\ UNCHANGED <<now, house, monitor, files, ends, shifted, unseen>>

-----------------------------------------------------------------------------
(* The auction house *)

Sell(u) ==
  /\ house[u] = Null /\ ends[u] = 0
  /\ house' = [house EXCEPT ![u] = [added |-> now, bid |-> 0]]
  /\ ends' = [ends EXCEPT ![u] = now + Duration["long"]]
  /\ UNCHANGED <<now, monitor, parser, files, shifted, unseen, budget>>

Bid(u) ==
  /\ house[u] # Null /\ house[u].bid = 0
  /\ house' = [house EXCEPT ![u].bid = 1]
  /\ UNCHANGED <<now, monitor, parser, files, ends, shifted, unseen, budget>>

Leave(u) ==
  /\ house[u] # Null
  /\ house' = [house EXCEPT ![u] = Null]
  /\ UNCHANGED <<now, monitor, parser, files, ends, shifted, unseen, budget>>

\* Nothing stays beyond its end.
Tick ==
  /\ now < MaxTime /\ now' = now + 1
  /\ \A u \in Uids : house[u] # Null => now < ends[u]
  /\ UNCHANGED <<house, monitor, parser, files, ends, shifted, unseen, budget>>

-----------------------------------------------------------------------------
Init ==
  /\ now = 1
  /\ house = [u \in Uids |-> Null] /\ ends = [u \in Uids |-> 0] /\ shifted = {}
  /\ monitor = FreshMonitor
  /\ parser = [auctions |-> [u \in Uids |-> Null], times |-> [c \in Cats |-> NoTimes]]
  /\ files = << >> /\ unseen = [u \in Uids |-> 5]
  /\ budget = [shifts |-> MaxShifts, restarts |-> MaxRestarts]

Next ==
  \/ BeginCategory \/ EndCategory \/ RestartMonitor
  \/ ParseFile \/ RestartParser
  \/ Tick
  \/ \E u \in Uids : addAuctionInfo(u) \/ Sell(u) \/ Bid(u) \/ Leave(u)

Spec == Init /\ [][Next]_vars

-----------------------------------------------------------------------------
\* The auctions that the last dump says are there.  Since then beginProcess has
\* purged the deleted ones and the current round has added the new ones.
Dumped(u) == monitor.auctions[u] # Null /\ monitor.auctions[u].status # "Added"

Live(u) == parser.auctions[u] # Null /\ ~parser.auctions[u].deleted

\* Once every dump is parsed, the parser knows exactly the auctions of the last
\* dump as present, although it was given the differences only, whatever was
\* missed and came back, and across restarts of either program.
InSync ==
  files = << >> /\ ~monitor.first => \A u \in Uids : Live(u) <=> Dumped(u)

\* With the data the monitor has for them, up to what the current round updated.
SameData ==
  files = << >> /\ ~monitor.first =>
    \A u \in Uids : Live(u) /\ Dumped(u) /\ monitor.auctions[u].status = "NotProcessed" =>
                      parser.auctions[u].data = monitor.auctions[u].data

\* An auction that is away is kept for four dumps and purged with the next one.
Grace ==
  \A u \in Uids : /\ (unseen[u] > 0 <=> ~Live(u))
                  /\ parser.auctions[u] # Null /\ ~Live(u) =>
                       parser.auctions[u].count = unseen[u]
                         /\ (parser.auctions[u].status = "Deleted" <=> unseen[u] >= 4)

\* What the parser rebuilds from the differences is what the monitor saw, and
\* what went away is kept as long as it should (AuctionComplexData::setStatus).
InStep == InSync /\ SameData /\ Grace

\* The interval of the times of presence is one, and the estimated end of an
\* auction that no scan has missed or seen twice contains its real end, from the first dump
\* that shows it.
EndInside ==
  \A u \in Uids : Live(u) /\ u \notin shifted =>
    /\ parser.auctions[u].min <= parser.auctions[u].max
    /\ ends[u] \in parser.auctions[u].endMin .. parser.auctions[u].endMax

=============================================================================
