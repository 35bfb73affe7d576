---------------------------- MODULE MCSequential ----------------------------
(* Code that runs alone, with interrupts off: each of the five machines    *)
(* by itself, from an initial state that they share.  Memory has 15        *)
(* frames: 2 below the base, 2 for the frame table, 6 free kernel pages (a *)
(* byte of bitmap in all) and 5 frames above them.  The screen is 2 by 2   *)
(* in a memory of seven and a half rows, as the real one of 80 by 25 is in *)
(* 204.8: the window moves down, then returns.  A BIOS lists its ranges in *)
(* any order.                                                              *)
EXTENDS Strings, Vsprintf, Boot, Memory, Console

MCChars == {-1, 1}

MCFlags == {<<>>, <<"0">>, <<"-">>, <<"+">>, <<Space>>, <<"#">>, <<"-", "0">>, <<"0", "+">>,
            <<"#", "0">>}
MCWidths == {<<>>, <<"1">>, <<"7">>, <<"1", "2">>, <<"*">>}
MCPrecisions == {<<>>, <<".">>, <<".", "3">>, <<".", "*">>}
MCQualifiers == {<<>>, <<"l">>}
MCConversions == {"c", "s", "d", "u", "x", "%"}
MCNumbers == {0, 9, 10, 256, -1}
MCTexts == {<<>>, <<"A">>, <<"A", "B", "C">>}

Area(addr, size, valid) == [addr |-> addr, size |-> size, valid |-> valid]
MCRanges ==
  LET Low == Area(0, 639, TRUE)
      Hole == Area(3145728, 1048576, FALSE)
      Piece == Area(3145728, 524288, TRUE)
      Above == {{}, {Hole}, {Piece}} \cup {{Hole, Area(Word32, size, TRUE)} :
                 size \in {2048, 1048576, Word32, Word32 + 4096, 3 * Word32}}
  IN  UNION {SetToSeqs({Low, Area(MemoryBaseAddr, size, TRUE)} \cup above) :
               size \in {512, KernelMemorySize, 31683, 3144704}, above \in Above}

MCCounts == {1, 2, 3, 7}
MCLetters == {"a", "b"}

StringRests == function = "none"
FormatRests == fmt = <<>>
BootRests == phase = "off"
MemoryRests == stage = "map" /\ start_page = 0
\* One of the states the firmware may leave, so that the others run once.
ScreenRests == progress = "boot" /\ crt_cursor = 0 /\ video = [c \in Cell |-> Blank]

Init == StringInit /\ FormatInit /\ BootInit /\ MemoryInit /\ ScreenInit
Next ==
  \/ /\ FormatRests /\ BootRests /\ MemoryRests /\ ScreenRests /\ StringNext
     /\ UNCHANGED <<formatVars, bootVars, memoryVars, screenVars>>
  \/ /\ StringRests /\ BootRests /\ MemoryRests /\ ScreenRests /\ FormatNext
     /\ UNCHANGED <<stringVars, bootVars, memoryVars, screenVars>>
  \/ /\ StringRests /\ FormatRests /\ MemoryRests /\ ScreenRests /\ BootNext
     /\ UNCHANGED <<stringVars, formatVars, memoryVars, screenVars>>
  \/ /\ StringRests /\ FormatRests /\ BootRests /\ ScreenRests /\ MemoryNext
     /\ UNCHANGED <<stringVars, formatVars, bootVars, screenVars>>
  \/ /\ StringRests /\ FormatRests /\ BootRests /\ MemoryRests /\ ScreenNext
     /\ UNCHANGED <<stringVars, formatVars, bootVars, memoryVars>>
vars == <<stringVars, formatVars, bootVars, memoryVars, screenVars>>
Spec == Init /\ [][Next]_vars

(* The string functions and printk's %d do what the comments of            *)
(* l_string.c, the test of l_vsprintf.c:65 and docs/024-printk.md:17 say.  *)
AsDocumented == StringsAsDocumented /\ MinusIsPrinted
=============================================================================
