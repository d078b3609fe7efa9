----------------------------- MODULE MCDataset -----------------------------
(***************************************************************************)
(* The threads, the strings and the files of MakeDataset for TLC.          *)
(***************************************************************************)
EXTENDS MakeDataset

MCThreads == {Main, Printer} \union Workers
MCQueues == {BoardQueue, StringQueue}
MCValues == {rows0 \union {} : rows0 \in SUBSET (Boards \union {Header})}

White == GameLine(TRUE, "white")
Draw == GameLine(TRUE, "draw")
OneBoard == <<Draw, BoardLine(TRUE)>>

MCFiles == {
  <<Skip, Title>>,
  <<Skip>>,
  <<White, Title, Start, MovesLine(<<"quiet", "quiet">>), Skip>> \o OneBoard,
  <<White, BoardLine(TRUE), MovesLine(<<"capture", "check">>), MovesLine(<<"quiet">>)>>,
  \* a game that cannot be read after one that can
  OneBoard \o <<White, Start, MovesLine(<<"quiet", "illegal">>), Draw, Start>>,
  OneBoard \o <<White, MovesLine(<<"quiet">>)>>,
  OneBoard \o <<White, MovesLine(<<"quiet">>), Start>>,
  OneBoard \o <<White, BoardLine(FALSE)>>,
  OneBoard \o <<White, Start, MovesLine(<<>>)>>,
  \* ... and one that is not wanted
  OneBoard \o <<GameLine(TRUE, "unknown"), Start>>,
  OneBoard \o <<White, Start, Start>>,
  OneBoard \o <<White>>,
  \* the end of the first game is broken
  OneBoard \o <<GameLine(FALSE, "white"), Start>> }
=============================================================================
