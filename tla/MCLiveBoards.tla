----------------------------- MODULE MCLiveBoards -----------------------------
(* One page and one order, moved by a tap on it and by another device.      *)
EXTENDS LiveBoardsProps
===============================================================================
