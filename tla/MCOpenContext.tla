--------------------------- MODULE MCOpenContext ---------------------------
(***************************************************************************)
(* Model values for OpenContext. Every constant is a number, a Boolean or  *)
(* a set of strings, given in the .cfg files.                              *)
(***************************************************************************)
EXTENDS OpenContext

\* Everything the environment can do.
AllModes    == {"sync", "async"}
AllOutcomes == {"pending", "ok", "error"}
AllReplies  == {"ok", "refused", "timeout"}
AllCallbacks == {"returns", "raises"}

\* A gateway that may be away or drop a connection, and otherwise answers.
AsyncOnly   == {"async"}
PendingOnly == {"pending"}
OkOnly      == {"ok"}

\* A callback of the context that ends in no exception.
ReturnsOnly == {"returns"}

\* A gateway that may refuse InitConnect.
OkOrRefused == {"ok", "refused"}

\* connect() may fail at once: no route, or a host name that does not resolve.
PendingOrError == {"pending", "error"}
=============================================================================
