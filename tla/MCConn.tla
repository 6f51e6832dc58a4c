------------------------------- MODULE MCConn -------------------------------
(***************************************************************************)
(* Model values for Conn.                                                  *)
(***************************************************************************)
EXTENDS Conn

\* Two whole lines, one as long as msg_in (two bytes) and, with its newline, as
\* long as one read (three bytes), and the beginning of a line.
SmallSends == {<<"x", "nl">>, <<"x", "x", "nl">>, <<"x", "x">>}
=============================================================================
