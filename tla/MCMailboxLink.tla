---------------------------- MODULE MCMailboxLink ----------------------------
EXTENDS MailboxLink

\* c1 and c2 have the same CRC, c3 has another; the content of no bytes has
\* the value 0.
MCContents == {"none", "c1", "c2", "c3"}
MCCrc == [c \in Contents |-> CASE c = "none" -> 0 [] c = "c3" -> 2 [] OTHER -> 1]

\* One buffer that fits and one that is a byte too long.
MCBufferLength == [p \in Pointers |-> IF p = "small" THEN 2 ELSE 3]

==============================================================================
