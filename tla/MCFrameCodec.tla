---------------------------- MODULE MCFrameCodec ----------------------------
EXTENDS FrameCodec

\* Payloads of up to two bytes over "x", CR and LF (bodies that contain the
\* frame delimiters), and one of 16 bytes, whose length needs two hex digits.
MCPayloads == BoundedSeq({"x", "\r", "\n"}, 2) \cup {[i \in 1..16 |-> "x"]}
MCMaxFrames == 2
=============================================================================
