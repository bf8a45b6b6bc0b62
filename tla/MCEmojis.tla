------------------------------- MODULE MCEmojis -------------------------------
\* Emojis with one name that both may have and one that only the guild may have.
EXTENDS Emojis
=============================================================================
