--------------------------- MODULE MCFlashDriver ---------------------------
\* Two slots besides CartFriend's, and an odd bank between two even ones.
EXTENDS FlashDriver
=============================================================================
