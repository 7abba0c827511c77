------------------------------ MODULE MCEditorStore ------------------------------
EXTENDS EditorStore, TLC

\* Files are alike, and so are projects.
Alike == Permutations(Files) \union Permutations(Projects)
=================================================================================
