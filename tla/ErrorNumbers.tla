----------------------------- MODULE ErrorNumbers -----------------------------
(* The error numbers that system calls return (backend_win32.c, syscall.c),  *)
(* kept negative whatever the width of a word.                               *)
EXTENDS Integers

ENOENT == -2
EIO == -5
EBADF == -9
ENOMEM == -12
EFAULT == -14
EINVAL == -22
EMFILE == -24
ESPIPE == -29
ENOSYS == -38
===============================================================================
